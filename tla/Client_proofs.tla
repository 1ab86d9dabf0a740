---------------------------- MODULE Client_proofs ----------------------------
(***************************************************************************)
(* Proofs about Client, with Wire, View and Commands, and about the        *)
(* BlockingQueue that its events_queue and cmd_queue are, as the server's  *)
(* queues are, for any constants of theirs.                                *)
(*   Queues: the lengths and elements of sequences, whatever is in them.   *)
(*   The connection: a message of any shape is read in full by the other   *)
(*   end, field by field, in width and byte order (Wire).                  *)
(*   The menu: what a failed login or signup comes from.                   *)
(*   Commands: what each typed line becomes on the server (Commands).      *)
(*   The view: who does not walk is where the server has it (View).        *)
(*   The game: requests and garbage, from one invariant of all that is on  *)
(*   its way.                                                              *)
(*   Nothing is lost: what the server said last is on its way or is shown, *)
(*   for every interleaving of what says, reads and shows it.              *)
(*   BlockingQueue: its bounds, no lost wakeup, and its contract.          *)
(***************************************************************************)
EXTENDS Client, BlockingQueue, SequenceTheorems, FiniteSetTheorems, WellFoundedInduction,
        TLAPS

-----------------------------------------------------------------------------
(***************************************************************************)
(* Queues, of whatever is in them.                                         *)
(***************************************************************************)

IsSeq(s) == \E S : s \in Seq(S)

\* What is appended comes last.
LEMMA AppendIs ==
  ASSUME NEW s, IsSeq(s), NEW x
  PROVE  /\ IsSeq(Append(s, x)) /\ Len(s) \in Nat /\ Append(s, x) # <<>>
         /\ Len(Append(s, x)) = Len(s) + 1 /\ Append(s, x)[Len(s) + 1] = x
         /\ \A i \in 1 .. Len(s) : Append(s, x)[i] = s[i]
<1>1. PICK S : s \in Seq(S)
  BY DEF IsSeq
<1>2. s \in Seq(S \union {x}) /\ x \in S \union {x}
  BY <1>1
<1> QED BY <1>2, AppendProperties DEF IsSeq

\* What is left when the first is taken.
LEMMA TailIs ==
  ASSUME NEW s, IsSeq(s), s # <<>>
  PROVE  /\ IsSeq(Tail(s)) /\ Len(s) \in Nat \ {0} /\ Len(Tail(s)) = Len(s) - 1 /\ Head(s) = s[1]
         /\ \A i \in 1 .. Len(Tail(s)) : Tail(s)[i] = s[i + 1]
<1>1. PICK S : s \in Seq(S)
  BY DEF IsSeq
<1> QED BY <1>1, HeadTailProperties, EmptySeq DEF IsSeq

\* One after the other.
LEMMA ConcatIs ==
  ASSUME NEW s, IsSeq(s), NEW t, IsSeq(t)
  PROVE  /\ IsSeq(s \o t) /\ Len(s) \in Nat /\ Len(t) \in Nat /\ Len(s \o t) = Len(s) + Len(t)
         /\ \A i \in 1 .. Len(s) : (s \o t)[i] = s[i]
         /\ \A i \in 1 .. Len(t) : (s \o t)[Len(s) + i] = t[i]
<1>1. PICK S, T : s \in Seq(S) /\ t \in Seq(T)
  BY DEF IsSeq
<1>2. s \in Seq(S \union T) /\ t \in Seq(S \union T)
  BY <1>1
<1>3. s \o t \in Seq(S \union T) /\ Len(s \o t) = Len(s) + Len(t)
  BY <1>2, ConcatProperties
<1>4. \A i \in 1 .. Len(s) + Len(t) : (s \o t)[i] = IF i <= Len(s) THEN s[i] ELSE t[i - Len(s)]
  BY <1>2, ConcatProperties
<1>5. Len(s) \in Nat /\ Len(t) \in Nat
  BY <1>2, LenProperties
<1>6. ASSUME NEW i \in 1 .. Len(t) PROVE (s \o t)[Len(s) + i] = t[i]
  <2>1. Len(s) + i \in 1 .. Len(s) + Len(t) /\ ~(Len(s) + i <= Len(s)) /\ (Len(s) + i) - Len(s) = i
    BY <1>5
  <2> QED BY <1>4, <2>1
<1> QED BY <1>3, <1>4, <1>5, <1>6 DEF IsSeq

\* A sequence given by its places.
LEMMA PlacesAre ==
  ASSUME NEW n \in Nat, NEW s, DOMAIN s = 1 .. n, s = [i \in 1 .. n |-> s[i]]
  PROVE  IsSeq(s) /\ Len(s) = n
<1> DEFINE S == {s[i] : i \in 1 .. n}
<1>1. s \in [1 .. n -> S]
  OBVIOUS
<1>2. s \in Seq(S)
  BY <1>1
<1>3. Len(s) \in Nat /\ 1 .. Len(s) = 1 .. n
  BY <1>2, LenProperties
<1> HIDE DEF S
<1> QED BY <1>2, <1>3 DEF IsSeq

\* Short ones.
LEMMA ShortOnes ==
  /\ IsSeq(<<>>) /\ Len(<<>>) = 0
  /\ \A x : IsSeq(<<x>>) /\ Len(<<x>>) = 1 /\ <<x>>[1] = x /\ <<x>> # <<>>
<1>1. <<>> \in Seq({}) 
  BY EmptySeq
<1>2. ASSUME NEW x PROVE IsSeq(<<x>>) /\ Len(<<x>>) = 1 /\ <<x>>[1] = x /\ <<x>> # <<>>
  <2>1. <<x>> \in Seq({x})
    OBVIOUS
  <2> QED BY <2>1 DEF IsSeq
<1> QED BY <1>1, <1>2 DEF IsSeq

-----------------------------------------------------------------------------
(***************************************************************************)
(* Recursion.                                                              *)
(***************************************************************************)

\* The elements of S, from 0 on, reach N if each brings the next.
LEMMA UpTo ==
  ASSUME NEW N \in Nat, NEW S, 0 \in S, \A n \in 0..N : n \in S /\ n < N => n + 1 \in S
  PROVE  \A n \in 0..N : n \in S
<1> DEFINE T == {n \in Nat : n <= N /\ n \notin S}
           Less == {s \in Nat \X Nat : s[1] < s[2]}
<1>1. ASSUME T # {} PROVE FALSE
  <2>1. IsWellFoundedOn(Less, Nat)
    BY NatLessThanWellFounded DEF OpToRel
  <2>2. PICK x \in T : \A y \in T : ~(<<y, x>> \in Less)
    <3>1. T \subseteq Nat
      OBVIOUS
    <3> HIDE DEF T, Less
    <3> QED BY <1>1, <2>1, <3>1, WFMin
  <2>3. x \in Nat /\ x <= N /\ x \notin S /\ x # 0
    OBVIOUS
  <2>4. x - 1 \in 0..N /\ x - 1 < N /\ x - 1 \in Nat /\ x - 1 + 1 = x /\ x - 1 < x
    BY <2>3
  <2>5. x - 1 \notin T
    BY <2>2, <2>4
  <2>6. x - 1 \in S
    BY <2>4, <2>5
  <2> QED BY <2>3, <2>4, <2>6
<1>2. QED
  BY <1>1

Stepper(N, D) == [1..N -> [D -> D]]

Follows(f, N, D, base, step) ==
  /\ f \in [0..N -> D] /\ f[0] = base
  /\ \A n \in 1..N : f[n] = step[n][f[n - 1]]

\* A function defined by what comes before exists.
LEMMA RecursionExists ==
  ASSUME NEW D, NEW N \in Nat, NEW base \in D, NEW step \in Stepper(N, D)
  PROVE  \E f : Follows(f, N, D, base, step)
<1> DEFINE Begins(g, m) == g[0] = base /\ \A n \in 1..m : g[n] = step[n][g[n - 1]]
           S == {m \in 0..N : \E g \in [0..m -> D] : Begins(g, m)}
<1>1. 0 \in S
  <2>1. PICK g : g = [n \in 0..0 |-> base]
    OBVIOUS
  <2>2. g \in [0..0 -> D] /\ g[0] = base /\ 1..0 = {}
    BY <2>1
  <2>3. 0 \in 0..N
    OBVIOUS
  <2> QED BY <2>2, <2>3
<1>2. ASSUME NEW m \in 0..N, m \in S, m < N PROVE m + 1 \in S
  <2>1. PICK g \in [0..m -> D] : Begins(g, m)
    BY <1>2
  <2>2. m \in Nat /\ m + 1 \in 1..N /\ m + 1 \in 0..N /\ g[m] \in D /\ step[m + 1] \in [D -> D]
    BY <1>2 DEF Stepper
  <2>3. PICK e : e = step[m + 1][g[m]]
    OBVIOUS
  <2>4. e \in D
    BY <2>2, <2>3
  <2>5. PICK h : h = [n \in 0..(m + 1) |-> IF n = m + 1 THEN e ELSE g[n]]
    OBVIOUS
  <2>6. h \in [0..(m + 1) -> D]
    <3>1. ASSUME NEW n \in 0..(m + 1) PROVE (IF n = m + 1 THEN e ELSE g[n]) \in D
      <4>1. n # m + 1 => n \in 0..m
        BY <2>2
      <4> QED BY <2>4, <4>1
    <3> QED BY <2>5, <3>1
  <2>7. h[0] = base
    BY <2>1, <2>2, <2>5
  <2>8. ASSUME NEW n \in 1..(m + 1) PROVE h[n] = step[n][h[n - 1]]
    <3>1. n \in Nat /\ n \in 0..(m + 1) /\ n - 1 \in 0..(m + 1) /\ n - 1 # m + 1
      BY <2>2
    <3>2. h[n - 1] = g[n - 1]
      BY <2>5, <3>1
    <3>3. CASE n = m + 1
      <4>1. n - 1 = m /\ h[n] = e
        BY <2>2, <2>5, <3>1, <3>3
      <4> QED BY <2>3, <3>2, <3>3, <4>1
    <3>4. CASE n # m + 1
      <4>1. n \in 1..m /\ h[n] = g[n]
        BY <2>2, <2>5, <3>1, <3>4
      <4> QED BY <2>1, <3>2, <4>1
    <3> QED BY <3>3, <3>4
  <2>9. Begins(h, m + 1)
    BY <2>7, <2>8
  <2> QED BY <2>2, <2>6, <2>9
<1>3. N \in S
  <2> HIDE DEF S
  <2>1. \A n \in 0..N : n \in S
    BY <1>1, <1>2, UpTo
  <2> QED BY <2>1
<1>4. QED
  BY <1>3 DEF Follows

-----------------------------------------------------------------------------
(***************************************************************************)
(* What is left of groups when the calls that read them are forgotten.     *)
(***************************************************************************)

Flattens(f, g) == f = [i \in 1..Len(g) |-> IF i = 1 THEN g[i] ELSE f[i - 1] \o g[i]]

\* The groups up to each one, one after the other.
Joined(f, g, F) ==
  /\ f \in [0..Len(g) -> Seq(F)] /\ f[0] = <<>>
  /\ \A i \in 1..Len(g) : f[i] = f[i - 1] \o g[i]

\* What FlattenSeq adds up is a function, however many groups there are.
LEMMA JoinedExists ==
  ASSUME NEW F, NEW g \in Seq(Seq(F))
  PROVE  \E f : Joined(f, g, F)
<1>1. Len(g) \in Nat /\ \A i \in 1..Len(g) : g[i] \in Seq(F)
  BY LenProperties, ElementOfSeq
<1>2. PICK N : N = Len(g)
  OBVIOUS
<1> DEFINE step == [i \in 1..N |-> [x \in Seq(F) |-> x \o g[i]]]
<1>3. step \in Stepper(N, Seq(F))
  <2>1. ASSUME NEW i \in 1..N PROVE [x \in Seq(F) |-> x \o g[i]] \in [Seq(F) -> Seq(F)]
    BY <1>1, <1>2, ConcatProperties
  <2> QED BY <2>1 DEF Stepper
<1>4. <<>> \in Seq(F)
  BY EmptySeq
<1>5. PICK f : Follows(f, N, Seq(F), <<>>, step)
  <2> HIDE DEF step
  <2> QED BY <1>1, <1>2, <1>3, <1>4, RecursionExists
<1>6. /\ f \in [0..N -> Seq(F)] /\ f[0] = <<>>
      /\ \A i \in 1..N : f[i] = step[i][f[i - 1]]
  BY <1>5 DEF Follows
<1>7. ASSUME NEW i \in 1..N PROVE f[i] = f[i - 1] \o g[i]
  <2>1. i - 1 \in 0..N
    BY <1>1, <1>2
  <2>2. f[i - 1] \in Seq(F)
    BY <1>6, <2>1
  <2> QED BY <1>6, <2>2
<1> QED BY <1>2, <1>6, <1>7 DEF Joined

\* What FlattenSeq makes of groups is all of them, one after the other.
LEMMA FlattenIs ==
  ASSUME NEW F, NEW g \in Seq(Seq(F)), NEW f, Joined(f, g, F)
  PROVE  FlattenSeq(g) = f[Len(g)] /\ FlattenSeq(g) \in Seq(F)
<1>1. Len(g) \in Nat /\ \A i \in 1..Len(g) : g[i] \in Seq(F)
  BY LenProperties, ElementOfSeq
<1>2. PICK N : N = Len(g)
  OBVIOUS
<1>3. /\ f \in [0..N -> Seq(F)] /\ f[0] = <<>> /\ \A i \in 1..N : f[i] = f[i - 1] \o g[i]
      /\ N \in Nat
  BY <1>1, <1>2 DEF Joined
<1>4. CASE N = 0
  <2>1. g = <<>>
    BY <1>2, <1>4, EmptySeq
  <2>2. FlattenSeq(g) = g
    BY <1>2, <1>4 DEF FlattenSeq
  <2>3. <<>> \in Seq(F)
    BY EmptySeq
  <2> QED BY <1>2, <1>3, <1>4, <2>1, <2>2, <2>3
<1>5. CASE N # 0
  <2> DEFINE h == CHOOSE x : Flattens(x, g)
  <2>1. FlattenSeq(g) = h[N]
    BY <1>2, <1>5 DEF FlattenSeq, Flattens
  <2>2. h = [i \in 1..N |-> IF i = 1 THEN g[i] ELSE h[i - 1] \o g[i]]
    <3>1. PICK x : x = [i \in 1..N |-> f[i]]
      OBVIOUS
    <3>2. ASSUME NEW i \in 1..N PROVE f[i] = IF i = 1 THEN g[i] ELSE x[i - 1] \o g[i]
      <4>1. CASE i = 1
        <5>1. f[1] = f[0] \o g[1]
          <6>1. 1 \in 1..N /\ 1 - 1 = 0
            BY <4>1
          <6> QED BY <1>3, <6>1
        <5>2. g[1] \in Seq(F)
          BY <1>1, <1>2, <4>1
        <5>3. <<>> \o g[1] = g[1]
          BY <5>2, ConcatEmptySeq
        <5> QED BY <1>3, <4>1, <5>1, <5>3
      <4>2. CASE i # 1
        <5>1. i - 1 \in 1..N
          BY <1>2, <1>1, <4>2
        <5> QED BY <1>3, <3>1, <4>2, <5>1
      <4> QED BY <4>1, <4>2
    <3>3. x = [i \in 1..N |-> IF i = 1 THEN g[i] ELSE x[i - 1] \o g[i]]
      BY <3>1, <3>2
    <3>4. Flattens(x, g)
      BY <1>2, <3>3 DEF Flattens
    <3>5. Flattens(h, g)
      BY <3>4
    <3> QED BY <1>2, <3>5 DEF Flattens
  <2> HIDE DEF h
  <2> DEFINE S == {n \in 0..N : n = 0 \/ h[n] = f[n]}
  <2>3. 0 \in S
    BY <1>3
  <2>4. ASSUME NEW n \in 0..N, n \in S, n < N PROVE n + 1 \in S
    <3>1. n + 1 \in 1..N /\ n + 1 \in 0..N /\ n \in Nat
      BY <1>3, <2>4
    <3>2. h[n + 1] = IF n + 1 = 1 THEN g[n + 1] ELSE h[(n + 1) - 1] \o g[n + 1]
      BY <2>2, <3>1
    <3>3. f[n + 1] = f[n] \o g[n + 1] /\ (n + 1) - 1 = n
      <4>1. (n + 1) - 1 = n
        BY <3>1
      <4>2. f[n + 1] = f[(n + 1) - 1] \o g[n + 1]
        BY <1>3, <3>1
      <4> QED BY <4>1, <4>2
    <3>4. g[n + 1] \in Seq(F)
      BY <1>1, <1>2, <3>1
    <3>5. <<>> \o g[n + 1] = g[n + 1]
      BY <3>4, ConcatEmptySeq
    <3>6. CASE n = 0
      <4>1. h[n + 1] = g[n + 1]
        BY <3>2, <3>6
      <4>2. f[n + 1] = g[n + 1]
        BY <1>3, <3>3, <3>5, <3>6
      <4> QED BY <3>1, <4>1, <4>2
    <3>7. CASE n # 0
      <4>1. h[n] = f[n] /\ n + 1 # 1
        BY <2>4, <3>1, <3>7
      <4> QED BY <3>1, <3>2, <3>3, <4>1
    <3> QED BY <3>6, <3>7
  <2>5. N \in S
    <3> HIDE DEF S
    <3>1. \A n \in 0..N : n \in S
      BY <1>3, <2>3, <2>4, UpTo
    <3> QED BY <1>3, <3>1
  <2>6. h[N] = f[N]
    BY <1>5, <2>5
  <2>7. f[N] \in Seq(F)
    BY <1>3
  <2> QED BY <1>2, <2>1, <2>6, <2>7
<1> QED BY <1>4, <1>5

\* Two lists of groups make, one after the other, what each makes.
LEMMA FlattenConcat ==
  ASSUME NEW F, NEW g \in Seq(Seq(F)), NEW h \in Seq(Seq(F))
  PROVE  /\ FlattenSeq(g \o h) = FlattenSeq(g) \o FlattenSeq(h)
         /\ g \o h \in Seq(Seq(F)) /\ FlattenSeq(g \o h) \in Seq(F)
<1>1. PICK f : Joined(f, g, F)
  BY JoinedExists
<1>2. PICK k : Joined(k, h, F)
  BY JoinedExists
<1>3. PICK N, M : N = Len(g) /\ M = Len(h)
  OBVIOUS
<1>4. N \in Nat /\ M \in Nat
  BY <1>3, LenProperties
<1>5. PICK gh : gh = g \o h
  OBVIOUS
<1>6. /\ gh \in Seq(Seq(F)) /\ Len(gh) = N + M
      /\ \A i \in 1..N + M : gh[i] = IF i <= N THEN g[i] ELSE h[i - N]
  BY <1>3, <1>5, ConcatProperties
<1>7. /\ f \in [0..N -> Seq(F)] /\ f[0] = <<>> /\ \A i \in 1..N : f[i] = f[i - 1] \o g[i]
      /\ k \in [0..M -> Seq(F)] /\ k[0] = <<>> /\ \A i \in 1..M : k[i] = k[i - 1] \o h[i]
  BY <1>1, <1>2, <1>3 DEF Joined
<1>8. PICK c : c = [i \in 0..N + M |-> IF i <= N THEN f[i] ELSE f[N] \o k[i - N]]
  OBVIOUS
<1>9. f[N] \in Seq(F) /\ 0 \in 0..M /\ 0 \in 0..N /\ N \in 0..N /\ M \in 0..M
  BY <1>4, <1>7
<1>10. c \in [0..N + M -> Seq(F)]
  <2>1. ASSUME NEW i \in 0..N + M PROVE (IF i <= N THEN f[i] ELSE f[N] \o k[i - N]) \in Seq(F)
    <3>1. CASE i <= N
      <4>1. i \in 0..N
        BY <1>4, <3>1
      <4> QED BY <1>7, <3>1, <4>1
    <3>2. CASE ~(i <= N)
      <4>1. i - N \in 0..M
        BY <1>4, <3>2
      <4>2. k[i - N] \in Seq(F)
        BY <1>7, <4>1
      <4> QED BY <1>9, <3>2, <4>2, ConcatProperties
    <3> QED BY <3>1, <3>2
  <2> QED BY <1>8, <2>1
<1>11. c[0] = <<>>
  <2>1. 0 \in 0..N + M /\ 0 <= N
    BY <1>4
  <2> QED BY <1>7, <1>8, <2>1
<1>12. ASSUME NEW i \in 1..N + M PROVE c[i] = c[i - 1] \o gh[i]
  <2>1. /\ i \in 0..N + M /\ i - 1 \in 0..N + M
        /\ i <= N => i \in 1..N /\ i - 1 <= N
        /\ ~(i <= N) => i - N \in 1..M /\ (i - N) - 1 = (i - 1) - N
    BY <1>4
  <2>2. CASE i <= N
    <3>1. c[i] = f[i] /\ c[i - 1] = f[i - 1] /\ gh[i] = g[i]
      BY <1>6, <1>8, <2>1, <2>2
    <3> QED BY <1>7, <2>1, <2>2, <3>1
  <2>3. CASE ~(i <= N)
    <3>1. PICK j : j = i - N
      OBVIOUS
    <3>2. j \in 1..M /\ j - 1 \in 0..M /\ j - 1 = (i - 1) - N
      BY <1>4, <2>1, <2>3, <3>1
    <3>3. c[i] = f[N] \o k[j] /\ gh[i] = h[j]
      BY <1>6, <1>8, <2>1, <2>3, <3>1
    <3>4. k[j] = k[j - 1] \o h[j] /\ k[j - 1] \in Seq(F)
      BY <1>7, <3>2
    <3>5. h[j] \in Seq(F)
      BY <1>3, <3>2, ElementOfSeq
    <3>6. (f[N] \o k[j - 1]) \o h[j] = f[N] \o (k[j - 1] \o h[j])
      <4>1. PICK x, y, z : x = f[N] /\ y = k[j - 1] /\ z = h[j]
        OBVIOUS
      <4>2. x \in Seq(F) /\ y \in Seq(F) /\ z \in Seq(F)
        BY <1>9, <3>4, <3>5, <4>1
      <4>3. (x \o y) \o z = x \o (y \o z)
        BY <4>2, ConcatAssociative, SMTT(60)
      <4> QED BY <4>1, <4>3
    <3>7. c[i - 1] = f[N] \o k[j - 1]
      <4>1. CASE i - 1 <= N
        <5>1. j - 1 = 0 /\ i - 1 = N
          BY <1>4, <2>1, <2>3, <3>2, <4>1
        <5>2. f[N] \o <<>> = f[N]
          BY <1>9, ConcatEmptySeq
        <5>3. c[N] = f[N]
          BY <1>4, <1>8
        <5> QED BY <1>7, <5>1, <5>2, <5>3
      <4>2. CASE ~(i - 1 <= N)
        BY <1>8, <2>1, <3>2, <4>2
      <4> QED BY <4>1, <4>2
    <3> QED BY <3>3, <3>4, <3>6, <3>7
  <2> QED BY <2>2, <2>3
<1>13. Joined(c, gh, F)
  BY <1>6, <1>10, <1>11, <1>12 DEF Joined
<1>14. FlattenSeq(gh) = c[N + M] /\ FlattenSeq(gh) \in Seq(F)
  BY <1>6, <1>13, FlattenIs
<1>15. FlattenSeq(g) = f[N] /\ FlattenSeq(h) = k[M]
  BY <1>1, <1>2, <1>3, FlattenIs
<1>16. c[N + M] = f[N] \o k[M]
  <2>1. N + M \in 0..N + M /\ (N + M) - N = M /\ (N + M <= N => M = 0 /\ N + M = N)
    BY <1>4
  <2>2. CASE N + M <= N
    <3>1. f[N] \o <<>> = f[N]
      BY <1>9, ConcatEmptySeq
    <3> QED BY <1>7, <1>8, <2>1, <2>2, <3>1
  <2>3. CASE ~(N + M <= N)
    BY <1>8, <2>1, <2>3
  <2> QED BY <2>2, <2>3
<1> QED BY <1>5, <1>6, <1>14, <1>15, <1>16

\* Groups of one field each are that field, and then the next.
LEMMA FlattenSingles ==
  ASSUME NEW F, NEW s \in Seq(F), NEW g, g = [i \in 1..Len(s) |-> <<s[i]>>]
  PROVE  g \in Seq(Seq(F)) /\ FlattenSeq(g) = s
<1>1. PICK N : N = Len(s)
  OBVIOUS
<1>2. N \in Nat /\ \A i \in 1..N : s[i] \in F
  BY <1>1, LenProperties, ElementOfSeq
<1>3. ASSUME NEW i \in 1..N PROVE <<s[i]>> \in Seq(F)
  BY <1>2
<1>4. g \in Seq(Seq(F)) /\ Len(g) = N
  <2>1. g \in [1..N -> Seq(F)]
    BY <1>1, <1>3
  <2>2. g \in Seq(Seq(F))
    BY <1>2, <2>1, SeqDef
  <2>3. Len(g) \in Nat /\ 1..Len(g) = 1..N
    BY <2>1, <2>2, LenProperties
  <2> QED BY <1>2, <2>2, <2>3
<1>5. PICK f : f = [i \in 0..N |-> SubSeq(s, 1, i)]
  OBVIOUS
<1>6. \A i \in 0..N : SubSeq(s, 1, i) \in Seq(F)
  BY <1>1, <1>2, SubSeqProperties
<1>7. f \in [0..N -> Seq(F)] /\ f[0] = <<>>
  <2>1. SubSeq(s, 1, 0) = <<>>
    BY SubSeqEmpty
  <2> QED BY <1>2, <1>5, <1>6, <2>1
<1>8. ASSUME NEW i \in 1..N PROVE f[i] = f[i - 1] \o g[i]
  <2>1. i \in 1..Len(s) /\ 1 \in 1..Len(s) /\ i \in 0..N /\ i - 1 \in 0..N
    BY <1>1, <1>2
  <2>2. SubSeq(s, 1, i) = SubSeq(s, 1, i - 1) \o <<s[i]>>
    <3>1. 1 \in 1..Len(s) /\ i \in 1..Len(s)
      BY <2>1
    <3> QED BY <3>1, SubSeqRecursiveSecond
  <2> QED BY <1>1, <1>5, <2>1, <2>2
<1>9. Joined(f, g, F)
  BY <1>4, <1>7, <1>8 DEF Joined
<1>10. FlattenSeq(g) = f[N]
  BY <1>4, <1>9, FlattenIs
<1>11. f[N] = s
  <2>1. N \in 0..N
    BY <1>2
  <2> QED BY <1>1, <1>5, <2>1, SubSeqFull
<1> QED BY <1>4, <1>10, <1>11

\* A loop that reads what a loop wrote, however often.
LEMMA LoopReads ==
  ASSUME NEW F, NEW groups \in Seq(Seq(F)), NEW n \in Nat
  PROVE  /\ Loop(n, groups) \in Seq(Seq(F)) /\ Times(n, FlattenSeq(groups)) \in Seq(F)
         /\ FlattenSeq(Loop(n, groups)) = Times(n, FlattenSeq(groups))
<1>1. PICK fields, g, h : /\ fields = FlattenSeq(groups)
                          /\ g = [i \in 1..n |-> groups] /\ h = [i \in 1..n |-> fields]
  OBVIOUS
<1>2. PICK S : S = Seq(F)
  OBVIOUS
<1>3. fields \in S
  <2>1. \E f : Joined(f, groups, F)
    BY JoinedExists
  <2> QED BY <1>1, <1>2, <2>1, FlattenIs
<1>4. g \in Seq(Seq(S)) /\ Len(g) = n /\ h \in Seq(S) /\ Len(h) = n
  <2>1. g \in [1..n -> Seq(S)] /\ h \in [1..n -> S]
    BY <1>1, <1>2, <1>3
  <2>2. g \in Seq(Seq(S)) /\ h \in Seq(S)
    BY <2>1, SeqDef
  <2>3. Len(g) \in Nat /\ 1..Len(g) = 1..n /\ Len(h) \in Nat /\ 1..Len(h) = 1..n
    BY <2>1, <2>2, LenProperties
  <2> QED BY <2>2, <2>3
<1>5. PICK f : Joined(f, g, S)
  BY <1>4, JoinedExists
<1>6. f \in [0..n -> Seq(S)] /\ f[0] = <<>> /\ \A i \in 1..n : f[i] = f[i - 1] \o groups
  BY <1>1, <1>4, <1>5 DEF Joined
<1>7. PICK k : k = [i \in 0..n |-> FlattenSeq(f[i])]
  OBVIOUS
<1>8. ASSUME NEW s \in Seq(S) PROVE FlattenSeq(s) \in S
  <2>1. \E x : Joined(x, s, F)
    BY <1>2, JoinedExists
  <2> QED BY <1>2, <2>1, FlattenIs
<1>9. k \in [0..n -> S]
  BY <1>6, <1>7, <1>8
<1>10. k[0] = <<>>
  <2>1. FlattenSeq(<<>>) = <<>>
    <3>1. Len(<<>>) = 0
      BY EmptySeq
    <3> QED BY <3>1 DEF FlattenSeq
  <2> QED BY <1>6, <1>7, <2>1
<1>11. ASSUME NEW i \in 1..n PROVE k[i] = k[i - 1] \o h[i]
  <2>1. i \in 0..n /\ i - 1 \in 0..n
    OBVIOUS
  <2>2. f[i - 1] \in Seq(S) /\ f[i] = f[i - 1] \o groups
    BY <1>6, <2>1
  <2>3. FlattenSeq(f[i]) = FlattenSeq(f[i - 1]) \o fields
    BY <1>1, <1>2, <2>2, FlattenConcat
  <2> QED BY <1>1, <1>7, <2>1, <2>3
<1>12. Joined(k, h, F)
  BY <1>2, <1>4, <1>9, <1>10, <1>11 DEF Joined
<1>13. FlattenSeq(h) = k[n] /\ FlattenSeq(h) \in Seq(F)
  BY <1>2, <1>4, <1>12, FlattenIs
<1>14. FlattenSeq(g) = f[n] /\ FlattenSeq(g) \in Seq(S)
  BY <1>4, <1>5, FlattenIs
<1>15. k[n] = FlattenSeq(f[n])
  <2>1. n \in 0..n
    OBVIOUS
  <2> QED BY <1>7, <2>1
<1>16. Loop(n, groups) = FlattenSeq(g) /\ Times(n, fields) = FlattenSeq(h)
  BY <1>1 DEF Loop, Times
<1> QED BY <1>1, <1>2, <1>13, <1>14, <1>15, <1>16

-----------------------------------------------------------------------------
(***************************************************************************)
(* The messages, with lists and texts of any length.                       *)
(***************************************************************************)

\* What is read by "groups" is what was written as "fields".
Reads(groups, fields) ==
  \E F : groups \in Seq(Seq(F)) /\ fields \in Seq(F) /\ FlattenSeq(groups) = fields

\* A call that reads all that one struct, or one field, takes.
LEMMA OneGroup ==
  ASSUME NEW a, IsSeq(a)
  PROVE  Reads(<<a>>, a)
<1>1. PICK F : a \in Seq(F)
  BY DEF IsSeq
<1>2. <<a>> \in Seq(Seq(F)) /\ Len(<<a>>) = 1 /\ <<a>>[1] = a
  BY <1>1
<1>3. PICK f : f = [i \in 0..1 |-> IF i = 0 THEN <<>> ELSE a]
  OBVIOUS
<1>4. <<>> \in Seq(F) /\ <<>> \o a = a
  BY <1>1, EmptySeq, ConcatEmptySeq
<1>5. f \in [0..1 -> Seq(F)] /\ f[0] = <<>> /\ f[1] = a
  BY <1>1, <1>3, <1>4
<1>6. \A i \in 1..1 : f[i] = f[i - 1] \o <<a>>[i]
  <2>1. ASSUME NEW i \in 1..1 PROVE i = 1 /\ i - 1 = 0
    OBVIOUS
  <2> QED BY <1>2, <1>4, <1>5, <2>1
<1>7. Joined(f, <<a>>, F)
  BY <1>2, <1>5, <1>6 DEF Joined
<1>8. FlattenSeq(<<a>>) = a
  BY <1>2, <1>5, <1>7, FlattenIs
<1> QED BY <1>1, <1>2, <1>8 DEF Reads

\* More fields may be had in mind than there are.
LEMMA Wider ==
  ASSUME NEW g, NEW a, NEW h, NEW b, Reads(g, a), Reads(h, b)
  PROVE  \E F : /\ g \in Seq(Seq(F)) /\ a \in Seq(F) /\ FlattenSeq(g) = a
                /\ h \in Seq(Seq(F)) /\ b \in Seq(F) /\ FlattenSeq(h) = b
<1>1. PICK F : g \in Seq(Seq(F)) /\ a \in Seq(F) /\ FlattenSeq(g) = a
  BY DEF Reads
<1>2. PICK G : h \in Seq(Seq(G)) /\ b \in Seq(G) /\ FlattenSeq(h) = b
  BY DEF Reads
<1>3. PICK B : B = F \union G
  OBVIOUS
<1>4. F \subseteq B /\ G \subseteq B
  BY <1>3
<1>5. a \in Seq(B) /\ b \in Seq(B) /\ Seq(F) \subseteq Seq(B) /\ Seq(G) \subseteq Seq(B)
  BY <1>1, <1>2, <1>4, SeqMonotonic
<1>6. g \in Seq(Seq(B)) /\ h \in Seq(Seq(B))
  BY <1>1, <1>2, <1>5, SeqMonotonic
<1> QED BY <1>1, <1>2, <1>5, <1>6

\* Calls that read one text and calls that read the next read both.
LEMMA Both ==
  ASSUME NEW g, NEW h, NEW a, NEW b, Reads(g, a), Reads(h, b)
  PROVE  Reads(g \o h, a \o b)
<1>1. PICK F : /\ g \in Seq(Seq(F)) /\ a \in Seq(F) /\ FlattenSeq(g) = a
               /\ h \in Seq(Seq(F)) /\ b \in Seq(F) /\ FlattenSeq(h) = b
  BY Wider
<1>2. a \o b \in Seq(F) /\ g \o h \in Seq(Seq(F)) /\ FlattenSeq(g \o h) = a \o b
  BY <1>1, FlattenConcat, ConcatProperties
<1> QED BY <1>2 DEF Reads

\* A loop of reading calls reads what the same loop wrote.
LEMMA Looped ==
  ASSUME NEW g, NEW a, Reads(g, a), NEW n \in Nat
  PROVE  Reads(Loop(n, g), Times(n, a))
<1>1. PICK F : g \in Seq(Seq(F)) /\ a \in Seq(F) /\ FlattenSeq(g) = a
  BY DEF Reads
<1> QED BY <1>1, LoopReads DEF Reads

\* Short sequences put together.
LEMMA Short ==
  /\ \A x, y : <<x>> \o <<y>> = <<x, y>>
  /\ \A x, y, z : <<x>> \o <<y, z>> = <<x, y, z>> /\ <<x, y>> \o <<z>> = <<x, y, z>>
<1>1. ASSUME NEW S, NEW s \in Seq(S), NEW t \in Seq(S), NEW u \in Seq(S), Len(u) = Len(s) + Len(t),
             \A i \in 1..Len(s) : u[i] = s[i],
             \A i \in 1..Len(t) : u[Len(s) + i] = t[i]
      PROVE  s \o t = u
  <2>1. s \o t \in Seq(S) /\ Len(s \o t) = Len(u) /\ Len(s) \in Nat /\ Len(t) \in Nat
    BY <1>1, ConcatProperties, LenProperties
  <2>2. ASSUME NEW i \in 1..Len(s \o t) PROVE (s \o t)[i] = u[i]
    <3>1. (s \o t)[i] = IF i <= Len(s) THEN s[i] ELSE t[i - Len(s)]
      BY <1>1, <2>1, ConcatProperties
    <3>2. CASE i <= Len(s)
      BY <1>1, <2>1, <3>1, <3>2
    <3>3. CASE ~(i <= Len(s))
      <4>1. i - Len(s) \in 1..Len(t) /\ Len(s) + (i - Len(s)) = i
        BY <1>1, <2>1, <3>3
      <4> QED BY <1>1, <3>1, <3>3, <4>1
    <3> QED BY <3>2, <3>3
  <2> QED BY <2>1, <2>2, SeqEqual
<1>2. ASSUME NEW x, NEW y PROVE <<x>> \o <<y>> = <<x, y>>
  <2>0. PICK S : S = {x, y}
    OBVIOUS
  <2>1. <<x>> \in Seq(S) /\ <<y>> \in Seq(S) /\ <<x, y>> \in Seq(S)
    BY <2>0
  <2>2. \A i \in 1..1 : <<x, y>>[i] = <<x>>[i] /\ <<x, y>>[1 + i] = <<y>>[i]
    OBVIOUS
  <2>3. Len(<<x>>) = 1 /\ Len(<<y>>) = 1 /\ Len(<<x, y>>) = 1 + 1
    OBVIOUS
  <2> QED BY <1>1, <2>1, <2>2, <2>3
<1>3. ASSUME NEW x, NEW y, NEW z
      PROVE  <<x>> \o <<y, z>> = <<x, y, z>> /\ <<x, y>> \o <<z>> = <<x, y, z>>
  <2>0. PICK S : S = {x, y, z}
    OBVIOUS
  <2>1. /\ <<x>> \in Seq(S) /\ <<y, z>> \in Seq(S) /\ <<x, y>> \in Seq(S) /\ <<z>> \in Seq(S)
        /\ <<x, y, z>> \in Seq(S)
    BY <2>0
  <2>2. /\ \A i \in 1..1 : <<x, y, z>>[i] = <<x>>[i]
        /\ \A i \in 1..2 : <<x, y, z>>[1 + i] = <<y, z>>[i]
    OBVIOUS
  <2>3. /\ \A i \in 1..2 : <<x, y, z>>[i] = <<x, y>>[i]
        /\ \A i \in 1..1 : <<x, y, z>>[2 + i] = <<z>>[i]
    OBVIOUS
  <2>4. Len(<<x>>) = 1 /\ Len(<<y, z>>) = 2 /\ Len(<<x, y, z>>) = 1 + 2
    OBVIOUS
  <2>5. Len(<<x, y>>) = 2 /\ Len(<<z>>) = 1 /\ Len(<<x, y, z>>) = 2 + 1
    OBVIOUS
  <2>6. <<x>> \o <<y, z>> = <<x, y, z>>
    BY <1>1, <2>1, <2>2, <2>4
  <2>7. <<x, y>> \o <<z>> = <<x, y, z>>
    BY <1>1, <2>1, <2>3, <2>5
  <2> QED BY <2>6, <2>7
<1> QED BY <1>2, <1>3

\* Fields that are read one by one.
LEMMA Singles ==
  /\ \A x : Reads(<<<<x>>>>, <<x>>)
  /\ \A x, y : Reads(<<<<x>>, <<y>>>>, <<x, y>>)
  /\ \A x, y, z : Reads(<<<<x>>, <<y>>, <<z>>>>, <<x, y, z>>)
<1>1. ASSUME NEW x PROVE Reads(<<<<x>>>>, <<x>>)
  <2>1. <<x>> \in Seq({x})
    OBVIOUS
  <2> QED BY <2>1, OneGroup DEF IsSeq
<1>2. ASSUME NEW x, NEW y PROVE Reads(<<<<x>>, <<y>>>>, <<x, y>>)
  <2>1. Reads(<<<<x>>>> \o <<<<y>>>>, <<x>> \o <<y>>)
    BY <1>1, Both
  <2>2. <<<<x>>>> \o <<<<y>>>> = <<<<x>>, <<y>>>> /\ <<x>> \o <<y>> = <<x, y>>
    BY Short
  <2> QED BY <2>1, <2>2
<1>3. ASSUME NEW x, NEW y, NEW z PROVE Reads(<<<<x>>, <<y>>, <<z>>>>, <<x, y, z>>)
  <2>1. Reads(<<<<x>>, <<y>>>> \o <<<<z>>>>, <<x, y>> \o <<z>>)
    BY <1>1, <1>2, Both
  <2>2. <<<<x>>, <<y>>>> \o <<<<z>>>> = <<<<x>>, <<y>>, <<z>>>> /\ <<x, y>> \o <<z>> = <<x, y, z>>
    BY Short
  <2> QED BY <2>1, <2>2
<1> QED BY <1>1, <1>2, <1>3

\* One after the other, however they are put together.
LEMMA Regrouped ==
  ASSUME NEW g, NEW a, Reads(g, a), NEW h, NEW b, Reads(h, b), NEW k, NEW c, Reads(k, c)
  PROVE  (a \o b) \o c = a \o (b \o c) /\ (g \o h) \o k = g \o (h \o k)
<1>1. PICK F : g \in Seq(Seq(F)) /\ a \in Seq(F)
  BY DEF Reads
<1>2. PICK G : h \in Seq(Seq(G)) /\ b \in Seq(G)
  BY DEF Reads
<1>3. PICK H : k \in Seq(Seq(H)) /\ c \in Seq(H)
  BY DEF Reads
<1>4. PICK B : B = F \union G \union H
  OBVIOUS
<1>5. F \subseteq B /\ G \subseteq B /\ H \subseteq B
  BY <1>4
<1>6. a \in Seq(B) /\ b \in Seq(B) /\ c \in Seq(B)
  BY <1>1, <1>2, <1>3, <1>5, SeqMonotonic
<1>7. Seq(F) \subseteq Seq(B) /\ Seq(G) \subseteq Seq(B) /\ Seq(H) \subseteq Seq(B)
  BY <1>5, SeqMonotonic
<1>8. g \in Seq(Seq(B)) /\ h \in Seq(Seq(B)) /\ k \in Seq(Seq(B))
  BY <1>1, <1>2, <1>3, <1>7, SeqMonotonic
<1>9. (a \o b) \o c = a \o (b \o c)
  BY <1>6, ConcatAssociative, SMTT(60)
<1>10. (g \o h) \o k = g \o (h \o k)
  BY <1>8, ConcatAssociative, SMTT(60)
<1> QED BY <1>9, <1>10

\* A count, and as many structs.
LEMMA ListReads ==
  ASSUME NEW x, NEW a, IsSeq(a), NEW n \in Nat
  PROVE  Reads(<<<<x>>>> \o Loop(n, <<a>>), <<x>> \o Times(n, a))
BY OneGroup, Singles, Both, Looped

\* A string is a length in network order and then that many characters, none for
\* an empty one.
LEMMA TextReads ==
  ASSUME NEW n \in Nat
  PROVE  Reads(recvText(n), Text(n))
<1>1. PICK x, y : x = Net("len", 2) /\ y = Host("text", n)
  OBVIOUS
<1>2. CASE n = 0
  <2>1. <<x>> \in Seq({x}) /\ <<<<x>>>> \in Seq({<<x>>})
    OBVIOUS
  <2>2. <<<<x>>>> \o <<>> = <<<<x>>>> /\ <<x>> \o <<>> = <<x>>
    BY <2>1, ConcatEmptySeq
  <2>3. Reads(<<<<x>>>>, <<x>>)
    BY Singles
  <2> QED BY <1>1, <1>2, <2>2, <2>3 DEF recvText, Text
<1>3. CASE n # 0
  <2>1. Reads(<<<<x>>>> \o <<<<y>>>>, <<x>> \o <<y>>)
    BY Singles, Both
  <2> QED BY <1>1, <1>3, <2>1 DEF recvText, Text
<1> QED BY <1>2, <1>3

\* Converting fields leaves as many, and they are a sequence.
LEMMA ConvertedIs ==
  ASSUME NEW struct, IsSeq(struct), NEW names
  PROVE  /\ IsSeq(Converted(struct, names)) /\ Len(Converted(struct, names)) = Len(struct)
         /\ \A i \in 1..Len(struct) :
              Converted(struct, names)[i] = IF struct[i][1] \in names THEN Net(struct[i][1], struct[i][2])
                                            ELSE struct[i]
<1>1. PICK N : N = Len(struct)
  OBVIOUS
<1>2. N \in Nat /\ DOMAIN struct = 1..N
  BY <1>1, LenProperties DEF IsSeq
<1>3. PICK c : c = Converted(struct, names)
  OBVIOUS
<1>4. c = [i \in 1..N |-> IF struct[i][1] \in names THEN Net(struct[i][1], struct[i][2])
                          ELSE struct[i]]
  BY <1>2, <1>3 DEF Converted
<1>5. PICK S : S = {c[i] : i \in 1..N}
  OBVIOUS
<1>6. c \in [1..N -> S]
  BY <1>4, <1>5
<1>7. c \in Seq(S)
  BY <1>2, <1>6, SeqDef
<1>8. Len(c) \in Nat /\ 1..Len(c) = 1..N
  BY <1>6, <1>7, LenProperties
<1>9. Len(c) = N
  BY <1>2, <1>8
<1> QED BY <1>1, <1>3, <1>4, <1>7, <1>9 DEF IsSeq

\* The opcode and one field, and then more.
LEMMA HeadAndOne ==
  ASSUME NEW h, NEW x, NEW g, NEW a, Reads(g, a)
  PROVE  Reads(<<<<h>>>> \o (<<<<x>>>> \o g), <<h, x>> \o a)
<1>1. Reads(<<<<h>>>>, <<h>>) /\ Reads(<<<<x>>>>, <<x>>)
  BY Singles
<1>2. Reads(<<<<h>>>> \o (<<<<x>>>> \o g), <<h>> \o (<<x>> \o a))
  BY <1>1, Both
<1>3. <<h>> \o (<<x>> \o a) = (<<h>> \o <<x>>) \o a /\ <<h>> \o <<x>> = <<h, x>>
  BY <1>1, Regrouped, Short
<1> QED BY <1>2, <1>3

\* The opcode and two fields, and then more.
LEMMA HeadAndTwo ==
  ASSUME NEW h, NEW x, NEW y, NEW g, NEW a, Reads(g, a)
  PROVE  Reads(<<<<h>>>> \o (<<<<x>>, <<y>>>> \o g), <<h, x, y>> \o a)
<1>1. Reads(<<<<h>>>>, <<h>>) /\ Reads(<<<<x>>, <<y>>>>, <<x, y>>)
  BY Singles
<1>2. Reads(<<<<h>>>> \o (<<<<x>>, <<y>>>> \o g), <<h>> \o (<<x, y>> \o a))
  BY <1>1, Both
<1>3. <<h>> \o (<<x, y>> \o a) = (<<h>> \o <<x, y>>) \o a /\ <<h>> \o <<x, y>> = <<h, x, y>>
  BY <1>1, Regrouped, Short
<1> QED BY <1>2, <1>3

\* The opcode belongs to what follows it, whichever way it is grouped.
LEMMA HeadFirst ==
  ASSUME NEW h, NEW g, NEW a, Reads(g, a), NEW k, NEW b, Reads(k, b)
  PROVE  <<h>> \o (a \o b) = (<<h>> \o a) \o b
<1>1. Reads(<<<<h>>>>, <<h>>)
  BY Singles
<1> QED BY <1>1, Regrouped

\* The opcode and the five lists of a snapshot.
LEMMA HeadAndFive ==
  ASSUME NEW h, NEW g1, NEW a1, Reads(g1, a1), NEW g2, NEW a2, Reads(g2, a2),
         NEW g3, NEW a3, Reads(g3, a3), NEW g4, NEW a4, Reads(g4, a4),
         NEW g5, NEW a5, Reads(g5, a5)
  PROVE  Reads(<<<<h>>>> \o (g1 \o g2 \o g3 \o g4 \o g5), <<h>> \o a1 \o a2 \o a3 \o a4 \o a5)
<1>1. Reads(<<<<h>>>>, <<h>>)
  BY Singles
<1>2. Reads(g1 \o g2, a1 \o a2)
  BY Both
<1>3. Reads(g1 \o g2 \o g3, a1 \o a2 \o a3)
  BY <1>2, Both
<1>4. Reads(g1 \o g2 \o g3 \o g4, a1 \o a2 \o a3 \o a4)
  BY <1>3, Both
<1>5. Reads(<<<<h>>>> \o (g1 \o g2 \o g3 \o g4 \o g5), <<h>> \o (a1 \o a2 \o a3 \o a4 \o a5))
  BY <1>1, <1>4, Both
<1>6. <<h>> \o (a1 \o a2) = <<h>> \o a1 \o a2
  BY HeadFirst
<1>7. <<h>> \o (a1 \o a2 \o a3) = <<h>> \o (a1 \o a2) \o a3
  BY <1>2, HeadFirst
<1>8. <<h>> \o (a1 \o a2 \o a3 \o a4) = <<h>> \o (a1 \o a2 \o a3) \o a4
  BY <1>3, HeadFirst
<1>9. <<h>> \o (a1 \o a2 \o a3 \o a4 \o a5) = <<h>> \o (a1 \o a2 \o a3 \o a4) \o a5
  BY <1>4, HeadFirst
<1> QED BY <1>5, <1>6, <1>7, <1>8, <1>9

\* The structs are sequences of fields.
LEMMA TuplesAre ==
  /\ \A a : IsSeq(<<a>>)
  /\ \A a, b : IsSeq(<<a, b>>)
  /\ \A a, b, c : IsSeq(<<a, b, c>>)
  /\ \A a, b, c, d : IsSeq(<<a, b, c, d>>)
  /\ \A a, b, c, d, e, f : IsSeq(<<a, b, c, d, e, f>>)
  /\ \A a, b, c, d, e, f, g, h : IsSeq(<<a, b, c, d, e, f, g, h>>)
<1>1. ASSUME NEW a PROVE IsSeq(<<a>>)
  <2>1. <<a>> \in Seq({a})
    OBVIOUS
  <2> QED BY <2>1 DEF IsSeq
<1>2. ASSUME NEW a, NEW b PROVE IsSeq(<<a, b>>)
  <2>1. <<a, b>> \in Seq({a, b})
    OBVIOUS
  <2> QED BY <2>1 DEF IsSeq
<1>3. ASSUME NEW a, NEW b, NEW c PROVE IsSeq(<<a, b, c>>)
  <2>1. <<a, b, c>> \in Seq({a, b, c})
    OBVIOUS
  <2> QED BY <2>1 DEF IsSeq
<1>4. ASSUME NEW a, NEW b, NEW c, NEW d PROVE IsSeq(<<a, b, c, d>>)
  <2>1. <<a, b, c, d>> \in Seq({a, b, c, d})
    OBVIOUS
  <2> QED BY <2>1 DEF IsSeq
<1>5. ASSUME NEW a, NEW b, NEW c, NEW d, NEW e, NEW f PROVE IsSeq(<<a, b, c, d, e, f>>)
  <2>1. <<a, b, c, d, e, f>> \in Seq({a, b, c, d, e, f})
    OBVIOUS
  <2> QED BY <2>1 DEF IsSeq
<1>6. ASSUME NEW a, NEW b, NEW c, NEW d, NEW e, NEW f, NEW g, NEW h
      PROVE  IsSeq(<<a, b, c, d, e, f, g, h>>)
  <2>1. <<a, b, c, d, e, f, g, h>> \in Seq({a, b, c, d, e, f, g, h})
    OBVIOUS
  <2> QED BY <2>1 DEF IsSeq
<1> QED BY <1>1, <1>2, <1>3, <1>4, <1>5, <1>6

\* Two sequences make a sequence, whatever is in them.
LEMMA JoinedIsSeq ==
  ASSUME NEW s, IsSeq(s), NEW t, IsSeq(t)
  PROVE  IsSeq(s \o t)
<1>1. Reads(<<s>>, s) /\ Reads(<<t>>, t)
  BY OneGroup
<1>2. Reads(<<s>> \o <<t>>, s \o t)
  BY <1>1, Both
<1> QED BY <1>2 DEF Reads, IsSeq

\* Every struct that crosses the connection is a sequence of fields.
LEMMA StructsAre ==
  /\ IsSeq(PlayerSnapshotData) /\ IsSeq(CitizenNpcSnapshot) /\ IsSeq(NpcSnapshotData)
  /\ IsSeq(ItemGroundSnapshotData) /\ IsSeq(SoundEffectSnapshotData)
  /\ IsSeq(VisualEffectSnapshotData) /\ IsSeq(MsgSlot)
<1>1. IsSeq(Position) /\ IsSeq(PlayerStats) /\ IsSeq(CharacterTraits)
  BY TuplesAre DEF Position, PlayerStats, CharacterTraits
<1>2. IsSeq(SoundEffectSnapshotData) /\ IsSeq(VisualEffectSnapshotData) /\ IsSeq(MsgSlot)
  BY TuplesAre DEF SoundEffectSnapshotData, VisualEffectSnapshotData, MsgSlot
<1>3. IsSeq(ItemGroundSnapshotData)
  BY <1>1, TuplesAre, JoinedIsSeq DEF ItemGroundSnapshotData
<1>4. IsSeq(CitizenNpcSnapshot)
  BY <1>1, TuplesAre, JoinedIsSeq DEF CitizenNpcSnapshot
<1>5. IsSeq(NpcSnapshotData)
  BY <1>1, TuplesAre, JoinedIsSeq DEF NpcSnapshotData
<1>6. IsSeq(PlayerSnapshotData)
  <2>1. PICK a, b, c : /\ a = <<Host("name", 30), Host("id", 4)>> /\ b = <<Host("direction", 1)>>
                       /\ c = <<Host("weapon_id", 1), Host("shield_id", 1), Host("helmet_id", 1),
                                Host("armor_id", 1), Host("flags", 1),
                                Host("resurrection_time_left_ms", 2)>>
    OBVIOUS
  <2>2. IsSeq(a) /\ IsSeq(b) /\ IsSeq(c)
    BY <2>1, TuplesAre
  <2>3. PlayerSnapshotData = a \o Position \o b \o PlayerStats \o CharacterTraits \o c
    BY <2>1 DEF PlayerSnapshotData
  <2>4. IsSeq(a \o Position \o b)
    BY <1>1, <2>2, JoinedIsSeq
  <2> QED BY <1>1, <2>2, <2>3, <2>4, JoinedIsSeq
<1> QED BY <1>2, <1>3, <1>4, <1>5, <1>6

\* Lists and texts of any length, and maps of any size.
AnyShape(opcode) ==
  CASE opcode = "SNAPSHOT" -> [1 .. 5 -> Nat]
    [] opcode = "MAP_DATA" -> [1 .. 3 -> Nat]
    [] OTHER -> [1 .. 1 -> Nat]

\* A snapshot, with its five lists of any length.
LEMMA SnapshotReads ==
  ASSUME NEW n \in [1 .. 5 -> Nat]
  PROVE  Reads(receiveMessage("SNAPSHOT", n), sendSnapshot(n))
<1>1. /\ n[1] \in Nat /\ n[2] \in Nat /\ n[3] \in Nat /\ n[4] \in Nat /\ n[5] \in Nat
  OBVIOUS
<1>2. Reads(receivePlayers(n[1]), appendPlayers(n[1]))
  BY <1>1, StructsAre, ConvertedIs, ListReads DEF receivePlayers, appendPlayers
<1>3. Reads(receiveNpcs(n[2]), appendNpcs(n[2]))
  BY <1>1, StructsAre, ConvertedIs, ListReads DEF receiveNpcs, appendNpcs
<1>4. Reads(receiveItemsOnFloor(n[3]), appendItems(n[3]))
  BY <1>1, StructsAre, ConvertedIs, ListReads DEF receiveItemsOnFloor, appendItems
<1>5. Reads(receiveSoundEffects(n[4]), appendSoundEffects(n[4]))
  BY <1>1, StructsAre, ConvertedIs, ListReads DEF receiveSoundEffects, appendSoundEffects
<1>6. Reads(receiveVisualEffects(n[5]), appendVisualEffects(n[5]))
  BY <1>1, StructsAre, ConvertedIs, ListReads DEF receiveVisualEffects, appendVisualEffects
<1>7. receiveMessage("SNAPSHOT", n) = <<<<Host("SNAPSHOT", 1)>>>> \o receiveSnapshot(n)
  BY DEF receiveMessage
<1> QED BY <1>2, <1>3, <1>4, <1>5, <1>6, <1>7, HeadAndFive DEF receiveSnapshot, sendSnapshot

\* The map, of any size and with any number of citizens.
LEMMA MapReads ==
  ASSUME NEW n \in [1 .. 3 -> Nat]
  PROVE  Reads(receiveMessage("MAP_DATA", n), sendMap(n))
<1>1. n[1] \in Nat /\ n[2] \in Nat /\ n[3] \in Nat
  OBVIOUS
<1>2. PICK m : m = 4 * n[1] * n[2]
  OBVIOUS
<1>3. m \in Nat
  BY <1>1, <1>2
<1>4. PICK h, x, y, c, tile, read, tiles, npc, npcs :
        /\ h = Host("MAP_DATA", 1) /\ x = Net("width", 4) /\ y = Net("height", 4)
        /\ c = Net("citizens", 2)
        /\ tile = <<Net("sprite_id", 4), Host("walkable", 1), Host("region", 1)>>
        /\ read = Loop(m, <<<<Net("sprite_id", 4)>>, <<Host("walkable", 1)>>, <<Host("region", 1)>>>>)
        /\ tiles = Times(m, tile)
        /\ npc = Converted(CitizenNpcSnapshot, {"id", "x", "y"})
        /\ npcs = Loop(n[3], <<npc>>)
  OBVIOUS
<1>5. Reads(read, tiles)
  BY <1>3, <1>4, Singles, Looped
<1>6. Reads(npcs, Times(n[3], npc)) /\ Reads(<<<<c>>>>, <<c>>)
  BY <1>1, <1>4, StructsAre, ConvertedIs, OneGroup, Looped, Singles
<1>7. Reads(<<<<c>>>> \o npcs, <<c>> \o Times(n[3], npc))
  BY <1>6, Both
<1>8. Reads(<<<<h>>>> \o (<<<<x>>, <<y>>>> \o read), <<h, x, y>> \o tiles)
  BY <1>5, HeadAndTwo
<1>9. Reads((<<<<h>>>> \o (<<<<x>>, <<y>>>> \o read)) \o (<<<<c>>>> \o npcs),
            <<h, x, y>> \o tiles \o (<<c>> \o Times(n[3], npc)))
  BY <1>7, <1>8, Both
<1>10. Reads(<<<<x>>, <<y>>>> \o read, <<x, y>> \o tiles) /\ Reads(<<<<h>>>>, <<h>>)
  BY <1>5, Singles, Both
<1>11. PICK u, v, w : u = <<<<h>>>> /\ v = <<<<x>>, <<y>>>> \o read /\ w = <<<<c>>>>
  OBVIOUS
<1>12. (u \o v) \o (w \o npcs) = u \o (v \o w \o npcs)
  <2>1. (u \o v) \o (w \o npcs) = u \o (v \o (w \o npcs))
    BY <1>7, <1>10, <1>11, Regrouped, SMTT(60)
  <2>2. (v \o w) \o npcs = v \o (w \o npcs)
    BY <1>6, <1>10, <1>11, Regrouped, SMTT(60)
  <2> QED BY <2>1, <2>2
<1>13. receiveMessage("MAP_DATA", n) = <<<<h>>>> \o (<<<<x>>, <<y>>>> \o read \o <<<<c>>>> \o npcs)
  BY <1>2, <1>4 DEF receiveMessage, receiveMapData
<1>14. sendMap(n) = <<h, x, y>> \o tiles \o (<<c>> \o Times(n[3], npc))
  BY <1>2, <1>4 DEF sendMap, appendMapTiles, appendCitizens
<1> QED BY <1>9, <1>11, <1>12, <1>13, <1>14

\* The answer to a login, with a text of any length and the id after it.
LEMMA LoginReads ==
  ASSUME NEW n \in [1 .. 1 -> Nat]
  PROVE  Reads(receiveMessage("LOGIN_RESPONSE", n), sendLoginResponse(n[1]))
<1>1. PICK h, s, p, groups, text :
        /\ h = Host("LOGIN_RESPONSE", 1) /\ s = Host("success", 1) /\ p = Net("player_id", 4)
        /\ groups = recvText(n[1]) /\ text = Text(n[1])
  OBVIOUS
<1>2. Reads(groups, text)
  BY <1>1, TextReads
<1>3. Reads(<<<<h>>>> \o (<<<<s>>>> \o groups), <<h, s>> \o text)
  BY <1>2, HeadAndOne
<1>4. Reads((<<<<h>>>> \o (<<<<s>>>> \o groups)) \o <<<<p>>>>, <<h, s>> \o text \o <<p>>)
  BY <1>3, Singles, Both
<1>5. Reads(<<<<s>>>> \o groups, <<s>> \o text) /\ Reads(<<<<h>>>>, <<h>>) /\ Reads(<<<<p>>>>, <<p>>)
  BY <1>2, Singles, Both
<1>6. (<<<<h>>>> \o (<<<<s>>>> \o groups)) \o <<<<p>>>> = <<<<h>>>> \o ((<<<<s>>>> \o groups) \o <<<<p>>>>)
  BY <1>5, Regrouped
<1>7. receiveMessage("LOGIN_RESPONSE", n) = <<<<h>>>> \o (<<<<s>>>> \o groups \o <<<<p>>>>)
  BY <1>1 DEF receiveMessage, receiveLoginResponse
<1>8. sendLoginResponse(n[1]) = <<h, s>> \o text \o <<p>>
  BY <1>1 DEF sendLoginResponse, sendSimpleResponse
<1> QED BY <1>4, <1>6, <1>7, <1>8

\* The stats, which one call reads as a struct.
LEMMA StatsReads ==
  ASSUME NEW n
  PROVE  Reads(receiveMessage("PLAYER_STATS", n), sendPlayerStats)
<1>1. PICK names : names = {"hp", "max_hp", "mana", "max_mana", "safe_gold", "excess_gold",
                            "exp", "exp_next_level"}
  OBVIOUS
<1>2. PICK f : f = MsgPlayerStats
  OBVIOUS
<1>3. f \in Seq({f[i] : i \in 1 .. 10}) /\ Len(f) = 10
  BY <1>2 DEF MsgPlayerStats
<1>4. PICK s : s = sendPlayerStats
  OBVIOUS
<1>5. /\ IsSeq(s) /\ Len(s) = 10
      /\ \A i \in 1 .. 10 : s[i] = IF f[i][1] \in names THEN Net(f[i][1], f[i][2]) ELSE f[i]
  <2>1. IsSeq(f)
    BY <1>3 DEF IsSeq
  <2>2. s = Converted(f, names)
    BY <1>1, <1>2, <1>4 DEF sendPlayerStats
  <2>3. /\ IsSeq(Converted(f, names)) /\ Len(Converted(f, names)) = Len(f)
        /\ \A i \in 1 .. Len(f) :
             Converted(f, names)[i] = IF f[i][1] \in names THEN Net(f[i][1], f[i][2]) ELSE f[i]
    BY <2>1, ConvertedIs
  <2> QED BY <1>3, <2>2, <2>3
<1>5a. ASSUME NEW i \in 1 .. 10, NEW a \in names, f[i] = <<a, 4, FALSE>> PROVE s[i] = Net(a, 4)
  <2>1. f[i][1] = a /\ f[i][2] = 4
    BY <1>5a
  <2> QED BY <1>5, <1>5a, <2>1
<1>6. /\ s[1] = Host("PLAYER_STATS", 1) /\ s[2] = Net("hp", 4) /\ s[3] = Net("max_hp", 4)
      /\ s[4] = Net("mana", 4) /\ s[5] = Net("max_mana", 4)
  <2>1. /\ f[1] = <<"PLAYER_STATS", 1, FALSE>> /\ f[2] = <<"hp", 4, FALSE>>
        /\ f[3] = <<"max_hp", 4, FALSE>> /\ f[4] = <<"mana", 4, FALSE>> /\ f[5] = <<"max_mana", 4, FALSE>>
    BY <1>2 DEF MsgPlayerStats, Host
  <2>2. /\ s[1] = f[1] /\ s[2] = Net("hp", 4) /\ s[3] = Net("max_hp", 4)
        /\ s[4] = Net("mana", 4) /\ s[5] = Net("max_mana", 4)
    <3>1. "PLAYER_STATS" \notin names /\ f[1][1] = "PLAYER_STATS"
      BY <1>1, <2>1
    <3>2. s[1] = f[1]
      BY <1>5, <3>1
    <3>3. "hp" \in names /\ "max_hp" \in names /\ "mana" \in names /\ "max_mana" \in names
      BY <1>1
    <3>4. s[2] = Net("hp", 4)
      <4>1. 2 \in 1 .. 10 /\ f[2] = <<"hp", 4, FALSE>>
        BY <2>1
      <4> QED BY <1>5a, <3>3, <4>1
    <3>5. s[3] = Net("max_hp", 4)
      <4>1. 3 \in 1 .. 10 /\ f[3] = <<"max_hp", 4, FALSE>>
        BY <2>1
      <4> QED BY <1>5a, <3>3, <4>1
    <3>6. s[4] = Net("mana", 4)
      <4>1. 4 \in 1 .. 10 /\ f[4] = <<"mana", 4, FALSE>>
        BY <2>1
      <4> QED BY <1>5a, <3>3, <4>1
    <3>7. s[5] = Net("max_mana", 4)
      <4>1. 5 \in 1 .. 10 /\ f[5] = <<"max_mana", 4, FALSE>>
        BY <2>1
      <4> QED BY <1>5a, <3>3, <4>1
    <3> QED BY <3>2, <3>4, <3>5, <3>6, <3>7
  <2> QED BY <2>1, <2>2 DEF Host
<1>7. /\ s[6] = Net("safe_gold", 4) /\ s[7] = Net("excess_gold", 4) /\ s[8] = Net("exp", 4)
      /\ s[9] = Net("exp_next_level", 4) /\ s[10] = Host("level", 1)
  <2>1. /\ f[6] = <<"safe_gold", 4, FALSE>> /\ f[7] = <<"excess_gold", 4, FALSE>>
        /\ f[8] = <<"exp", 4, FALSE>> /\ f[9] = <<"exp_next_level", 4, FALSE>>
        /\ f[10] = <<"level", 1, FALSE>>
    BY <1>2 DEF MsgPlayerStats, Host
  <2>2. /\ s[6] = Net("safe_gold", 4) /\ s[7] = Net("excess_gold", 4) /\ s[8] = Net("exp", 4)
        /\ s[9] = Net("exp_next_level", 4) /\ s[10] = f[10]
    <3>1. "level" \notin names /\ f[10][1] = "level"
      BY <1>1, <2>1
    <3>2. s[10] = f[10]
      BY <1>5, <3>1
    <3>3. "safe_gold" \in names /\ "excess_gold" \in names /\ "exp" \in names /\ "exp_next_level" \in names
      BY <1>1
    <3>4. s[6] = Net("safe_gold", 4)
      <4>1. 6 \in 1 .. 10 /\ f[6] = <<"safe_gold", 4, FALSE>>
        BY <2>1
      <4> QED BY <1>5a, <3>3, <4>1
    <3>5. s[7] = Net("excess_gold", 4)
      <4>1. 7 \in 1 .. 10 /\ f[7] = <<"excess_gold", 4, FALSE>>
        BY <2>1
      <4> QED BY <1>5a, <3>3, <4>1
    <3>6. s[8] = Net("exp", 4)
      <4>1. 8 \in 1 .. 10 /\ f[8] = <<"exp", 4, FALSE>>
        BY <2>1
      <4> QED BY <1>5a, <3>3, <4>1
    <3>7. s[9] = Net("exp_next_level", 4)
      <4>1. 9 \in 1 .. 10 /\ f[9] = <<"exp_next_level", 4, FALSE>>
        BY <2>1
      <4> QED BY <1>5a, <3>3, <4>1
    <3> QED BY <3>2, <3>4, <3>5, <3>6, <3>7
  <2> QED BY <2>1, <2>2 DEF Host
<1>8. PICK g : g = [i \in 1 .. 10 |-> <<s[i]>>]
  OBVIOUS
<1>9. PICK r : r = receivePlayerStats
  OBVIOUS
<1>10. r \in Seq({r[i] : i \in 1 .. 9}) /\ Len(r) = 9
  BY <1>9 DEF receivePlayerStats
<1>11. \A i \in 1 .. 9 : r[i] = <<s[i + 1]>>
  BY <1>6, <1>7, <1>9 DEF receivePlayerStats
<1>12. PICK h : h = <<Host("PLAYER_STATS", 1)>>
  OBVIOUS
<1>13. PICK B : B = {h} \union {r[i] : i \in 1 .. 9}
  OBVIOUS
<1>14. <<h>> \in Seq(B) /\ r \in Seq(B) /\ Len(<<h>>) = 1 /\ <<h>>[1] = h
  BY <1>10, <1>13
<1>15. PICK all : all = <<h>> \o r
  OBVIOUS
<1>16. all \in Seq(B) /\ Len(all) = 10 /\ \A i \in 1 .. 10 : all[i] = IF i <= 1 THEN <<h>>[i] ELSE r[i - 1]
  <2>1. PICK t : t = <<h>>
    OBVIOUS
  <2>2. /\ t \o r \in Seq(B) /\ Len(t \o r) = Len(t) + Len(r)
        /\ \A i \in 1 .. Len(t) + Len(r) : (t \o r)[i] = IF i <= Len(t) THEN t[i] ELSE r[i - Len(t)]
    BY <1>14, <2>1, ConcatProperties
  <2>3. Len(t) = 1 /\ Len(r) = 9 /\ Len(t) + Len(r) = 10
    BY <1>10, <1>14, <2>1
  <2> QED BY <1>15, <2>1, <2>2, <2>3
<1>17. ASSUME NEW i \in 1 .. 10 PROVE all[i] = <<s[i]>>
  <2>1. CASE i = 1
    BY <1>6, <1>12, <1>14, <1>16, <2>1
  <2>2. CASE i # 1
    <3>1. i - 1 \in 1 .. 9 /\ (i - 1) + 1 = i /\ ~(i <= 1)
      BY <2>2
    <3> QED BY <1>11, <1>16, <3>1
  <2> QED BY <2>1, <2>2
<1>18. all = g
  <2>1. all \in [1 .. 10 -> B]
    BY <1>16, LenProperties
  <2> QED BY <1>8, <1>17, <2>1
<1>19. receiveMessage("PLAYER_STATS", n) = all
  BY <1>9, <1>12, <1>15 DEF receiveMessage
<1>20. PICK F : s \in Seq(F)
  BY <1>5 DEF IsSeq
<1>21. g \in Seq(Seq(F)) /\ FlattenSeq(g) = s
  BY <1>5, <1>8, <1>20, FlattenSingles
<1> QED BY <1>4, <1>18, <1>19, <1>20, <1>21 DEF Reads

\* Whatever the server writes, with lists and texts of any length, the client reads
\* field by field in the order, the widths and the byte order it was written in.
THEOREM ToClientIsRead ==
  ASSUME NEW opcode \in ToClient, NEW n \in AnyShape(opcode)
  PROVE  Reads(receiveMessage(opcode, n), ServerWrites(opcode, n))
<1>1. CASE opcode = "SNAPSHOT"
  BY <1>1, SnapshotReads DEF AnyShape, ServerWrites
<1>2. CASE opcode = "MAP_DATA"
  <2>1. n \in [1 .. 3 -> Nat] /\ ServerWrites(opcode, n) = sendMap(n)
    BY <1>2 DEF AnyShape, ServerWrites
  <2> QED BY <1>2, <2>1, MapReads
<1>3. CASE opcode \notin {"SNAPSHOT", "MAP_DATA"}
  <2>1. n \in [1 .. 1 -> Nat] /\ n[1] \in Nat
    BY <1>3 DEF AnyShape
  <2>2. PICK h : h = Host(opcode, 1)
    OBVIOUS
  <2>3. CASE opcode = "LOGIN_RESPONSE"
    BY <2>1, <2>3, LoginReads DEF ServerWrites
  <2>4. CASE opcode = "PLAYER_STATS"
    BY <2>4, StatsReads DEF ServerWrites
  <2>5. CASE opcode = "CHANGE_MAP"
    <3>1. PICK x : x = Net("map_id", 2)
      OBVIOUS
    <3>2. receiveMessage(opcode, n) = <<<<h>>>> \o <<<<x>>>>
      BY <2>2, <2>5, <3>1 DEF receiveMessage
    <3>3. ServerWrites(opcode, n) = <<h, x>>
      BY <2>2, <2>5, <3>1 DEF ServerWrites, sendChangeMap
    <3>4. <<<<h>>>> \o <<<<x>>>> = <<<<h>>, <<x>>>>
      BY Short
    <3> QED BY <3>2, <3>3, <3>4, Singles
  <2>6. CASE opcode \in {"CHAT_MSG", "ACTION_ERROR"}
    <3>1. receiveMessage(opcode, n) = <<<<h>>>> \o recvText(n[1])
      BY <2>2, <2>6 DEF receiveMessage
    <3>2. ServerWrites(opcode, n) = <<h>> \o Text(n[1])
      BY <2>2, <2>6 DEF ServerWrites, makeTextResponse
    <3> QED BY <2>1, <3>1, <3>2, Singles, TextReads, Both
  <2>7. CASE opcode \in {"INVENTORY_UPDATE", "EQUIPMENT_UPDATE"}
    <3>1. PICK x, slot : x = Net("slots", 2) /\ slot = Converted(MsgSlot, {"quantity"})
      OBVIOUS
    <3>2. receiveMessage(opcode, n) = <<<<h>>>> \o (<<<<x>>>> \o Loop(n[1], <<slot>>))
      BY <2>2, <2>7, <3>1 DEF receiveMessage, receiveSlots
    <3>3. ServerWrites(opcode, n) = <<h, x>> \o Times(n[1], slot)
      BY <2>2, <2>7, <3>1 DEF ServerWrites, makeSlotsUpdate
    <3>4. IsSeq(slot)
      BY <3>1, StructsAre, ConvertedIs
    <3>5. Reads(Loop(n[1], <<slot>>), Times(n[1], slot))
      BY <2>1, <3>4, OneGroup, Looped
    <3> QED BY <3>2, <3>3, <3>5, HeadAndOne
  <2>8. CASE opcode = "TRADER_CATALOG"
    <3>1. PICK x, a, b, c : /\ x = Net("total", 2) /\ a = Host("type", 1)
                            /\ b = Net("purchase_price", 4) /\ c = Net("selling_price", 4)
      OBVIOUS
    <3>2. receiveMessage(opcode, n) = <<<<h>>>> \o (<<<<x>>>> \o Loop(n[1], <<<<a>>, <<b>>, <<c>>>>))
      BY <2>2, <2>8, <3>1 DEF receiveMessage, receiveTraderCatalog
    <3>3. ServerWrites(opcode, n) = <<h, x>> \o Times(n[1], <<a, b, c>>)
      BY <2>2, <2>8, <3>1 DEF ServerWrites, sendTraderCatalog
    <3>4. Reads(Loop(n[1], <<<<a>>, <<b>>, <<c>>>>), Times(n[1], <<a, b, c>>))
      BY <2>1, Singles, Looped
    <3> QED BY <3>2, <3>3, <3>4, HeadAndOne
  <2>9. CASE opcode = "BANK_CONTENT"
    <3>1. PICK x, y, a, b : /\ x = Net("gold", 4) /\ y = Net("total", 2) /\ a = Host("type", 1)
                            /\ b = Net("amount", 4)
      OBVIOUS
    <3>2. receiveMessage(opcode, n) = <<<<h>>>> \o (<<<<x>>, <<y>>>> \o Loop(n[1], <<<<a>>, <<b>>>>))
      BY <2>2, <2>9, <3>1 DEF receiveMessage, receiveBankContent
    <3>3. ServerWrites(opcode, n) = <<h, x, y>> \o Times(n[1], <<a, b>>)
      BY <2>2, <2>9, <3>1 DEF ServerWrites, sendBankContent
    <3>4. Reads(Loop(n[1], <<<<a>>, <<b>>>>), Times(n[1], <<a, b>>))
      BY <2>1, Singles, Looped
    <3> QED BY <3>2, <3>3, <3>4, HeadAndTwo
  <2> QED BY <1>3, <2>3, <2>4, <2>5, <2>6, <2>7, <2>8, <2>9 DEF ToClient
<1> QED BY <1>1, <1>2, <1>3

\* One field, converted or not.
OneConverted(f, names) == IF f[1] \in names THEN Net(f[1], f[2]) ELSE f

\* Converting two or three fields converts each of them.
LEMMA ConvertedShort ==
  ASSUME NEW names
  PROVE  /\ \A a, b : Converted(<<a, b>>, names) = <<OneConverted(a, names), OneConverted(b, names)>>
         /\ \A a, b, c : Converted(<<a, b, c>>, names)
                           = <<OneConverted(a, names), OneConverted(b, names), OneConverted(c, names)>>
<1>1. ASSUME NEW s, NEW t, IsSeq(s), IsSeq(t), Len(s) = Len(t),
             \A i \in 1 .. Len(s) : t[i] = OneConverted(s[i], names)
      PROVE  Converted(s, names) = t
  <2>1. PICK c : c = Converted(s, names)
    OBVIOUS
  <2>2. IsSeq(c) /\ Len(c) = Len(t) /\ \A i \in 1 .. Len(c) : c[i] = OneConverted(s[i], names)
    BY <1>1, <2>1, ConvertedIs DEF OneConverted
  <2>3. PICK F, G : c \in Seq(F) /\ t \in Seq(G)
    BY <1>1, <2>2 DEF IsSeq
  <2>4. c \in Seq(F \union G) /\ t \in Seq(F \union G)
    BY <2>3, SeqMonotonic
  <2>5. \A i \in 1 .. Len(c) : c[i] = t[i]
    BY <1>1, <2>2
  <2> QED BY <2>1, <2>2, <2>4, <2>5, SeqEqual
<1>2. ASSUME NEW a, NEW b
      PROVE  Converted(<<a, b>>, names) = <<OneConverted(a, names), OneConverted(b, names)>>
  <2>1. PICK x, y : x = OneConverted(a, names) /\ y = OneConverted(b, names)
    OBVIOUS
  <2>2. PICK s, t : s = <<a, b>> /\ t = <<x, y>>
    OBVIOUS
  <2>3. IsSeq(s) /\ IsSeq(t)
    BY <2>2, TuplesAre
  <2>4. Len(s) = 2 /\ Len(t) = 2 /\ s[1] = a /\ s[2] = b /\ t[1] = x /\ t[2] = y
    BY <2>2
  <2>5. \A i \in 1 .. Len(s) : t[i] = OneConverted(s[i], names)
    BY <2>1, <2>4
  <2> QED BY <1>1, <2>1, <2>2, <2>3, <2>4, <2>5
<1>3. ASSUME NEW a, NEW b, NEW c
      PROVE  Converted(<<a, b, c>>, names)
               = <<OneConverted(a, names), OneConverted(b, names), OneConverted(c, names)>>
  <2>1. PICK x, y, z : /\ x = OneConverted(a, names) /\ y = OneConverted(b, names)
                       /\ z = OneConverted(c, names)
    OBVIOUS
  <2>2. PICK s, t : s = <<a, b, c>> /\ t = <<x, y, z>>
    OBVIOUS
  <2>3. IsSeq(s) /\ IsSeq(t)
    BY <2>2, TuplesAre
  <2>4. /\ Len(s) = 3 /\ Len(t) = 3 /\ s[1] = a /\ s[2] = b /\ s[3] = c
        /\ t[1] = x /\ t[2] = y /\ t[3] = z
    BY <2>2
  <2>5. \A i \in 1 .. Len(s) : t[i] = OneConverted(s[i], names)
    BY <2>1, <2>4
  <2> QED BY <1>1, <2>1, <2>2, <2>3, <2>4, <2>5
<1> QED BY <1>2, <1>3

\* What is read field by field is in step.
LEMMA ReadsInStep ==
  ASSUME NEW groups, NEW written, Reads(groups, written)
  PROVE  InStep(groups, written)
<1>1. FlattenSeq(groups) = written
  BY DEF Reads
<1> QED BY <1>1 DEF InStep

\* Two, three or four fields of which the first is the opcode.
LEMMA CommandReads ==
  /\ \A h : Reads(<<<<h>>>> \o <<>>, <<h>>)
  /\ \A h, x : Reads(<<<<h>>>> \o <<<<x>>>>, <<h, x>>)
  /\ \A h, x, y : Reads(<<<<h>>>> \o <<<<x>>, <<y>>>>, <<h, x, y>>)
  /\ \A h, x, y, z : Reads(<<<<h>>>> \o <<<<x>>, <<y>>, <<z>>>>, <<h>> \o <<x, y, z>>)
<1>1. ASSUME NEW h PROVE Reads(<<<<h>>>> \o <<>>, <<h>>)
  <2>1. <<<<h>>>> \in Seq({<<h>>})
    OBVIOUS
  <2>2. <<<<h>>>> \o <<>> = <<<<h>>>>
    BY <2>1, ConcatEmptySeq
  <2> QED BY <2>2, Singles
<1>2. ASSUME NEW h, NEW x PROVE Reads(<<<<h>>>> \o <<<<x>>>>, <<h, x>>)
  <2>1. <<<<h>>>> \o <<<<x>>>> = <<<<h>>, <<x>>>>
    BY Short
  <2> QED BY <2>1, Singles
<1>3. ASSUME NEW h, NEW x, NEW y PROVE Reads(<<<<h>>>> \o <<<<x>>, <<y>>>>, <<h, x, y>>)
  <2>1. <<<<h>>>> \o <<<<x>>, <<y>>>> = <<<<h>>, <<x>>, <<y>>>>
    BY Short
  <2> QED BY <2>1, Singles
<1>4. \A h, x, y, z : Reads(<<<<h>>>> \o <<<<x>>, <<y>>, <<z>>>>, <<h>> \o <<x, y, z>>)
  BY Singles, Both
<1> QED BY <1>1, <1>2, <1>3, <1>4

\* A trade, of which the reader does not use the quantity.
LEMMA TradeReads ==
  ASSUME NEW opcode \in {"BUY_ITEM", "SELL_ITEM"}, NEW n
  PROVE  InStep(readCommand(opcode, n), ClientWrites(opcode, n))
<1>1. PICK h, x, y, u, z : /\ h = Host(opcode, 1) /\ x = Net("npc_id", 4) /\ y = Host("item_id", 1)
                           /\ u = Unused(2) /\ z = Net("quantity", 2)
  OBVIOUS
<1>2. readCommand(opcode, n) = <<<<h>>>> \o <<<<x>>, <<y>>, <<u>>>>
  BY <1>1 DEF readCommand, pushTradeCommand
<1>3. PICK r : r = <<h>> \o <<x, y, u>>
  OBVIOUS
<1>4. FlattenSeq(readCommand(opcode, n)) = r
  <2>1. Reads(<<<<h>>>> \o <<<<x>>, <<y>>, <<u>>>>, <<h>> \o <<x, y, u>>)
    BY CommandReads
  <2> QED BY <1>2, <1>3, <2>1 DEF Reads
<1>5. PICK B : B = {h, x, y, u}
  OBVIOUS
<1>6. <<h>> \in Seq(B) /\ Len(<<h>>) = 1 /\ <<h>>[1] = h
  BY <1>5
<1>7. <<x, y, u>> \in Seq(B) /\ Len(<<x, y, u>>) = 3
  BY <1>5
<1>8. r \in Seq(B) /\ Len(r) = 4 /\ r[1] = h /\ r[2] = x /\ r[3] = y /\ r[4] = u
  <2>1. PICK s, t : s = <<h>> /\ t = <<x, y, u>>
    OBVIOUS
  <2>2. /\ s \o t \in Seq(B) /\ Len(s \o t) = Len(s) + Len(t)
        /\ \A i \in 1 .. Len(s) + Len(t) : (s \o t)[i] = IF i <= Len(s) THEN s[i] ELSE t[i - Len(s)]
    BY <1>6, <1>7, <2>1, ConcatProperties
  <2>3. Len(s) = 1 /\ Len(t) = 3 /\ s[1] = h /\ t[1] = x /\ t[2] = y /\ t[3] = u
    BY <1>6, <1>7, <2>1
  <2>4. (s \o t)[1] = h /\ (s \o t)[2] = x /\ (s \o t)[3] = y /\ (s \o t)[4] = u
    BY <2>2, <2>3
  <2> QED BY <1>3, <2>1, <2>2, <2>3, <2>4
<1>9. PICK w : w = ClientWrites(opcode, n)
  OBVIOUS
<1>10. PICK m : m = <<h, Host("npc_id", 4), y, Host("quantity", 2)>>
  OBVIOUS
<1>11. w = Converted(m, {"npc_id", "quantity"})
  BY <1>1, <1>9, <1>10 DEF ClientWrites, MsgTrade
<1>12. IsSeq(m) /\ Len(m) = 4
  <2>1. Len(m) = 4
    BY <1>10
  <2> QED BY <1>10, <2>1, TuplesAre
<1>13. Len(w) = 4 /\ \A i \in 1 .. 4 : w[i] = IF m[i][1] \in {"npc_id", "quantity"} THEN Net(m[i][1], m[i][2])
                                              ELSE m[i]
  BY <1>11, <1>12, ConvertedIs
<1>14. w[1] = h /\ w[2] = x /\ w[3] = y /\ w[4] = z
  <2>1. /\ m[1] = h /\ m[2] = <<"npc_id", 4, FALSE>> /\ m[3] = y /\ m[4] = <<"quantity", 2, FALSE>>
    BY <1>10 DEF Host
  <2>2. h[1] = opcode /\ y[1] = "item_id"
    BY <1>1 DEF Host
  <2>3. w[1] = h
    <3>1. m[1][1] \notin {"npc_id", "quantity"}
      BY <2>1, <2>2
    <3> QED BY <1>13, <2>1, <3>1
  <2>4. w[2] = x
    <3>1. m[2][1] = "npc_id" /\ m[2][2] = 4 /\ 2 \in 1 .. 4
      BY <2>1
    <3> QED BY <1>1, <1>13, <3>1
  <2>5. w[3] = y
    <3>1. m[3][1] \notin {"npc_id", "quantity"} /\ 3 \in 1 .. 4
      BY <2>1, <2>2
    <3> QED BY <1>13, <2>1, <3>1
  <2>6. w[4] = z
    <3>1. m[4][1] = "quantity" /\ m[4][2] = 2 /\ 4 \in 1 .. 4
      BY <2>1
    <3> QED BY <1>1, <1>13, <3>1
  <2> QED BY <2>3, <2>4, <2>5, <2>6
<1>15. u[1] = "unused" /\ u[2] = 2 /\ z[2] = 2
  BY <1>1 DEF Unused, Net
<1>16. ASSUME NEW i \in 1 .. 4
       PROVE  IF r[i][1] = "unused" THEN r[i][2] = w[i][2] ELSE r[i] = w[i]
  <2>1. h[1] # "unused" /\ x[1] # "unused" /\ y[1] # "unused"
    BY <1>1 DEF Host, Net
  <2>2. CASE i = 4
    BY <1>8, <1>14, <1>15, <2>2
  <2>3. CASE i # 4
    <3>1. i = 1 \/ i = 2 \/ i = 3
      BY <2>3
    <3>2. r[i] = w[i]
      BY <1>8, <1>14, <3>1
    <3>3. r[i][1] # "unused"
      BY <1>8, <2>1, <3>1
    <3> QED BY <3>2, <3>3
  <2> QED BY <2>2, <2>3
<1>17. DOMAIN r = 1 .. 4
  BY <1>8, LenProperties
<1> QED BY <1>4, <1>8, <1>9, <1>13, <1>16, <1>17 DEF InStep

\* A signup, the longest of the requests.
LEMMA SignupReads ==
  ASSUME NEW n
  PROVE  Reads(readCommand("SIGNUP", n), ClientWrites("SIGNUP", n))
<1>1. PICK h, u, p, r, c : /\ h = Host("SIGNUP", 1) /\ u = Host("user", 30) /\ p = Host("password", 30)
                           /\ r = Host("race", 1) /\ c = Host("clase", 1)
  OBVIOUS
<1>2. PICK x, y : x = Host("head", 2) /\ y = Host("body", 2)
  OBVIOUS
<1>3. PICK nx, ny : nx = Net("head", 2) /\ ny = Net("body", 2)
  OBVIOUS
<1>4. PICK s, t : s = <<h, u, p>> /\ t = <<x, y, r, c>>
  OBVIOUS
<1>5. PICK m : m = s \o t
  OBVIOUS
<1>6. IsSeq(m) /\ Len(m) = 7 /\ \A i \in 1 .. 7 : m[i] = IF i <= 3 THEN s[i] ELSE t[i - 3]
  <2>1. PICK B : B = {h, u, p, x, y, r, c}
    OBVIOUS
  <2>2. s \in Seq(B) /\ Len(s) = 3
    BY <1>4, <2>1
  <2>3. t \in Seq(B) /\ Len(t) = 4
    BY <1>4, <2>1
  <2>4. /\ s \o t \in Seq(B) /\ Len(s \o t) = Len(s) + Len(t)
        /\ \A i \in 1 .. Len(s) + Len(t) : (s \o t)[i] = IF i <= Len(s) THEN s[i] ELSE t[i - Len(s)]
    BY <2>2, <2>3, ConcatProperties
  <2>5. Len(s) + Len(t) = 7
    BY <2>2, <2>3
  <2> QED BY <1>5, <2>2, <2>4, <2>5 DEF IsSeq
<1>7. m[1] = h /\ m[2] = u /\ m[3] = p /\ m[4] = x /\ m[5] = y /\ m[6] = r /\ m[7] = c
  <2>1. s[1] = h /\ s[2] = u /\ s[3] = p
    BY <1>4
  <2>2. t[1] = x /\ t[2] = y /\ t[3] = r /\ t[4] = c
    BY <1>4
  <2> QED BY <1>6, <2>1, <2>2
<1>8. PICK w : w = ClientWrites("SIGNUP", n)
  OBVIOUS
<1>9. w = Converted(m, {"head", "body"})
  BY <1>1, <1>2, <1>4, <1>5, <1>8 DEF ClientWrites, MsgSignup, CharacterTraits
<1>10. /\ IsSeq(w) /\ Len(w) = 7
       /\ \A i \in 1 .. 7 : w[i] = IF m[i][1] \in {"head", "body"} THEN Net(m[i][1], m[i][2]) ELSE m[i]
  BY <1>6, <1>9, ConvertedIs, SMTT(60)
<1>11. w[1] = h /\ w[2] = u /\ w[3] = p /\ w[4] = nx /\ w[5] = ny /\ w[6] = r /\ w[7] = c
  <2>1. /\ h[1] = "SIGNUP" /\ u[1] = "user" /\ p[1] = "password" /\ r[1] = "race" /\ c[1] = "clase"
        /\ x[1] = "head" /\ x[2] = 2 /\ y[1] = "body" /\ y[2] = 2
    BY <1>1, <1>2 DEF Host
  <2>2. w[1] = h
    BY <1>7, <1>10, <2>1
  <2>3. w[2] = u
    BY <1>7, <1>10, <2>1
  <2>4. w[3] = p
    BY <1>7, <1>10, <2>1
  <2>5. w[4] = nx
    BY <1>3, <1>7, <1>10, <2>1
  <2>6. w[5] = ny
    BY <1>3, <1>7, <1>10, <2>1
  <2>7. w[6] = r
    BY <1>7, <1>10, <2>1
  <2>8. w[7] = c
    BY <1>7, <1>10, <2>1
  <2> QED BY <2>2, <2>3, <2>4, <2>5, <2>6, <2>7, <2>8
<1>12. PICK read : read = <<<<u>>, <<p>>, <<nx>>, <<ny>>, <<r>>, <<c>>>>
  OBVIOUS
<1>13. /\ read[1] = <<u>> /\ read[2] = <<p>> /\ read[3] = <<nx>> /\ read[4] = <<ny>>
       /\ read[5] = <<r>> /\ read[6] = <<c>>
  BY <1>12
<1>14. PICK one : one = <<<<h>>>>
  OBVIOUS
<1>15. PICK all : all = one \o read
  OBVIOUS
<1>16. PICK B : /\ all \in Seq(B) /\ Len(all) = 7
                /\ \A i \in 1 .. 7 : all[i] = IF i <= 1 THEN one[i] ELSE read[i - 1]
  <2>1. PICK B : B = {<<h>>, <<u>>, <<p>>, <<nx>>, <<ny>>, <<r>>, <<c>>}
    OBVIOUS
  <2>2. one \in Seq(B) /\ Len(one) = 1
    BY <1>14, <2>1
  <2>3. read \in Seq(B) /\ Len(read) = 6
    BY <1>12, <2>1
  <2>4. /\ one \o read \in Seq(B) /\ Len(one \o read) = Len(one) + Len(read)
        /\ \A i \in 1 .. Len(one) + Len(read) :
             (one \o read)[i] = IF i <= Len(one) THEN one[i] ELSE read[i - Len(one)]
    BY <2>2, <2>3, ConcatProperties
  <2>5. Len(one) + Len(read) = 7
    BY <2>2, <2>3
  <2> QED BY <1>15, <2>2, <2>4, <2>5
<1>17. ASSUME NEW i \in 1 .. 7 PROVE all[i] = <<w[i]>>
  <2>1. CASE i = 1
    BY <1>11, <1>14, <1>16, <2>1
  <2>2. CASE i # 1
    <3>1. i = 2 \/ i = 3 \/ i = 4 \/ i = 5 \/ i = 6 \/ i = 7
      BY <2>2
    <3> QED BY <1>11, <1>13, <1>16, <3>1
  <2> QED BY <2>1, <2>2
<1>18. all = [i \in 1 .. 7 |-> <<w[i]>>]
  <2>1. all \in [1 .. 7 -> B]
    BY <1>16, LenProperties
  <2> QED BY <1>17, <2>1
<1>19. readCommand("SIGNUP", n) = all
  BY <1>1, <1>3, <1>12, <1>14, <1>15 DEF readCommand
<1>20. PICK F : w \in Seq(F)
  BY <1>10 DEF IsSeq
<1>21. all \in Seq(Seq(F)) /\ FlattenSeq(all) = w
  BY <1>10, <1>18, <1>20, FlattenSingles
<1> QED BY <1>8, <1>19, <1>20, <1>21 DEF Reads

\* Whatever the client writes, the server reads in step; of a trade it does not use
\* the quantity.
THEOREM ToServerIsRead ==
  ASSUME NEW opcode \in ToServer, NEW n \in AnyShape(opcode)
  PROVE  InStep(readCommand(opcode, n), ClientWrites(opcode, n))
<1>1. PICK h : h = Host(opcode, 1)
  OBVIOUS
<1>2. n[1] \in Nat
  BY DEF AnyShape, ToServer
<1>3. CASE opcode = "LOGIN"
  <2>1. PICK x, y : x = Host("name", 30) /\ y = Host("pass", 30)
    OBVIOUS
  <2>2. readCommand(opcode, n) = <<<<h>>>> \o <<<<x>>, <<y>>>>
    BY <1>1, <1>3, <2>1 DEF readCommand
  <2>3. ClientWrites(opcode, n) = <<h, x, y>>
    BY <1>1, <1>3, <2>1 DEF ClientWrites, MsgLogin
  <2> QED BY <2>2, <2>3, CommandReads, ReadsInStep
<1>4. CASE opcode = "SIGNUP"
  BY <1>4, SignupReads, ReadsInStep
<1>5. CASE opcode = "MOVE"
  <2>1. PICK x : x = Host("direction", 1)
    OBVIOUS
  <2>2. readCommand(opcode, n) = <<<<h>>>> \o <<<<x>>>>
    BY <1>1, <1>5, <2>1 DEF readCommand
  <2>3. ClientWrites(opcode, n) = <<h, x>>
    BY <1>1, <1>5, <2>1 DEF ClientWrites, MsgMove
  <2> QED BY <2>2, <2>3, CommandReads, ReadsInStep
<1>6. ASSUME NEW name, opcode \in {"ATTACK", "USE_ITEM", "DROP_ITEM"}, name \in {"target_id", "instance_id"},
             readCommand(opcode, n) = <<<<h>>>> \o <<<<Net(name, 4)>>>>,
             ClientWrites(opcode, n) = Converted(<<h, Host(name, 4)>>, {name})
      PROVE  InStep(readCommand(opcode, n), ClientWrites(opcode, n))
  <2>1. PICK x : x = Host(name, 4)
    OBVIOUS
  <2>2. Converted(<<h, x>>, {name}) = <<OneConverted(h, {name}), OneConverted(x, {name})>>
    BY ConvertedShort
  <2>3. OneConverted(h, {name}) = h /\ OneConverted(x, {name}) = Net(name, 4)
    BY <1>1, <1>6, <2>1 DEF OneConverted, Host, Net
  <2> QED BY <1>6, <2>1, <2>2, <2>3, CommandReads, ReadsInStep
<1>7. CASE opcode = "ATTACK"
  <2>1. readCommand(opcode, n) = <<<<h>>>> \o <<<<Net("target_id", 4)>>>>
    BY <1>1, <1>7 DEF readCommand
  <2>2. ClientWrites(opcode, n) = Converted(<<h, Host("target_id", 4)>>, {"target_id"})
    BY <1>1, <1>7 DEF ClientWrites, MsgAttack
  <2> QED BY <1>6, <1>7, <2>1, <2>2
<1>8. CASE opcode \in {"USE_ITEM", "DROP_ITEM"}
  <2>1. readCommand(opcode, n) = <<<<h>>>> \o <<<<Net("instance_id", 4)>>>>
    BY <1>1, <1>8 DEF readCommand
  <2>2. ClientWrites(opcode, n) = Converted(<<h, Host("instance_id", 4)>>, {"instance_id"})
    BY <1>1, <1>8 DEF ClientWrites, MsgSlotItem
  <2> QED BY <1>6, <1>8, <2>1, <2>2
<1>9. CASE opcode \in {"CHAT", "COMMAND"}
  <2>1. readCommand(opcode, n) = <<<<h>>>> \o recvText(n[1])
    BY <1>1, <1>9 DEF readCommand
  <2>2. ClientWrites(opcode, n) = <<h>> \o Text(n[1])
    BY <1>1, <1>9 DEF ClientWrites, makeTextMessage
  <2> QED BY <1>2, <2>1, <2>2, Singles, TextReads, Both, ReadsInStep
<1>10. CASE opcode = "INTERACT"
  <2>1. PICK x, y, z : x = Host("npc_id", 4) /\ y = Host("action", 1) /\ z = Net("npc_id", 4)
    OBVIOUS
  <2>2. readCommand(opcode, n) = <<<<h>>>> \o <<<<z>>, <<y>>>>
    BY <1>1, <1>10, <2>1 DEF readCommand
  <2>3. ClientWrites(opcode, n) = Converted(<<h, x, y>>, {"npc_id"})
    BY <1>1, <1>10, <2>1 DEF ClientWrites, MsgInteract
  <2>4. OneConverted(h, {"npc_id"}) = h /\ OneConverted(x, {"npc_id"}) = z /\ OneConverted(y, {"npc_id"}) = y
    BY <1>1, <1>10, <2>1 DEF OneConverted, Host, Net
  <2>5. Converted(<<h, x, y>>, {"npc_id"}) = <<h, z, y>>
    BY <2>4, ConvertedShort
  <2> QED BY <2>2, <2>3, <2>5, CommandReads, ReadsInStep
<1>11. CASE opcode \in {"TAKE_ITEM", "DISCONNECT", "RESURRECT"}
  <2>1. readCommand(opcode, n) = <<<<h>>>> \o <<>>
    BY <1>1, <1>11 DEF readCommand
  <2>2. ClientWrites(opcode, n) = <<h>>
    BY <1>1, <1>11 DEF ClientWrites
  <2> QED BY <2>1, <2>2, CommandReads, ReadsInStep
<1>12. CASE opcode \in {"BUY_ITEM", "SELL_ITEM"}
  BY <1>12, TradeReads
<1>13. CASE opcode \in {"DEPOSIT_ITEM", "WITHDRAW_ITEM"}
  <2>1. PICK x, y : x = Net("npc_id", 4) /\ y = Net("item_id", 2)
    OBVIOUS
  <2>2. readCommand(opcode, n) = <<<<h>>>> \o <<<<x>>, <<y>>>>
    BY <1>1, <1>13, <2>1 DEF readCommand, pushItemBankCommand
  <2>3. ClientWrites(opcode, n) = <<h, x, y>>
    BY <1>1, <1>13, <2>1 DEF ClientWrites, makeNpcItemMessage
  <2> QED BY <2>2, <2>3, CommandReads, ReadsInStep
<1>14. CASE opcode \in {"DEPOSIT_GOLD", "WITHDRAW_GOLD"}
  <2>1. PICK x, y : x = Net("npc_id", 4) /\ y = Net("amount", 4)
    OBVIOUS
  <2>2. readCommand(opcode, n) = <<<<h>>>> \o <<<<x>>, <<y>>>>
    BY <1>1, <1>14, <2>1 DEF readCommand, pushGoldBankCommand
  <2>3. ClientWrites(opcode, n) = <<h, x, y>>
    BY <1>1, <1>14, <2>1 DEF ClientWrites, makeNpcAmountMessage
  <2> QED BY <2>2, <2>3, CommandReads, ReadsInStep
<1>15. CASE opcode \in {"LIST_ITEMS", "EQUIP_ITEM", "UNEQUIP_ITEM"}
  <2>1. PICK x : x = Net("id", 4)
    OBVIOUS
  <2>2. readCommand(opcode, n) = <<<<h>>>> \o <<<<x>>>>
    BY <1>1, <1>15, <2>1 DEF readCommand
  <2>3. ClientWrites(opcode, n) = <<h, x>>
    BY <1>1, <1>15, <2>1 DEF ClientWrites, makeIdMessage
  <2> QED BY <2>2, <2>3, CommandReads, ReadsInStep
<1> QED BY <1>3, <1>4, <1>5, <1>7, <1>8, <1>9, <1>10, <1>11, <1>12, <1>13, <1>14, <1>15 DEF ToServer

\* So no message of either side is misread.
THEOREM AllIsReadInStep == ReadInStep = ToClient \union ToServer
<1>1. ASSUME NEW o \in ToClient \union ToServer PROVE Shapes(o) \subseteq AnyShape(o)
  <2>1. CASE o = "SNAPSHOT"
    <3>1. <<2, 2, 2, 2, 2>> \in [1 .. 5 -> Nat]
      OBVIOUS
    <3>2. [1 .. 5 -> 0 .. 1] \subseteq [1 .. 5 -> Nat]
      OBVIOUS
    <3> QED BY <2>1, <3>1, <3>2 DEF Shapes, AnyShape
  <2>2. CASE o = "MAP_DATA"
    <3>1. <<1, 1, 0>> \in [1 .. 3 -> Nat] /\ <<2, 1, 0>> \in [1 .. 3 -> Nat] /\ <<1, 2, 2>> \in [1 .. 3 -> Nat]
      OBVIOUS
    <3> QED BY <2>2, <3>1 DEF Shapes, AnyShape
  <2>3. CASE o \notin {"SNAPSHOT", "MAP_DATA"}
    <3>1. \A k \in 0 .. 2 : <<k>> \in [1 .. 1 -> Nat]
      OBVIOUS
    <3>2. AnyShape(o) = [1 .. 1 -> Nat] /\ Shapes(o) = {<<k>> : k \in 0 .. 2}
      BY <2>3 DEF Shapes, AnyShape
    <3> QED BY <3>1, <3>2
  <2> QED BY <2>1, <2>2, <2>3
<1>2. ASSUME NEW o \in ToClient, NEW n \in Shapes(o)
      PROVE  InStep(receiveMessage(o, n), ServerWrites(o, n))
  BY <1>1, ToClientIsRead, ReadsInStep
<1>3. ASSUME NEW o \in ToServer, NEW n \in Shapes(o)
      PROVE  InStep(readCommand(o, n), ClientWrites(o, n))
  BY <1>1, ToServerIsRead
<1> QED BY <1>2, <1>3 DEF ReadInStep

-----------------------------------------------------------------------------
(***************************************************************************)
(* Who is where.                                                           *)
(***************************************************************************)

MenuPlaces == {"menu", "asking", "accepted", "refused"}

GamePlaces ==
  {"login", "waiting", "starting", "loop", "events", "input", "closing", "closing_queues",
   "joining", "ended", "failed", "aborted"}

Opcodes == ToClient \union {"SIGNUP_RESPONSE"}

Args == {0, 1} \union DOMAIN Snapshots \union DOMAIN Slots \union Texts \union Spoken

Messages == [op : Opcodes, arg : Args, cut : BOOLEAN]

\* A cut message is the last of a connection that is gone.
CutIsLast ==
  \A i \in 1 .. Len(to_client) : to_client[i].cut => i = Len(to_client) /\ conn # "open"

Control ==
  /\ mode \in {"GAME", "LOGIN", "SIGNUP"}
  /\ mode = "GAME" => main \in GamePlaces
  /\ mode # "GAME" => main \in MenuPlaces /\ receiver = "new" /\ sender = "new"
  /\ conn \in {"open", "fin", "reset", "closed"} /\ err \in {"none", "reset", "pipe"}
  /\ main \in {"failed", "aborted"} => conn = "reset"
  /\ DOMAIN server = {"answer", "snapshot", "inventory", "equipment", "text"}
  /\ to_client \in Seq(Messages)
  /\ CutIsLast

\* What is written to a client.
LEMMA MessageIs ==
  ASSUME NEW opcode \in Opcodes, NEW field \in Args
  PROVE  /\ Message(opcode, field) \in Messages /\ Message(opcode, field).op = opcode
         /\ Message(opcode, field).arg = field /\ Message(opcode, field).cut = FALSE
BY DEF Message, Messages

\* The answers are messages, none of them cut, and say what was decided.
LEMMA AnswersAre ==
  ASSUME NEW ok \in BOOLEAN, NEW ms,
         ms = processHandleLogin(ok) \/ ms = processHandleSignup(ok)
  PROVE  /\ ms \in Seq(Messages) /\ ms # <<>> /\ \A i \in 1 .. Len(ms) : ms[i].cut = FALSE
         /\ Head(ms).arg = 0 => ~ok
<1>1. /\ {0, 1} \subseteq Args
      /\ {"LOGIN_RESPONSE", "MAP_DATA", "INVENTORY_UPDATE", "EQUIPMENT_UPDATE", "SIGNUP_RESPONSE"}
           \subseteq Opcodes
  BY DEF Args, Opcodes, ToClient
<1>2. ASSUME NEW opcode \in Opcodes, NEW field \in {0, 1}
      PROVE  LET m == Message(opcode, field)
             IN  m \in Messages /\ m.op = opcode /\ m.arg = field /\ m.cut = FALSE
  <2>1. field \in Args
    BY <1>1
  <2> QED BY <2>1, MessageIs, Zenon
<1>3. CASE ms = processHandleLogin(TRUE) /\ ok
  <2>1. PICK a, b, c, d : /\ a = Message("LOGIN_RESPONSE", 1) /\ b = Message("MAP_DATA", 0)
                          /\ c = Message("INVENTORY_UPDATE", 1) /\ d = Message("EQUIPMENT_UPDATE", 1)
    OBVIOUS
  <2>2. ms = <<a, b, c, d>>
    BY <1>3, <2>1 DEF processHandleLogin
  <2>3. a \in Messages /\ a.cut = FALSE /\ a.arg = 1
    BY <1>1, <1>2, <2>1
  <2>4. b \in Messages /\ b.cut = FALSE
    BY <1>1, <1>2, <2>1
  <2>5. c \in Messages /\ c.cut = FALSE
    BY <1>1, <1>2, <2>1
  <2>6. d \in Messages /\ d.cut = FALSE
    BY <1>1, <1>2, <2>1
  <2>7. ms \in Seq(Messages) /\ Len(ms) = 4 /\ Head(ms) = a /\ ms # <<>>
    BY <2>2, <2>3, <2>4, <2>5, <2>6
  <2>8. \A i \in 1 .. 4 : ms[i] \in {a, b, c, d}
    BY <2>2
  <2>9. \A i \in 1 .. Len(ms) : ms[i].cut = FALSE
    BY <2>3, <2>4, <2>5, <2>6, <2>7, <2>8
  <2>10. Head(ms).arg # 0
    BY <2>3, <2>7
  <2> QED BY <2>7, <2>9, <2>10, Zenon
<1>4. ASSUME NEW opcode \in {"LOGIN_RESPONSE", "SIGNUP_RESPONSE"}, NEW field \in {0, 1},
             ms = <<Message(opcode, field)>>, field = 0 => ~ok
      PROVE  /\ ms \in Seq(Messages) /\ ms # <<>> /\ \A i \in 1 .. Len(ms) : ms[i].cut = FALSE
             /\ Head(ms).arg = 0 => ~ok
  <2>1. PICK x : x = Message(opcode, field)
    OBVIOUS
  <2>2. x \in Messages /\ x.cut = FALSE /\ x.arg = field
    BY <1>1, <1>2, <2>1
  <2>3. ms \in Seq(Messages) /\ ms # <<>> /\ Head(ms) = x /\ \A i \in 1 .. Len(ms) : ms[i] = x
    BY <1>4, <2>1, <2>2
  <2> QED BY <1>4, <2>2, <2>3, Zenon
<1>5. CASE ok
  <2>1. ms = processHandleLogin(TRUE) \/ ms = <<Message("SIGNUP_RESPONSE", 1)>>
    BY <1>5 DEF processHandleSignup
  <2>2. CASE ms = <<Message("SIGNUP_RESPONSE", 1)>>
    <3>1. 1 = 0 => ~ok
      OBVIOUS
    <3> QED BY <1>4, <2>2, <3>1
  <2> QED BY <1>3, <1>5, <2>1, <2>2, Zenon
<1>6. CASE ~ok
  <2>1. ms = <<Message("LOGIN_RESPONSE", 0)>> \/ ms = <<Message("SIGNUP_RESPONSE", 0)>>
    BY <1>6 DEF processHandleLogin, processHandleSignup
  <2> QED BY <1>4, <1>6, <2>1
<1> QED BY <1>5, <1>6

\* More comes in, at the end, from a server that is there.
LEMMA MoreComes ==
  ASSUME Control, NEW ms \in Seq(Messages), \A i \in 1 .. Len(ms) : ms[i].cut = FALSE,
         conn = "open", conn' = conn, to_client' = to_client \o ms
  PROVE  to_client' \in Seq(Messages) /\ CutIsLast'
<1>1. IsSeq(to_client) /\ IsSeq(ms) /\ to_client \in Seq(Messages)
  BY DEF Control, IsSeq
<1>2. to_client' \in Seq(Messages)
  BY <1>1, ConcatProperties
<1>3. ASSUME NEW i \in 1 .. Len(to_client') PROVE to_client'[i].cut = FALSE
  <2>1. /\ Len(to_client) \in Nat /\ Len(ms) \in Nat /\ Len(to_client') = Len(to_client) + Len(ms)
        /\ \A j \in 1 .. Len(to_client) : to_client'[j] = to_client[j]
        /\ \A j \in 1 .. Len(ms) : to_client'[Len(to_client) + j] = ms[j]
    BY <1>1, ConcatIs
  <2>2. CASE i <= Len(to_client)
    <3>1. i \in 1 .. Len(to_client) /\ to_client'[i] = to_client[i]
      BY <2>1, <2>2
    <3>2. to_client[i] \in Messages /\ ~to_client[i].cut
      BY <1>1, <3>1 DEF Control, CutIsLast
    <3> QED BY <3>1, <3>2 DEF Messages
  <2>3. CASE ~(i <= Len(to_client))
    <3>1. PICK j : j = i - Len(to_client)
      OBVIOUS
    <3>2. j \in 1 .. Len(ms) /\ Len(to_client) + j = i
      BY <2>1, <2>3, <3>1
    <3> QED BY <2>1, <3>2
  <2> QED BY <2>2, <2>3
<1> QED BY <1>2, <1>3 DEF CutIsLast

\* The first is taken.
LEMMA OneIsRead ==
  ASSUME Control, NEW e, Receive(e)
  PROVE  /\ to_client' \in Seq(Messages) /\ CutIsLast' /\ conn' = conn /\ err' \in {"none", "reset", "pipe"}
         /\ to_server' = to_server
<1>1. /\ conn' = conn /\ to_client' = IF to_client = <<>> THEN <<>> ELSE Tail(to_client)
      /\ err' \in {"none", err} /\ to_server' = to_server
  BY DEF Receive
<1>2. CASE to_client = <<>>
  <2>1. to_client' = to_client
    BY <1>1, <1>2
  <2> QED BY <1>1, <2>1 DEF Control, CutIsLast
<1>3. CASE to_client # <<>>
  <2>1. to_client' = Tail(to_client) /\ to_client \in Seq(Messages) /\ IsSeq(to_client)
    BY <1>1, <1>3 DEF Control, IsSeq
  <2>2. /\ Len(to_client) \in Nat \ {0} /\ Len(to_client') = Len(to_client) - 1
        /\ \A i \in 1 .. Len(to_client') : to_client'[i] = to_client[i + 1]
    BY <1>3, <2>1, TailIs
  <2>3. to_client' \in Seq(Messages)
    BY <1>3, <2>1
  <2>4. ASSUME NEW i \in 1 .. Len(to_client'), to_client'[i].cut
        PROVE  i = Len(to_client') /\ conn' # "open"
    <3>1. i + 1 \in 1 .. Len(to_client) /\ to_client[i + 1].cut
      BY <2>2, <2>4
    <3>2. i + 1 = Len(to_client) /\ conn # "open"
      BY <3>1 DEF Control, CutIsLast
    <3>3. conn' # "open"
      BY <1>1, <3>2
    <3>4. i = Len(to_client')
      BY <2>2, <3>2
    <3> QED BY <3>3, <3>4
  <2> QED BY <1>1, <2>3, <2>4 DEF Control, CutIsLast
<1> QED BY <1>2, <1>3

\* A message cut where the server went.
LEMMA CutOff ==
  ASSUME Control, ServerGoes
  PROVE  /\ to_client' \in Seq(Messages) /\ CutIsLast' /\ conn' \in {"fin", "reset"}
         /\ err' \in {"none", "reset"} /\ to_server' = <<>>
         /\ to_client' # <<>> => /\ to_client # <<>> /\ Head(to_client').op = Head(to_client).op
                                 /\ Head(to_client').arg = Head(to_client).arg
<1>1. PICK n \in 0 .. Len(to_client), cut \in BOOLEAN :
        /\ cut => n > 0
        /\ to_client' = [i \in 1 .. n |-> [to_client[i] EXCEPT !.cut = cut /\ i = n]]
  BY DEF ServerGoes
<1>2. /\ conn' \in {"fin", "reset"} /\ err' \in {"none", "reset"} /\ to_server' = <<>>
  BY DEF ServerGoes
<1>3. to_client \in Seq(Messages) /\ Len(to_client) \in Nat /\ n \in Nat
  BY LenProperties DEF Control
<1>4. ASSUME NEW i \in 1 .. n
      PROVE  /\ to_client'[i] \in Messages /\ (to_client'[i].cut => i = n)
             /\ to_client'[i].op = to_client[i].op /\ to_client'[i].arg = to_client[i].arg
  <2>1. PICK m : m = to_client[i]
    OBVIOUS
  <2>2. m \in Messages
    BY <1>3, <2>1, ElementOfSeq
  <2>3. PICK last \in BOOLEAN : last = (cut /\ i = n)
    OBVIOUS
  <2>4. to_client'[i] = [m EXCEPT !.cut = last]
    BY <1>1, <2>1, <2>3
  <2> QED BY <2>1, <2>2, <2>3, <2>4 DEF Messages
<1>5. to_client' \in Seq(Messages) /\ Len(to_client') = n
  <2>1. to_client' \in [1 .. n -> Messages]
    BY <1>1, <1>4
  <2>2. to_client' \in Seq(Messages)
    BY <1>3, <2>1
  <2>3. Len(to_client') \in Nat /\ 1 .. Len(to_client') = 1 .. n
    BY <2>1, <2>2, LenProperties
  <2> QED BY <1>3, <2>2, <2>3
<1>6. CutIsLast'
  BY <1>2, <1>4, <1>5 DEF CutIsLast
<1>7. ASSUME to_client' # <<>>
      PROVE  /\ to_client # <<>> /\ Head(to_client').op = Head(to_client).op
             /\ Head(to_client').arg = Head(to_client).arg
  <2>1. n # 0
    BY <1>5, <1>7, EmptySeq
  <2>2. Len(to_client) # 0 /\ 1 \in 1 .. n
    BY <1>3, <2>1
  <2>3. to_client # <<>>
    BY <2>2, EmptySeq
  <2>4. Head(to_client') = to_client'[1] /\ Head(to_client) = to_client[1]
    BY <1>3, <1>5, <1>7, <2>3, HeadTailProperties
  <2> QED BY <1>4, <2>2, <2>3, <2>4
<1> QED BY <1>2, <1>5, <1>6, <1>7

\* Sending and failing to send.
LEMMA SendKeeps ==
  ASSUME Control, SendThrows \/ \E m : Send(m)
  PROVE  /\ to_client' = to_client /\ CutIsLast' /\ conn' \in {"open", "fin", "reset", "closed"}
         /\ err' \in {"none", "reset", "pipe"} /\ (conn = "reset" => conn' = "reset")
         /\ conn # "open" => conn' # "open" /\ to_server' = to_server
<1>1. /\ to_client' = to_client /\ (conn' = conn \/ (conn = "fin" /\ conn' \in {"fin", "reset"}))
      /\ err' \in {err, "none", "pipe"} /\ (conn # "open" => to_server' = to_server)
  <2>1. ASSUME NEW m, Send(m) 
        PROVE  /\ to_client' = to_client /\ (conn' = conn \/ (conn = "fin" /\ conn' \in {"fin", "reset"}))
               /\ err' \in {err, "none", "pipe"} /\ (conn # "open" => to_server' = to_server)
    BY <2>1 DEF Send, wire
  <2>2. ASSUME SendThrows
        PROVE  to_client' = to_client /\ conn' = conn /\ err' \in {err, "none"} /\ to_server' = to_server
    BY <2>2 DEF SendThrows, wire
  <2> QED BY <2>1, <2>2
<1>2. CutIsLast'
  BY <1>1 DEF Control, CutIsLast
<1> QED BY <1>1, <1>2 DEF Control

\* One message more.
LEMMA OneComes ==
  ASSUME Control, NEW m \in Messages, m.cut = FALSE,
         conn = "open", conn' = conn, to_client' = Append(to_client, m)
  PROVE  to_client' \in Seq(Messages) /\ CutIsLast'
<1>1. /\ to_client' = to_client \o <<m>> /\ <<m>> \in Seq(Messages)
      /\ \A i \in 1 .. Len(<<m>>) : <<m>>[i].cut = FALSE
  BY AppendProperties DEF Control
<1> QED BY <1>1, MoreComes

\* Nothing was sent, nothing came and nobody went: the places alone may change.
LEMMA PlacesMove ==
  ASSUME Control, UNCHANGED <<mode, wire, server>>,
         \/ UNCHANGED threads
         \/ mode = "GAME",
         \/ main' = main
         \/ mode = "GAME" /\ main' \in GamePlaces \ {"failed", "aborted"}
         \/ mode # "GAME" /\ main' \in MenuPlaces
         \/ mode = "GAME" /\ main' \in {"failed", "aborted"} /\ conn = "reset"
  PROVE  Control'
<1>1. /\ mode' = mode /\ to_client' = to_client /\ to_server' = to_server
      /\ conn' = conn /\ err' = err /\ server' = server
  BY DEF wire
<1>2. CutIsLast'
  BY <1>1 DEF Control, CutIsLast
<1>3. mode # "GAME" => receiver' = receiver /\ sender' = sender
  BY DEF threads
<1>4. MenuPlaces \cap {"failed", "aborted"} = {} /\ {"failed", "aborted"} \subseteq GamePlaces
  BY DEF MenuPlaces, GamePlaces
<1> QED BY <1>1, <1>2, <1>3, <1>4 DEF Control

\* The steps of the server.
LEMMA ServerControl ==
  ASSUME Control, ServerSteps
  PROVE  Control'
<1>1. UNCHANGED <<mode, main, threads>>
  BY DEF ServerSteps, ServerReads, ServerGoes, ServerBroadcasts, ServerSends
<1>2. CASE ServerReads
  <2>1. conn = "open" /\ conn' = conn /\ err' = err
    BY <1>2 DEF ServerReads
  <2>2. CASE to_client' = to_client /\ server' = server
    BY <1>1, <2>1, <2>2 DEF Control, CutIsLast, threads
  <2>3. CASE \E ok \in BOOLEAN :
               /\ to_client' = to_client \o (IF Head(to_server).op = "LOGIN" THEN processHandleLogin(ok)
                                             ELSE processHandleSignup(ok))
               /\ server' = [answer |-> IF ok THEN "accepted" ELSE "refused", snapshot |-> 0,
                             inventory |-> 1, equipment |-> 1, text |-> "none"]
    <3>1. PICK ok \in BOOLEAN :
               /\ to_client' = to_client \o (IF Head(to_server).op = "LOGIN" THEN processHandleLogin(ok)
                                             ELSE processHandleSignup(ok))
               /\ server' = [answer |-> IF ok THEN "accepted" ELSE "refused", snapshot |-> 0,
                             inventory |-> 1, equipment |-> 1, text |-> "none"]
      BY <2>3
    <3>2. PICK ms : ms = IF Head(to_server).op = "LOGIN" THEN processHandleLogin(ok)
                         ELSE processHandleSignup(ok)
      OBVIOUS
    <3>3. ms = processHandleLogin(ok) \/ ms = processHandleSignup(ok)
      BY <3>2
    <3>4. ms \in Seq(Messages) /\ \A i \in 1 .. Len(ms) : ms[i].cut = FALSE
      BY <3>3, AnswersAre
    <3>5. to_client' = to_client \o ms
      BY <3>1, <3>2
    <3>6. to_client' \in Seq(Messages) /\ CutIsLast'
      BY <2>1, <3>4, <3>5, MoreComes
    <3>7. DOMAIN server' = {"answer", "snapshot", "inventory", "equipment", "text"}
      BY <3>1
    <3> QED BY <1>1, <2>1, <3>6, <3>7 DEF Control, threads
  <2> QED BY <1>2, <2>2, <2>3 DEF ServerReads
<1>3. CASE ServerGoes
  <2>1. main \notin {"failed", "aborted"} /\ server' = server
    BY <1>3 DEF ServerGoes, Over, peer
  <2> QED BY <1>1, <1>3, <2>1, CutOff DEF Control, threads
<1>4. ASSUME NEW i \in DOMAIN Snapshots, ServerBroadcasts(i) PROVE Control'
  <2>1. /\ conn = "open" /\ conn' = conn /\ err' = err
        /\ to_client' = Append(to_client, Message("SNAPSHOT", i))
        /\ server' = [server EXCEPT !.snapshot = i]
    BY <1>4 DEF ServerBroadcasts
  <2>2. Message("SNAPSHOT", i) \in Messages /\ Message("SNAPSHOT", i).cut = FALSE
    <3>1. "SNAPSHOT" \in Opcodes /\ i \in Args
      BY DEF Opcodes, Args, ToClient
    <3> QED BY <3>1, MessageIs
  <2>3. to_client' \in Seq(Messages) /\ CutIsLast'
    BY <2>1, <2>2, OneComes
  <2>4. DOMAIN server' = DOMAIN server
    BY <2>1
  <2> QED BY <1>1, <2>1, <2>3, <2>4 DEF Control, threads
<1>5. ASSUME NEW m \in UpdatesOfSlots \cup sendCombatMessage \cup processBroadcastChat
                         \cup processListItems, ServerSends(m)
      PROVE  Control'
  <2>1. /\ conn = "open" /\ conn' = conn /\ err' = err
        /\ to_client' = Append(to_client, m)
        /\ server' \in {server, [server EXCEPT !.inventory = m.arg],
                        [server EXCEPT !.equipment = m.arg], [server EXCEPT !.text = m.arg]}
    BY <1>5 DEF ServerSends
  <2>2. m \in Messages /\ m.cut = FALSE
    <3>1. PICK opcode \in Opcodes, field \in Args : m = Message(opcode, field)
      <4>1. /\ {"INVENTORY_UPDATE", "EQUIPMENT_UPDATE", "CHAT_MSG"} \union Lists \subseteq Opcodes
            /\ DOMAIN Slots \union Texts \union Spoken \union {1} \subseteq Args
        BY ClientAssumption DEF Opcodes, Args, ToClient
      <4> QED BY <4>1, <1>5 DEF UpdatesOfSlots, sendCombatMessage, processBroadcastChat, processListItems
    <3> QED BY <3>1, MessageIs
  <2>3. to_client' \in Seq(Messages) /\ CutIsLast'
    BY <2>1, <2>2, OneComes
  <2>4. DOMAIN server' = DOMAIN server
    BY <2>1
  <2> QED BY <1>1, <2>1, <2>3, <2>4 DEF Control, threads
<1> QED BY <1>2, <1>3, <1>4, <1>5 DEF ServerSteps

\* Every step.
LEMMA StepControl ==
  ASSUME Control, [Next]_vars
  PROVE  Control'
<1>1. CASE UserSteps
  <2>1. Input
    BY <1>1 DEF UserSteps, Quit, SetChatActive, DebugKey, DoubleClick, SelectSlot, ClickEntity, ClickNobody,
                Scroll, EnterLine, Move
  <2>2. UNCHANGED <<mode, wire, server>> /\ UNCHANGED threads /\ main' = main
    BY <2>1 DEF Input
  <2> QED BY <2>2, PlacesMove
<1>2. CASE sendLogin \/ MenuAsks \/ sendCmd
  <2>1. SendThrows \/ \E r : Send(r)
    BY <1>2 DEF sendLogin, MenuAsks, sendCmd
  <2>2. UNCHANGED <<mode, peer>> /\ receiver' = receiver /\ (sender' = sender \/ sender = "running")
    BY <1>2 DEF sendLogin, MenuAsks, sendCmd, threads
  <2>3. \/ main' = main
        \/ main = "login" /\ main' \in {"waiting", "closing"}
        \/ main = "menu" /\ main' \in {"asking", "refused"}
    BY <1>2 DEF sendLogin, MenuAsks, sendCmd
  <2>4. mode' = mode /\ server' = server
    BY <2>2 DEF peer
  <2>5. /\ mode = "GAME" => main' \in GamePlaces
        /\ mode # "GAME" => main' \in MenuPlaces /\ receiver' = "new" /\ sender' = "new"
    BY <2>2, <2>3 DEF Control, GamePlaces, MenuPlaces
  <2>6. main' \in {"failed", "aborted"} => conn' = "reset"
    BY <2>1, <2>3, SendKeeps DEF Control
  <2> QED BY <2>1, <2>4, <2>5, <2>6, SendKeeps DEF Control
<1>3. CASE SkipLogin \/ StartThreads \/ BeginFrame \/ HandleEvent \/ EventsHandled \/ EndFrame
           \/ CloseFails \/ CloseQueues \/ Join \/ MenuIsAnswered \/ SenderEnds
  <2>1. UNCHANGED <<mode, wire, server>>
    BY <1>3 DEF SkipLogin, StartThreads, BeginFrame, HandleEvent, EventsHandled, EndFrame, CloseFails,
                CloseQueues, Join, MenuIsAnswered, SenderEnds, peer
  <2>2. UNCHANGED threads \/ main = "starting" \/ sender = "running"
    BY <1>3 DEF SkipLogin, StartThreads, BeginFrame, HandleEvent, EventsHandled, EndFrame, CloseFails,
                CloseQueues, Join, MenuIsAnswered, SenderEnds
  <2>3. \/ main' = main
        \/ main \in GamePlaces /\ main' \in GamePlaces \ {"failed", "aborted"}
        \/ main \in MenuPlaces /\ main' \in MenuPlaces
        \/ main \in GamePlaces /\ main' \in {"failed", "aborted"} /\ conn = "reset"
    BY <1>3 DEF SkipLogin, StartThreads, BeginFrame, HandleEvent, EventsHandled, EndFrame, CloseFails,
                CloseQueues, Join, MenuIsAnswered, SenderEnds, GamePlaces, MenuPlaces
  <2>4. mode = "GAME" <=> main \in GamePlaces
    BY DEF Control, GamePlaces, MenuPlaces
  <2>5. mode # "GAME" <=> main \in MenuPlaces
    BY DEF Control, GamePlaces, MenuPlaces
  <2>6. UNCHANGED threads \/ mode = "GAME"
    BY <2>2, <2>4 DEF Control, GamePlaces
  <2> QED BY <2>1, <2>3, <2>4, <2>5, <2>6, PlacesMove
<1>4. CASE CloseSocket
  <2>1. main = "closing" /\ main' = "closing_queues" /\ conn' = "closed" /\ to_client' = to_client
        /\ err' = err /\ UNCHANGED <<mode, threads, peer>>
    BY <1>4 DEF CloseSocket
  <2>2. CutIsLast'
    BY <2>1 DEF Control, CutIsLast
  <2> QED BY <2>1, <2>2 DEF Control, GamePlaces, MenuPlaces, threads, peer
<1>5. CASE ReceiveLogin \/ recvEventClient
  <2>1. PICK e : Receive(e)
    BY <1>5 DEF ReceiveLogin, recvEventClient
  <2>2. /\ mode' = mode /\ server' = server /\ sender' = sender
        /\ receiver' = receiver \/ receiver = "running"
    BY <1>5 DEF ReceiveLogin, recvEventClient, threads, peer
  <2>3. \/ main' = main /\ main \notin {"failed", "aborted"}
        \/ main = "waiting" /\ main' \in {"closing", "starting", "waiting"}
    BY <1>5 DEF ReceiveLogin, recvEventClient, Over
  <2>4. /\ mode = "GAME" => main' \in GamePlaces
        /\ mode # "GAME" => main' \in MenuPlaces /\ receiver' = "new" /\ sender' = "new"
        /\ main' \notin {"failed", "aborted"}
    BY <2>2, <2>3 DEF Control, GamePlaces, MenuPlaces
  <2> QED BY <2>1, <2>2, <2>4, OneIsRead DEF Control
<1>6. CASE UNCHANGED vars
  <2>1. UNCHANGED <<mode, wire, server>> /\ UNCHANGED threads /\ main' = main
    BY <1>6 DEF vars, wire, threads
  <2> QED BY <2>1, PlacesMove
<1> QED BY <1>1, <1>2, <1>3, <1>4, <1>5, <1>6, ServerControl DEF Next, MainSteps, SenderSteps

-----------------------------------------------------------------------------
(***************************************************************************)
(* The menu.                                                               *)
(***************************************************************************)

\* Before the answer only snapshots come, and there is one request.
Menu ==
  mode # "GAME" =>
    /\ main = "menu" => to_server = <<>> /\ server.answer = "none"
    /\ to_server # <<>> => to_server = <<Request(mode, 0, <<>>)>> /\ server.answer = "none"
    /\ to_client # <<>> =>
         \/ Head(to_client).op = "SNAPSHOT"
         \/ Head(to_client).op = Answer /\ (Head(to_client).arg = 0 => server.answer = "refused")
    /\ main = "refused" =>
         \/ server.answer = "refused" \/ conn # "open"
         \/ to_client # <<>> /\ Head(to_client).op = "SNAPSHOT"

\* What comes after the first changes nothing of it.
LEMMA HeadStays ==
  ASSUME Control, NEW ms \in Seq(Messages), to_client' = to_client \o ms, ms # <<>>
  PROVE  /\ to_client' # <<>>
         /\ Head(to_client') = IF to_client = <<>> THEN Head(ms) ELSE Head(to_client)
<1>1. IsSeq(to_client) /\ IsSeq(ms) /\ to_client \in Seq(Messages)
  BY DEF Control, IsSeq
<1>2. /\ Len(to_client) \in Nat /\ Len(ms) \in Nat \ {0} /\ Len(to_client') = Len(to_client) + Len(ms)
      /\ \A j \in 1 .. Len(to_client) : to_client'[j] = to_client[j]
      /\ \A j \in 1 .. Len(ms) : to_client'[Len(to_client) + j] = ms[j]
  BY <1>1, ConcatIs, TailIs
<1>3. to_client' \in Seq(Messages) /\ to_client' # <<>>
  <2>1. to_client' \in Seq(Messages)
    BY <1>1, ConcatProperties
  <2>2. Len(to_client') # 0
    BY <1>2
  <2> QED BY <2>1, <2>2, EmptySeq
<1>4. Head(to_client') = to_client'[1] /\ Head(ms) = ms[1]
  BY <1>1, <1>3, HeadTailProperties
<1>5. CASE to_client = <<>>
  <2>1. Len(to_client) = 0 /\ 1 \in 1 .. Len(ms) /\ 0 + 1 = 1
    BY <1>2, <1>5
  <2> QED BY <1>2, <1>3, <1>4, <1>5, <2>1
<1>6. CASE to_client # <<>>
  <2>1. Head(to_client) = to_client[1] /\ 1 \in 1 .. Len(to_client)
    BY <1>1, <1>6, TailIs
  <2> QED BY <1>2, <1>3, <1>4, <1>6, <2>1
<1> QED BY <1>5, <1>6

\* A fresh answer is to the request of the menu.
LEMMA MenuIsTold ==
  ASSUME Control, Menu, mode # "GAME", ServerReads
  PROVE  Menu'
<1>1. /\ mode' = mode /\ main' = main /\ to_server' = <<>> /\ to_server # <<>> /\ conn' = conn
  BY DEF ServerReads
<1>2. to_server = <<Request(mode, 0, <<>>)>> /\ server.answer = "none" /\ main # "menu"
  BY <1>1 DEF Menu
<1>3. Head(to_server).op = mode /\ mode \in {"LOGIN", "SIGNUP"}
  BY <1>2 DEF Request, Control
<1>a. ASSUME UNCHANGED <<to_client, server>> PROVE Menu'
  BY <1>1, <1>2, <1>a DEF Menu, Answer
<1>b. SUFFICES ASSUME ~UNCHANGED <<to_client, server>> PROVE Menu'
  BY <1>a
<1>4. PICK ok \in BOOLEAN :
        /\ to_client' = to_client \o (IF Head(to_server).op = "LOGIN" THEN processHandleLogin(ok)
                                      ELSE processHandleSignup(ok))
        /\ server' = [answer |-> IF ok THEN "accepted" ELSE "refused", snapshot |-> 0,
                      inventory |-> 1, equipment |-> 1, text |-> "none"]
  BY <1>3, <1>b DEF ServerReads
<1>5. PICK ms : ms = IF mode = "LOGIN" THEN processHandleLogin(ok) ELSE processHandleSignup(ok)
  OBVIOUS
<1>6. ms \in Seq(Messages) /\ ms # <<>> /\ (Head(ms).arg = 0 => ~ok)
  <2>1. ms = processHandleLogin(ok) \/ ms = processHandleSignup(ok)
    BY <1>5
  <2> QED BY <2>1, AnswersAre
<1>7. Head(ms).op = Answer
  <2>1. \A x, y : Message(x, y).op = x
    BY DEF Message
  <2>2. CASE mode = "LOGIN"
    <3>1. \/ ms = <<Message("LOGIN_RESPONSE", 0)>>
          \/ ms = <<Message("LOGIN_RESPONSE", 1), Message("MAP_DATA", 0),
                    Message("INVENTORY_UPDATE", 1), Message("EQUIPMENT_UPDATE", 1)>>
      BY <1>5, <2>2 DEF processHandleLogin
    <3>2. Head(ms) \in {Message("LOGIN_RESPONSE", 0), Message("LOGIN_RESPONSE", 1)}
      BY <3>1
    <3> QED BY <2>1, <2>2, <3>2 DEF Answer
  <2>3. CASE mode = "SIGNUP"
    <3>1. ms = <<Message("SIGNUP_RESPONSE", IF ok THEN 1 ELSE 0)>>
      BY <1>3, <1>5, <2>3 DEF processHandleSignup
    <3>2. Head(ms) = Message("SIGNUP_RESPONSE", IF ok THEN 1 ELSE 0)
      BY <3>1
    <3> QED BY <2>1, <2>3, <3>2 DEF Answer
  <2> QED BY <1>3, <2>2, <2>3
<1>8. /\ to_client' # <<>>
      /\ Head(to_client') = IF to_client = <<>> THEN Head(ms) ELSE Head(to_client)
  BY <1>3, <1>4, <1>5, <1>6, HeadStays
<1>9. ~ok => server'.answer = "refused"
  BY <1>4
<1>10. Answer' = Answer
  BY <1>1 DEF Answer
<1>11. to_client # <<>> =>
         \/ Head(to_client).op = "SNAPSHOT"
         \/ Head(to_client).op = Answer /\ Head(to_client).arg # 0
  <2>1. to_client # <<>> =>
          \/ Head(to_client).op = "SNAPSHOT"
          \/ Head(to_client).op = Answer /\ (Head(to_client).arg = 0 => server.answer = "refused")
    BY DEF Menu
  <2>2. server.answer # "refused"
    BY <1>2
  <2> QED BY <2>1, <2>2
<1>12. \/ Head(to_client').op = "SNAPSHOT"
       \/ Head(to_client').op = Answer /\ (Head(to_client').arg = 0 => server'.answer = "refused")
  BY <1>6, <1>7, <1>8, <1>9, <1>11
<1>13. main' = "refused" =>
         \/ server'.answer = "refused" \/ conn' # "open"
         \/ to_client' # <<>> /\ Head(to_client').op = "SNAPSHOT"
  BY <1>1, <1>2, <1>8 DEF Menu
<1>14. to_server' = <<>> /\ main' # "menu"
  BY <1>1, <1>2
<1> QED BY <1>10, <1>12, <1>13, <1>14 DEF Menu

\* Steps that change nothing the menu relies on, in a game or not.
LEMMA MenuStays ==
  ASSUME Control, Menu, mode' = mode, main' = main \/ mode = "GAME",
         \/ mode = "GAME"
         \/ UNCHANGED <<to_client, to_server, server, conn>>
  PROVE  Menu'
BY DEF Menu, Answer

\* Every step.
LEMMA StepMenu ==
  ASSUME Control, Menu, [Next]_vars
  PROVE  Menu'
<1>0. mode' = mode
  BY DEF Next, ServerSteps, UserSteps, MainSteps, SenderSteps, ServerReads, ServerGoes, ServerBroadcasts,
         ServerSends, Quit, SetChatActive, DebugKey, DoubleClick, SelectSlot, ClickEntity, ClickNobody, Scroll,
         EnterLine, Move, Input, SkipLogin, sendLogin, ReceiveLogin, StartThreads, BeginFrame, HandleEvent,
         EventsHandled, EndFrame, CloseFails, CloseSocket, CloseQueues, Join, MenuAsks, MenuIsAnswered,
         recvEventClient, sendCmd, SenderEnds, vars
<1> SUFFICES ASSUME mode # "GAME" PROVE Menu'
  BY <1>0 DEF Menu
<1>1. /\ main \in MenuPlaces /\ receiver = "new" /\ sender = "new" /\ mode \in {"LOGIN", "SIGNUP"}
      /\ IsSeq(to_client) /\ to_client \in Seq(Messages)
  BY DEF Control, IsSeq
<1>2. \/ ServerReads \/ ServerGoes \/ (\E i \in DOMAIN Snapshots : ServerBroadcasts(i))
      \/ MenuAsks \/ MenuIsAnswered \/ UNCHANGED vars
  <2>1. ~UserSteps
    BY <1>1 DEF UserSteps, Quit, SetChatActive, DebugKey, DoubleClick, SelectSlot, ClickEntity, ClickNobody,
                Scroll, EnterLine, Move, Input, MenuPlaces
  <2>2. ~(sendLogin \/ ReceiveLogin \/ StartThreads \/ BeginFrame \/ HandleEvent \/ EventsHandled \/ EndFrame
          \/ CloseFails \/ CloseSocket \/ CloseQueues \/ Join \/ SkipLogin)
    BY <1>1 DEF sendLogin, ReceiveLogin, StartThreads, BeginFrame, HandleEvent, EventsHandled, EndFrame,
                CloseFails, CloseSocket, CloseQueues, Join, SkipLogin, MenuPlaces
  <2>3. ~(recvEventClient \/ sendCmd \/ SenderEnds)
    BY <1>1 DEF recvEventClient, sendCmd, SenderEnds
  <2>4. \A m : ~ServerSends(m)
    BY DEF ServerSends
  <2> QED BY <2>1, <2>2, <2>3, <2>4 DEF Next, ServerSteps, MainSteps, SenderSteps
<1>3. CASE ServerReads
  BY <1>3, MenuIsTold
<1>4. CASE ServerGoes
  <2>1. main' = main /\ server' = server /\ to_server' = <<>> /\ conn' # "open"
    BY <1>4 DEF ServerGoes, peer
  <2>2. to_client' # <<>> =>
          \/ Head(to_client').op = "SNAPSHOT"
          \/ Head(to_client').op = Answer /\ (Head(to_client').arg = 0 => server'.answer = "refused")
    BY <1>4, <2>1, CutOff DEF Menu
  <2>3. main' = "menu" => server'.answer = "none"
    BY <2>1 DEF Menu
  <2> QED BY <1>0, <2>1, <2>2, <2>3 DEF Menu, Answer
<1>5. ASSUME NEW i \in DOMAIN Snapshots, ServerBroadcasts(i) PROVE Menu'
  <2>1. /\ main' = main /\ main \notin Over /\ conn' = conn /\ to_server' = to_server
        /\ to_client' = Append(to_client, Message("SNAPSHOT", i))
        /\ server' = [server EXCEPT !.snapshot = i]
    BY <1>5 DEF ServerBroadcasts
  <2>2. server'.answer = server.answer
    BY <2>1 DEF Control
  <2>3. Message("SNAPSHOT", i) \in Messages /\ Message("SNAPSHOT", i).op = "SNAPSHOT"
    <3>1. "SNAPSHOT" \in Opcodes /\ i \in Args
      BY DEF Opcodes, Args, ToClient
    <3> QED BY <3>1, MessageIs
  <2>4. PICK ms : ms = <<Message("SNAPSHOT", i)>>
    OBVIOUS
  <2>5. ms \in Seq(Messages) /\ ms # <<>> /\ Head(ms).op = "SNAPSHOT" /\ to_client' = to_client \o ms
    BY <1>1, <2>1, <2>3, <2>4, AppendProperties
  <2>6. Head(to_client') = IF to_client = <<>> THEN Head(ms) ELSE Head(to_client)
    BY <2>5, HeadStays
  <2>7. \/ Head(to_client').op = "SNAPSHOT"
        \/ Head(to_client').op = Answer /\ (Head(to_client').arg = 0 => server'.answer = "refused")
    BY <2>2, <2>5, <2>6 DEF Menu
  <2> QED BY <1>0, <2>1, <2>2, <2>7 DEF Menu, Answer, Over
<1>6. CASE MenuAsks
  <2>1. main = "menu" /\ main' \in {"asking", "refused"} /\ server' = server
    BY <1>6 DEF MenuAsks, peer
  <2>2. to_server = <<>> /\ server.answer = "none"
    BY <2>1 DEF Menu
  <2>3. /\ to_client' = to_client
        /\ to_server' = to_server \/ to_server' = Append(to_server, Request(mode, 0, <<>>))
        /\ main' = "refused" => conn' # "open"
    BY <1>6 DEF MenuAsks, Send, SendThrows, wire
  <2>4. to_server' = <<>> \/ to_server' = <<Request(mode, 0, <<>>)>>
    BY <2>2, <2>3
  <2> QED BY <1>0, <2>1, <2>2, <2>3, <2>4 DEF Menu, Answer
<1>7. CASE MenuIsAnswered
  <2>1. /\ main = "asking" /\ UNCHANGED <<to_client, to_server, conn, server>>
        /\ main' \in {"accepted", "refused"}
        /\ to_client # <<>> \/ conn # "open"
    BY <1>7 DEF MenuIsAnswered, wire, peer
  <2>2. main' = "refused" /\ to_client # <<>> =>
          Head(to_client).op # Answer \/ Head(to_client).arg = 0 \/ Head(to_client).cut
    BY <1>7 DEF MenuIsAnswered
  <2>3. to_client # <<>> => (Head(to_client).cut => conn # "open")
    <3>1. to_client # <<>> => Head(to_client) = to_client[1] /\ 1 \in 1 .. Len(to_client)
      BY <1>1, TailIs
    <3> QED BY <3>1 DEF Control, CutIsLast
  <2>4. to_client # <<>> =>
          \/ Head(to_client).op = "SNAPSHOT"
          \/ Head(to_client).op = Answer /\ (Head(to_client).arg = 0 => server.answer = "refused")
    BY DEF Menu
  <2>5. main' = "refused" =>
          \/ server.answer = "refused" \/ conn # "open"
          \/ to_client # <<>> /\ Head(to_client).op = "SNAPSHOT"
    BY <2>1, <2>2, <2>3, <2>4
  <2>6. to_client' = to_client /\ to_server' = to_server /\ server' = server /\ conn' = conn /\ main' # "menu"
    BY <2>1
  <2>7. Answer' = Answer
    BY <1>0 DEF Answer
  <2>8. to_server # <<>> => to_server = <<Request(mode, 0, <<>>)>> /\ server.answer = "none"
    BY DEF Menu
  <2> QED BY <1>0, <2>4, <2>5, <2>6, <2>7, <2>8 DEF Menu
<1>8. CASE UNCHANGED vars
  BY <1>8, MenuStays DEF vars
<1> QED BY <1>2, <1>3, <1>4, <1>5, <1>6, <1>7, <1>8

\* The start.
LEMMA InitControl == Init => Control /\ Menu
<1> SUFFICES ASSUME Init PROVE Control /\ Menu
  OBVIOUS
<1>1. to_client \in Seq(Messages) /\ Len(to_client) = 0
  BY EmptySeq DEF Init
<1>2. CutIsLast
  BY <1>1 DEF CutIsLast
<1> QED BY <1>1, <1>2 DEF Init, run, Control, Menu, GamePlaces, MenuPlaces

\* The menu says that it failed only when the server said no, the connection ended
\* or a snapshot came before the answer, however the broadcasts, the answer and the
\* end of the server interleave; a game fails or is aborted only by a reset.
THEOREM FailuresCorrect == Spec => []FailuresHaveACause
<1>1. Control /\ Menu => FailuresHaveACause
  BY DEF Control, Menu, FailuresHaveACause, GamePlaces
<1>2. Control /\ Menu /\ [Next]_vars => Control' /\ Menu'
  BY StepControl, StepMenu
<1> QED BY InitControl, <1>1, <1>2, PTL DEF Spec

-----------------------------------------------------------------------------
(***************************************************************************)
(* What a line of the chat asks for.                                       *)
(***************************************************************************)

\* The requests of a game.
Asked == ToServer \ {"LOGIN", "SIGNUP"}

Typed(opcode, id, what, line) == [op |-> opcode, id |-> id, what |-> what, line |-> line]

\* Executing a request does what the help says of its line, or says the line aloud.
Kept(r) ==
  r.line # <<>> /\ Head(r.line) \in DOMAIN Promised =>
    \/ executed(r).handler \in Promised[Head(r.line)]
    \/ executed(r) = Call("processBroadcastChat", 0, r.line)

\* What the help and the texts of the game say each line does.
LEMMA PromisedIs ==
  /\ Promised["/comprar"] = {"processBuyItem"}
  /\ Promised["/vender"] = {"processSellItem"}
  /\ Promised["/listar"] = {"processListItems"}
  /\ Promised["/depositar"] = {"processPlayerDepositItem", "processPlayerDepositGold"}
  /\ Promised["/retirar"] = {"processPlayerWithdrawItem", "processPlayerWithdrawGold"}
  /\ Promised["/curar"] = {"processPlayerInteract"}
  /\ Promised["/resucitar"] = {"processPlayerResurrect"}
  /\ Promised["/meditar"] = {"processPlayerMeditate"}
  /\ Promised["@"] = {"processDirectChatByName", "none"}
  /\ Promised["/fundar-clan"] = {"processClanFound"}
  /\ Promised["/unirse"] = {"processClanJoin"}
  /\ Promised["/revisar-clan"] = {"processClanReview"}
  /\ Promised["/clan-aceptar"] = {"processClanAccept"}
  /\ Promised["/clan-rechazar"] = {"processClanReject"}
  /\ Promised["/clan-ban"] = {"processClanBan"}
  /\ Promised["/dejar-clan"] = {"processClanLeave"}
  /\ Promised["/listar-clanes"] = {"processClanList"}
  /\ Promised["/clan-kick"] = {"processClanKick"}
BY DEF Promised

\* The fields of a request.
LEMMA TypedIs ==
  ASSUME NEW opcode, NEW id, NEW what, NEW line
  PROVE  /\ Typed(opcode, id, what, line).op = opcode /\ Typed(opcode, id, what, line).id = id
         /\ Typed(opcode, id, what, line).what = what /\ Typed(opcode, id, what, line).line = line
         /\ Request(opcode, id, what) = Typed(opcode, id, what, <<>>)
         /\ [Request(opcode, id, what) EXCEPT !.line = line] = Typed(opcode, id, what, line)
BY DEF Typed, Request

\* The handler of a call.
LEMMA CallIs ==
  ASSUME NEW handler, NEW id, NEW what
  PROVE  Call(handler, id, what).handler = handler
BY DEF Call

\* What may be asked of the npc that is selected.
NpcAsks(line, opcode, what) ==
  \/ line = <<"/curar">> /\ opcode = "INTERACT" /\ what = <<"heal">>
  \/ line = <<"/resucitar">> /\ opcode = "INTERACT" /\ what = <<"resurrect">>
  \/ line = <<"/listar">> /\ opcode = "LIST_ITEMS"
  \/ Head(line) = "/comprar" /\ opcode = "BUY_ITEM"
  \/ Head(line) = "/vender" /\ opcode = "SELL_ITEM"
  \/ Head(line) = "/depositar" /\ opcode \in {"DEPOSIT_GOLD", "DEPOSIT_ITEM"}
  \/ Head(line) = "/retirar" /\ opcode \in {"WITHDRAW_GOLD", "WITHDRAW_ITEM"}

\* What parseCommand and the client make of a line about the selected npc.
LEMMA NpcRequestIs ==
  ASSUME NEW line, NEW npc_id
  PROVE  \/ RequestsToNpc(line, npc_id) = <<>>
         \/ \E opcode, what : /\ RequestsToNpc(line, npc_id) = <<Request(opcode, npc_id, what)>>
                              /\ NpcAsks(line, opcode, what)
<1>1. PICK rs, item : rs = RequestsToNpc(line, npc_id) /\ item = resolve_item_id(Tail(line))
  OBVIOUS
<1>2. \/ rs = <<>>
      \/ line = <<"/curar">> /\ rs = <<Request("INTERACT", npc_id, <<"heal">>)>>
      \/ line = <<"/resucitar">> /\ rs = <<Request("INTERACT", npc_id, <<"resurrect">>)>>
      \/ line = <<"/listar">> /\ rs = <<Request("LIST_ITEMS", npc_id, <<>>)>>
      \/ Head(line) = "/comprar" /\ rs = <<Request("BUY_ITEM", npc_id, <<item>>)>>
      \/ Head(line) = "/vender" /\ rs = <<Request("SELL_ITEM", npc_id, <<item>>)>>
      \/ Head(line) = "/depositar" /\ rs = <<Request("DEPOSIT_GOLD", npc_id, <<line[3]>>)>>
      \/ Head(line) = "/depositar" /\ rs = <<Request("DEPOSIT_ITEM", npc_id, <<item>>)>>
      \/ Head(line) = "/retirar" /\ rs = <<Request("WITHDRAW_GOLD", npc_id, <<line[3]>>)>>
      \/ Head(line) = "/retirar" /\ rs = <<Request("WITHDRAW_ITEM", npc_id, <<item>>)>>
  BY <1>1 DEF RequestsToNpc
<1> QED BY <1>1, <1>2 DEF NpcAsks

\* What is asked of an npc is what the help promised of the line.
LEMMA NpcRequestIsKept ==
  ASSUME NEW line, NEW npc_id, NEW opcode, NEW what, NpcAsks(line, opcode, what)
  PROVE  opcode \in Asked /\ Kept(Typed(opcode, npc_id, what, line))
<1>1. PICK r : r = Typed(opcode, npc_id, what, line)
  OBVIOUS
<1>2. r.op = opcode /\ r.id = npc_id /\ r.what = what /\ r.line = line
  BY <1>1, TypedIs
<1>3. opcode \in Asked
  BY DEF NpcAsks, Asked, ToServer
<1>4. executed(r).handler \in Promised[Head(line)]
  <2>1. CASE line = <<"/curar">> /\ opcode = "INTERACT" /\ what = <<"heal">>
    <3>1. <<"heal">> # <<"resurrect">> /\ Head(line) = "/curar"
      BY <2>1
    <3>2. executed(r) = InteractCommand(r.id, r.what)
      BY <1>2, <2>1, <3>1 DEF executed
    <3> QED BY <3>1, <3>2, CallIs, PromisedIs DEF InteractCommand
  <2>2. CASE line = <<"/resucitar">> /\ opcode = "INTERACT" /\ what = <<"resurrect">>
    <3>1. Head(line) = "/resucitar"
      BY <2>2
    <3>2. executed(r) = ResurrectCommand(r.id, <<>>)
      BY <1>2, <2>2 DEF executed
    <3> QED BY <3>1, <3>2, CallIs, PromisedIs DEF ResurrectCommand
  <2>3. CASE line = <<"/listar">> /\ opcode = "LIST_ITEMS"
    <3>1. Head(line) = "/listar"
      BY <2>3
    <3>2. executed(r) = ListItemsCommand(r.id, r.what)
      BY <1>2, <2>3 DEF executed
    <3> QED BY <3>1, <3>2, CallIs, PromisedIs DEF ListItemsCommand
  <2>4. CASE Head(line) = "/comprar" /\ opcode = "BUY_ITEM"
    <3>1. executed(r) = BuyItemCommand(r.id, r.what)
      BY <1>2, <2>4 DEF executed
    <3> QED BY <2>4, <3>1, CallIs, PromisedIs DEF BuyItemCommand
  <2>5. CASE Head(line) = "/vender" /\ opcode = "SELL_ITEM"
    <3>1. executed(r) = SellItemCommand(r.id, r.what)
      BY <1>2, <2>5 DEF executed
    <3> QED BY <2>5, <3>1, CallIs, PromisedIs DEF SellItemCommand
  <2>6. CASE Head(line) = "/depositar" /\ opcode = "DEPOSIT_GOLD"
    <3>1. executed(r) = DepositGoldCommand(r.id, r.what)
      BY <1>2, <2>6 DEF executed
    <3> QED BY <2>6, <3>1, CallIs, PromisedIs DEF DepositGoldCommand
  <2>7. CASE Head(line) = "/depositar" /\ opcode = "DEPOSIT_ITEM"
    <3>1. executed(r) = DepositItemCommand(r.id, r.what)
      BY <1>2, <2>7 DEF executed
    <3> QED BY <2>7, <3>1, CallIs, PromisedIs DEF DepositItemCommand
  <2>8. CASE Head(line) = "/retirar" /\ opcode = "WITHDRAW_GOLD"
    <3>1. executed(r) = WithdrawGoldCommand(r.id, r.what)
      BY <1>2, <2>8 DEF executed
    <3> QED BY <2>8, <3>1, CallIs, PromisedIs DEF WithdrawGoldCommand
  <2>9. CASE Head(line) = "/retirar" /\ opcode = "WITHDRAW_ITEM"
    <3>1. executed(r) = WithdrawItemCommand(r.id, r.what)
      BY <1>2, <2>9 DEF executed
    <3> QED BY <2>9, <3>1, CallIs, PromisedIs DEF WithdrawItemCommand
  <2> QED BY <2>1, <2>2, <2>3, <2>4, <2>5, <2>6, <2>7, <2>8, <2>9 DEF NpcAsks
<1> QED BY <1>1, <1>2, <1>3, <1>4 DEF Kept

\* What the server makes of a line that is sent as it is.
ChatIs(line, rest, c) ==
  \/ Head(line) = "@" /\ c = Call("processDirectChatByName", 0, rest)
  \/ Head(line) = "@" /\ c = Call("none", 0, <<>>)
  \/ line = <<"/meditar">> /\ c = MeditateCommand
  \/ line = <<"/resucitar">> /\ c = ResurrectCommand(NoNpc, <<>>)
  \/ line = <<"/debug_morir">>
  \/ line = <<"/debug_vida_infinita">>
  \/ line = <<"/debug_mana_infinito">>
  \/ Head(line) = "/fundar-clan" /\ c = ClanFoundCommand(rest)
  \/ Head(line) = "/unirse" /\ c = ClanJoinCommand(rest)
  \/ line = <<"/revisar-clan">> /\ c = ClanReviewCommand
  \/ Head(line) = "/clan-aceptar" /\ c = ClanAcceptCommand(rest)
  \/ Head(line) = "/clan-rechazar" /\ c = ClanRejectCommand(rest)
  \/ Head(line) = "/clan-ban" /\ c = ClanBanCommand(rest)
  \/ Head(line) = "/clan-kick" /\ c = ClanKickCommand(rest)
  \/ line = <<"/dejar-clan">> /\ c = ClanLeaveCommand
  \/ line = <<"/listar-clanes">> /\ c = ClanListCommand
  \/ c = Call("processBroadcastChat", 0, line)

\* One of its arms is taken; guards and calls are named so that
\* nothing else is looked at.
LEMMA ChatCommandIs ==
  ASSUME NEW line
  PROVE  ChatIs(line, Tail(line), ChatCommand(line))
<1>1. PICK rest, c, said : /\ rest = Tail(line) /\ c = ChatCommand(line)
                           /\ said = Call("processBroadcastChat", 0, line)
  OBVIOUS
<1>2. PICK g1, g2, g3, g4, g5, g6, g7, g8 :
        /\ g1 = (Head(line) = "@" /\ Len(line) > 2)
        /\ g2 = (Head(line) = "@" /\ Len(line) <= 2)
        /\ g3 = (line = <<"/meditar">>)
        /\ g4 = (line = <<"/resucitar">>)
        /\ g5 = (line = <<"/debug_morir">>)
        /\ g6 = (line = <<"/debug_vida_infinita">>)
        /\ g7 = (line = <<"/debug_mana_infinito">>)
        /\ g8 = (Head(line) = "/fundar-clan" /\ rest # <<>>)
  OBVIOUS
<1>3. PICK g9, g10, g11, g12, g13, g14, g15, g16 :
        /\ g9 = (Head(line) = "/unirse" /\ rest # <<>>)
        /\ g10 = (line = <<"/revisar-clan">>)
        /\ g11 = (Head(line) = "/clan-aceptar" /\ rest # <<>>)
        /\ g12 = (Head(line) = "/clan-rechazar" /\ rest # <<>>)
        /\ g13 = (Head(line) = "/clan-ban" /\ rest # <<>>)
        /\ g14 = (Head(line) = "/clan-kick" /\ rest # <<>>)
        /\ g15 = (line = <<"/dejar-clan">>)
        /\ g16 = (line = <<"/listar-clanes">>)
  OBVIOUS
<1>4. PICK v1, v2, v3, v4, v5, v6, v7, v8 :
        /\ v1 = Call("processDirectChatByName", 0, rest)
        /\ v2 = Call("none", 0, <<>>)
        /\ v3 = MeditateCommand
        /\ v4 = ResurrectCommand(NoNpc, <<>>)
        /\ v5 = Call("processPlayerDebugKill", 0, <<>>)
        /\ v6 = Call("processPlayerToggleInfiniteHp", 0, <<>>)
        /\ v7 = Call("processPlayerToggleInfiniteMana", 0, <<>>)
        /\ v8 = ClanFoundCommand(rest)
  OBVIOUS
<1>5. PICK v9, v10, v11, v12, v13, v14, v15, v16 :
        /\ v9 = ClanJoinCommand(rest)
        /\ v10 = ClanReviewCommand
        /\ v11 = ClanAcceptCommand(rest)
        /\ v12 = ClanRejectCommand(rest)
        /\ v13 = ClanBanCommand(rest)
        /\ v14 = ClanKickCommand(rest)
        /\ v15 = ClanLeaveCommand
        /\ v16 = ClanListCommand
  OBVIOUS
<1>6. c = CASE g1 -> v1 [] g2 -> v2 [] g3 -> v3 [] g4 -> v4
            [] g5 -> v5 [] g6 -> v6 [] g7 -> v7 [] g8 -> v8
            [] g9 -> v9 [] g10 -> v10 [] g11 -> v11 [] g12 -> v12
            [] g13 -> v13 [] g14 -> v14 [] g15 -> v15 [] g16 -> v16
            [] OTHER -> said
  BY <1>1, <1>2, <1>3, <1>4, <1>5, Zenon DEF ChatCommand
<1>7. \/ (g1 /\ c = v1) \/ (g2 /\ c = v2) \/ (g3 /\ c = v3) \/ (g4 /\ c = v4)
      \/ (g5 /\ c = v5) \/ (g6 /\ c = v6) \/ (g7 /\ c = v7) \/ (g8 /\ c = v8)
      \/ (g9 /\ c = v9) \/ (g10 /\ c = v10) \/ (g11 /\ c = v11) \/ (g12 /\ c = v12)
      \/ (g13 /\ c = v13) \/ (g14 /\ c = v14) \/ (g15 /\ c = v15) \/ (g16 /\ c = v16)
      \/ (c = said)
  BY <1>6, SMT
<1>8. ChatIs(line, rest, c)
  BY <1>1, <1>2, <1>3, <1>4, <1>5, <1>7, Zenon DEF ChatIs
<1> QED BY <1>1, <1>8

\* A line that is sent as it is does what was promised when the server takes it apart.
LEMMA SaidIsKept ==
  ASSUME NEW line
  PROVE  Kept(Typed("CHAT", 0, line, line))
<1>1. PICK r, c, rest : r = Typed("CHAT", 0, line, line) /\ c = ChatCommand(line) /\ rest = Tail(line)
  OBVIOUS
<1>2. r.op = "CHAT" /\ r.what = line /\ r.line = line
  BY <1>1, TypedIs
<1>3. executed(r) = c
  BY <1>1, <1>2 DEF executed
<1>4. ChatIs(line, rest, c)
  BY <1>1, ChatCommandIs
<1>5. CASE line \in {<<"/debug_morir">>, <<"/debug_vida_infinita">>, <<"/debug_mana_infinito">>}
  <2>1. Head(line) \in {"/debug_morir", "/debug_vida_infinita", "/debug_mana_infinito"}
    BY <1>5
  <2>2. Head(line) \notin DOMAIN Promised
    BY <2>1 DEF Promised
  <2> QED BY <1>1, <1>2, <2>2 DEF Kept
<1>6. CASE Head(line) = "@"
       /\ (c = Call("processDirectChatByName", 0, rest) \/ c = Call("none", 0, <<>>))
  <2>1. c.handler \in Promised["@"]
    BY <1>6, CallIs, PromisedIs
  <2> QED BY <1>1, <1>2, <1>3, <1>6, <2>1 DEF Kept
<1>7. CASE line = <<"/meditar">> /\ c = MeditateCommand
  <2>1. Head(line) = "/meditar" /\ c.handler \in Promised["/meditar"]
    BY <1>7, CallIs, PromisedIs DEF MeditateCommand
  <2> QED BY <1>1, <1>2, <1>3, <2>1 DEF Kept
<1>8. CASE line = <<"/resucitar">> /\ c = ResurrectCommand(NoNpc, <<>>)
  <2>1. Head(line) = "/resucitar" /\ c.handler \in Promised["/resucitar"]
    BY <1>8, CallIs, PromisedIs DEF ResurrectCommand
  <2> QED BY <1>1, <1>2, <1>3, <2>1 DEF Kept
<1>9. CASE \/ Head(line) = "/fundar-clan" /\ c = ClanFoundCommand(rest)
           \/ Head(line) = "/unirse" /\ c = ClanJoinCommand(rest)
           \/ Head(line) = "/clan-aceptar" /\ c = ClanAcceptCommand(rest)
           \/ Head(line) = "/clan-rechazar" /\ c = ClanRejectCommand(rest)
           \/ Head(line) = "/clan-ban" /\ c = ClanBanCommand(rest)
           \/ Head(line) = "/clan-kick" /\ c = ClanKickCommand(rest)
  <2>1. c.handler \in Promised[Head(line)]
    BY <1>9, CallIs, PromisedIs DEF ClanFoundCommand, ClanJoinCommand, ClanAcceptCommand,
       ClanRejectCommand, ClanBanCommand, ClanKickCommand
  <2> QED BY <1>1, <1>2, <1>3, <2>1 DEF Kept
<1>10. CASE line = <<"/revisar-clan">> /\ c = ClanReviewCommand
  <2>1. Head(line) = "/revisar-clan" /\ c.handler \in Promised["/revisar-clan"]
    BY <1>10, CallIs, PromisedIs DEF ClanReviewCommand
  <2> QED BY <1>1, <1>2, <1>3, <2>1 DEF Kept
<1>11. CASE line = <<"/dejar-clan">> /\ c = ClanLeaveCommand
  <2>1. Head(line) = "/dejar-clan" /\ c.handler \in Promised["/dejar-clan"]
    BY <1>11, CallIs, PromisedIs DEF ClanLeaveCommand
  <2> QED BY <1>1, <1>2, <1>3, <2>1 DEF Kept
<1>12. CASE line = <<"/listar-clanes">> /\ c = ClanListCommand
  <2>1. Head(line) = "/listar-clanes" /\ c.handler \in Promised["/listar-clanes"]
    BY <1>12, CallIs, PromisedIs DEF ClanListCommand
  <2> QED BY <1>1, <1>2, <1>3, <2>1 DEF Kept
<1>13. CASE c = Call("processBroadcastChat", 0, line)
  BY <1>1, <1>2, <1>3, <1>13 DEF Kept
<1> QED BY <1>4, <1>5, <1>6, <1>7, <1>8, <1>9, <1>10, <1>11, <1>12, <1>13 DEF ChatIs

-----------------------------------------------------------------------------
(***************************************************************************)
(* What is shown, and where.                                               *)
(***************************************************************************)

\* Who does not walk is drawn on its tile.
IsEntity(e) ==
  /\ DOMAIN e = {"type", "tile", "pixel", "is_moving", "body_id"}
  /\ e.is_moving \in BOOLEAN
  /\ e.is_moving \/ e.pixel = e.tile

\* The keys of the citizens of the map.
MapKeys == {citizen_entity_key(id) : id \in DOMAIN Citizens}

\* The citizens are those that no snapshot removes, and all of them are shown.
IsView(v) ==
  /\ DOMAIN v = {"entities", "static_entity_keys", "local_player_id", "inventory_slots",
                 "equipped_inventory_slots", "console", "console_scroll_offset", "heard"}
  /\ v.static_entity_keys \in {{}, MapKeys}
  /\ v.static_entity_keys \subseteq DOMAIN v.entities
  /\ \A key \in DOMAIN v.entities : IsEntity(v.entities[key])
  /\ \A key \in DOMAIN v.entities :
       v.entities[key].type = "CITIZEN" => key \in v.static_entity_keys

\* What may come after v: no citizen that was shown goes.
Leads(v, w) == IsView(w) /\ v.static_entity_keys \subseteq w.static_entity_keys

\* Who appears is drawn on its tile.
LEMMA NewIsEntity ==
  ASSUME NEW type, NEW tile, NEW body_id
  PROVE  IsEntity(NewEntity(type, tile, body_id)) /\ NewEntity(type, tile, body_id).type = type
BY DEF NewEntity, IsEntity

\* A tile more, or the same.
LEMMA MoveKeeps ==
  ASSUME NEW e, IsEntity(e), NEW to
  PROVE  IsEntity(move_to(e, to)) /\ move_to(e, to).type = e.type
<1>1. PICK after, away : after = move_to(e, to) /\ away = (e.pixel # to)
  OBVIOUS
<1>2. \/ after = e
      \/ e.tile = to /\ after = [e EXCEPT !.is_moving = away]
      \/ after = [e EXCEPT !.tile = to, !.pixel = to, !.is_moving = FALSE]
      \/ after = [e EXCEPT !.tile = to, !.is_moving = TRUE]
  BY <1>1, Zenon DEF move_to
<1>3. CASE e.tile = to /\ after = [e EXCEPT !.is_moving = away]
  <2>1. away \in BOOLEAN /\ (away \/ e.pixel = e.tile)
    BY <1>1, <1>3
  <2>2. /\ DOMAIN after = DOMAIN e /\ after.is_moving = away /\ after.pixel = e.pixel
        /\ after.tile = e.tile /\ after.type = e.type
    BY <1>3 DEF IsEntity
  <2> QED BY <1>1, <2>1, <2>2 DEF IsEntity
<1>4. CASE after = [e EXCEPT !.tile = to, !.pixel = to, !.is_moving = FALSE]
  <2>1. /\ DOMAIN after = DOMAIN e /\ after.is_moving = FALSE /\ after.pixel = to
        /\ after.tile = to /\ after.type = e.type
    BY <1>4 DEF IsEntity
  <2> QED BY <1>1, <2>1 DEF IsEntity
<1>5. CASE after = [e EXCEPT !.tile = to, !.is_moving = TRUE]
  <2>1. DOMAIN after = DOMAIN e /\ after.is_moving = TRUE /\ after.type = e.type
    BY <1>5 DEF IsEntity
  <2> QED BY <1>1, <2>1 DEF IsEntity
<1> QED BY <1>1, <1>2, <1>3, <1>4, <1>5

\* A frame more: who is not on its tile yet was walking and walks on.
LEMMA UpdateKeeps ==
  ASSUME NEW e, IsEntity(e), NEW arrives
  PROVE  IsEntity(update(e, arrives)) /\ update(e, arrives).type = e.type
<1>1. PICK after, p : after = update(e, arrives) /\ p = IF arrives THEN e.tile ELSE Between
  OBVIOUS
<1>2. \/ after = e
      \/ e.pixel # e.tile /\ after = [e EXCEPT !.pixel = p]
      \/ e.pixel = e.tile /\ after = [e EXCEPT !.is_moving = FALSE]
  BY <1>1, Zenon DEF update
<1>3. CASE e.pixel # e.tile /\ after = [e EXCEPT !.pixel = p]
  <2>1. DOMAIN after = DOMAIN e /\ after.is_moving = e.is_moving /\ after.type = e.type
    BY <1>3 DEF IsEntity
  <2> QED BY <1>1, <1>3, <2>1 DEF IsEntity
<1>4. CASE e.pixel = e.tile /\ after = [e EXCEPT !.is_moving = FALSE]
  <2>1. /\ DOMAIN after = DOMAIN e /\ after.is_moving = FALSE /\ after.pixel = e.pixel
        /\ after.tile = e.tile /\ after.type = e.type
    BY <1>4 DEF IsEntity
  <2> QED BY <1>1, <1>4, <2>1 DEF IsEntity
<1> QED BY <1>1, <1>2, <1>3, <1>4

\* Entities, of which those of type CITIZEN are among some keys.
Shown(entities, citizens) ==
  /\ \A key \in DOMAIN entities : IsEntity(entities[key])
  /\ \A key \in DOMAIN entities : entities[key].type = "CITIZEN" => key \in citizens

\* Who moves or appears.
LEMMA MovedIs ==
  ASSUME NEW entities, NEW citizens, Shown(entities, citizens),
         NEW type, type # "CITIZEN", NEW key, NEW tile, NEW body_id
  PROVE  LET e == Moved(entities, type, key, tile, body_id)
         IN  IsEntity(e) /\ (e.type = "CITIZEN" => key \in citizens)
<1>1. CASE key \in DOMAIN entities
  <2>1. PICK e : e = entities[key]
    OBVIOUS
  <2>2. IsEntity(e) /\ (e.type = "CITIZEN" => key \in citizens)
    BY <1>1, <2>1 DEF Shown
  <2>3. Moved(entities, type, key, tile, body_id) = move_to(e, tile)
    BY <1>1, <2>1 DEF Moved
  <2> QED BY <2>2, <2>3, MoveKeeps
<1>2. CASE key \notin DOMAIN entities
  BY <1>2, NewIsEntity DEF Moved
<1> QED BY <1>1, <1>2

\* The three lists of a snapshot: nobody goes.
LEMMA ListsKeep ==
  ASSUME NEW entities, NEW citizens, Shown(entities, citizens), NEW list
  PROVE  /\ Shown(update_players(entities, list), citizens)
         /\ DOMAIN entities \subseteq DOMAIN update_players(entities, list)
         /\ Shown(update_npcs(entities, list), citizens)
         /\ DOMAIN entities \subseteq DOMAIN update_npcs(entities, list)
         /\ Shown(update_floor_items(entities, list), citizens)
         /\ DOMAIN entities \subseteq DOMAIN update_floor_items(entities, list)
<1>1. ASSUME NEW after, after = update_players(entities, list)
      PROVE  Shown(after, citizens) /\ DOMAIN entities \subseteq DOMAIN after
  <2>1. PICK keys : keys = {player_entity_key(id) : id \in DOMAIN list}
    OBVIOUS
  <2>2. after = [key \in DOMAIN entities \union keys |->
                   IF key \in keys
                   THEN Moved(entities, "PLAYER", key, list[key - PLAYER_ENTITY_OFFSET], 0)
                   ELSE entities[key]]
    BY <1>1, <2>1 DEF update_players
  <2>3. DOMAIN after = DOMAIN entities \union keys
    BY <2>2
  <2>4. ASSUME NEW key \in DOMAIN after
        PROVE  IsEntity(after[key]) /\ (after[key].type = "CITIZEN" => key \in citizens)
    <3>1. CASE key \in keys
      <4>1. after[key] = Moved(entities, "PLAYER", key, list[key - PLAYER_ENTITY_OFFSET], 0)
        BY <2>2, <2>3, <2>4, <3>1
      <4>2. "PLAYER" # "CITIZEN"
        OBVIOUS
      <4> QED BY <4>1, <4>2, MovedIs
    <3>2. CASE key \notin keys
      BY <2>2, <2>3, <2>4, <3>2 DEF Shown
    <3> QED BY <3>1, <3>2
  <2> QED BY <2>3, <2>4 DEF Shown
<1>2. ASSUME NEW after, after = update_npcs(entities, list)
      PROVE  Shown(after, citizens) /\ DOMAIN entities \subseteq DOMAIN after
  <2>1. PICK keys : keys = {npc_entity_key(id) : id \in DOMAIN list}
    OBVIOUS
  <2>2. after = [key \in DOMAIN entities \union keys |->
                   IF key \in keys
                   THEN Moved(entities, "NPC", key, list[key - NPC_ENTITY_OFFSET], 0)
                   ELSE entities[key]]
    BY <1>2, <2>1 DEF update_npcs
  <2>3. DOMAIN after = DOMAIN entities \union keys
    BY <2>2
  <2>4. ASSUME NEW key \in DOMAIN after
        PROVE  IsEntity(after[key]) /\ (after[key].type = "CITIZEN" => key \in citizens)
    <3>1. CASE key \in keys
      <4>1. after[key] = Moved(entities, "NPC", key, list[key - NPC_ENTITY_OFFSET], 0)
        BY <2>2, <2>3, <2>4, <3>1
      <4>2. "NPC" # "CITIZEN"
        OBVIOUS
      <4> QED BY <4>1, <4>2, MovedIs
    <3>2. CASE key \notin keys
      BY <2>2, <2>3, <2>4, <3>2 DEF Shown
    <3> QED BY <3>1, <3>2
  <2> QED BY <2>3, <2>4 DEF Shown
<1>3. ASSUME NEW after, after = update_floor_items(entities, list)
      PROVE  Shown(after, citizens) /\ DOMAIN entities \subseteq DOMAIN after
  <2>1. PICK keys : keys = {item_entity_key(tile) : tile \in DOMAIN list}
    OBVIOUS
  <2>2. /\ DOMAIN after = DOMAIN entities \union keys
        /\ \A key \in DOMAIN after : \/ key \in DOMAIN entities /\ after[key] = entities[key]
                                     \/ \E tile, body_id : after[key] = NewEntity("ITEM", tile, body_id)
    BY <1>3, <2>1 DEF update_floor_items
  <2>3. ASSUME NEW key \in DOMAIN after
        PROVE  IsEntity(after[key]) /\ (after[key].type = "CITIZEN" => key \in citizens)
    <3>1. CASE \E tile, body_id : after[key] = NewEntity("ITEM", tile, body_id)
      <4>1. "ITEM" # "CITIZEN"
        OBVIOUS
      <4> QED BY <3>1, <4>1, NewIsEntity
    <3>2. CASE key \in DOMAIN entities /\ after[key] = entities[key]
      BY <3>2 DEF Shown
    <3> QED BY <2>2, <2>3, <3>1, <3>2
  <2> QED BY <2>2, <2>3 DEF Shown
<1> QED BY <1>1, <1>2, <1>3

\* The rest of a view.
LEMMA SameWorld ==
  ASSUME NEW v, IsView(v), NEW w, DOMAIN w = DOMAIN v, w.entities = v.entities,
         w.static_entity_keys = v.static_entity_keys
  PROVE  Leads(v, w)
BY DEF IsView, Leads

\* The slots, the player, the sounds and the console.
Beside(v, w) ==
  \E a, b : \/ w = [v EXCEPT !.console = a, !.console_scroll_offset = b]
            \/ w = [v EXCEPT !.console_scroll_offset = a]
            \/ w = [v EXCEPT !.local_player_id = a]
            \/ w = [v EXCEPT !.inventory_slots = a]
            \/ w = [v EXCEPT !.equipped_inventory_slots = a]
            \/ w = [v EXCEPT !.heard = a]

\* A step that changes nothing of the entities leaves everybody where they were.
LEMMA OtherFields ==
  ASSUME NEW v, IsView(v), NEW w, Beside(v, w)
  PROVE  Leads(v, w)
<1>1. DOMAIN w = DOMAIN v /\ w.entities = v.entities /\ w.static_entity_keys = v.static_entity_keys
  BY DEF IsView, Beside
<1> QED BY <1>1, SameWorld

\* One step and then another.
LEMMA LeadsOn ==
  ASSUME NEW u, NEW v, NEW w, Leads(u, v), Leads(v, w)
  PROVE  Leads(u, w)
BY DEF Leads

\* Lines of chat move nobody.
LEMMA LinesLead ==
  ASSUME NEW v, IsView(v), NEW lines
  PROVE  Leads(v, add_chat_messages(v, lines))
<1>1. PICK w : w = add_chat_messages(v, lines)
  OBVIOUS
<1>2. \E a, b : w = [v EXCEPT !.console = a, !.console_scroll_offset = b]
  BY <1>1 DEF add_chat_messages
<1>3. Beside(v, w)
  BY <1>2, Zenon DEF Beside
<1> QED BY <1>1, <1>3, OtherFields

\* The citizens of a map are all that is shown then.
LEMMA MapLeads ==
  ASSUME NEW v, IsView(v)
  PROVE  Leads(v, load_map(v, Citizens))
<1>1. PICK w, entities : 
        /\ w = load_map(v, Citizens)
        /\ entities = [key \in MapKeys |->
                         NewEntity("CITIZEN", Citizens[key - CITIZEN_ENTITY_OFFSET], 0)]
  OBVIOUS
<1>2. w = [v EXCEPT !.entities = entities, !.static_entity_keys = MapKeys]
  BY <1>1 DEF load_map, MapKeys
<1>3. DOMAIN w = DOMAIN v /\ w.entities = entities /\ w.static_entity_keys = MapKeys
  BY <1>2 DEF IsView
<1>4. DOMAIN entities = MapKeys /\ \A key \in MapKeys : IsEntity(entities[key])
  BY <1>1, NewIsEntity
<1> QED BY <1>1, <1>3, <1>4 DEF IsView, Leads

\* Nobody who stays in the next snapshot goes, and no citizen.
LEMMA SnapshotLeads ==
  ASSUME NEW v, IsView(v), NEW snapshot, NEW w \in update_from_snapshot(v, snapshot)
  PROVE  Leads(v, w)
<1>1. PICK citizens, e1, e2, e3, ids :
        /\ citizens = v.static_entity_keys
        /\ e1 = update_players(v.entities, snapshot.players)
        /\ e2 = update_npcs(e1, snapshot.npcs)
        /\ e3 = update_floor_items(e2, snapshot.items_on_floor)
        /\ ids = ids_en_snapshot(snapshot)
  OBVIOUS
<1>2. Shown(v.entities, citizens)
  BY <1>1 DEF IsView, Shown
<1>3. Shown(e1, citizens) /\ DOMAIN v.entities \subseteq DOMAIN e1
  BY <1>1, <1>2, ListsKeep
<1>4. Shown(e2, citizens) /\ DOMAIN e1 \subseteq DOMAIN e2
  BY <1>1, <1>3, ListsKeep
<1>5. Shown(e3, citizens) /\ DOMAIN e2 \subseteq DOMAIN e3
  BY <1>1, <1>4, ListsKeep
<1>6. PICK e4, u : /\ e4 = cleanup_stale_entities(e3, citizens, ids)
                   /\ u = update_entities(v, snapshot)
  OBVIOUS
<1>7. DOMAIN e4 = DOMAIN e3 \intersect (ids \union citizens) /\ \A key \in DOMAIN e4 : e4[key] = e3[key]
  BY <1>6 DEF cleanup_stale_entities, Restrict
<1>8. Shown(e4, citizens) /\ citizens \subseteq DOMAIN e4
  <2>1. citizens \subseteq DOMAIN e3
    BY <1>1, <1>3, <1>4, <1>5 DEF IsView
  <2> QED BY <1>5, <1>7, <2>1 DEF Shown
<1>9. u = [v EXCEPT !.entities = e4]
  BY <1>1, <1>6, Zenon DEF update_entities
<1>10. DOMAIN u = DOMAIN v /\ u.entities = e4 /\ u.static_entity_keys = citizens
  BY <1>1, <1>9 DEF IsView
<1>11. Leads(v, u)
  BY <1>1, <1>8, <1>10 DEF IsView, Leads, Shown
<1>12. \E heard : w = [u EXCEPT !.heard = heard]
  BY <1>6 DEF update_from_snapshot
<1>13. Leads(u, w)
  <2>1. Beside(u, w)
    BY <1>12, Zenon DEF Beside
  <2> QED BY <1>11, <2>1, OtherFields DEF Leads
<1> QED BY <1>11, <1>13, LeadsOn

\* A frame moves who walks, and stops who arrived.
LEMMA FrameLeads ==
  ASSUME NEW v, IsView(v), NEW arriving
  PROVE  Leads(v, update_animations(v, arriving))
<1>1. PICK w, entities :
        /\ w = update_animations(v, arriving)
        /\ entities = [key \in DOMAIN v.entities |-> update(v.entities[key], key \in arriving)]
  OBVIOUS
<1>2. w = [v EXCEPT !.entities = entities]
  BY <1>1 DEF update_animations, IsView
<1>3. DOMAIN w = DOMAIN v /\ w.entities = entities /\ w.static_entity_keys = v.static_entity_keys
  BY <1>2 DEF IsView
<1>4. DOMAIN entities = DOMAIN v.entities
  BY <1>1
<1>5. ASSUME NEW key \in DOMAIN entities
      PROVE  IsEntity(entities[key]) /\ entities[key].type = v.entities[key].type
  <2>1. PICK e, arrives : e = v.entities[key] /\ arrives = (key \in arriving)
    OBVIOUS
  <2>2. entities[key] = update(e, arrives) /\ IsEntity(e)
    BY <1>1, <1>4, <2>1 DEF IsView
  <2> QED BY <2>1, <2>2, UpdateKeeps
<1> QED BY <1>1, <1>3, <1>4, <1>5 DEF IsView, Leads

\* What an event does to the view.
LEMMA EventLeads ==
  ASSUME IsView(view), HandleEvent
  PROVE  Leads(view, view')
<1>1. PICK e : e = Head(events_queue)
  OBVIOUS
<1>2. view' \in CASE e.op = "SNAPSHOT" -> update_from_snapshot(view, Snapshots[e.arg])
                  [] e.op = "MAP_DATA" -> {load_map(view, Citizens)}
                  [] e.op = "INVENTORY_UPDATE" -> {update_inventory(view, Slots[e.arg])}
                  [] e.op = "EQUIPMENT_UPDATE" -> {update_equipment(view, Slots[e.arg])}
                  [] e.op = "CHAT_MSG" -> {handle_chat_event(e.arg)}
                  [] e.op = "TRADER_CATALOG" -> {handle_merchant_event(e.arg)}
                  [] e.op = "BANK_CONTENT" -> {handle_bank_event(e.arg)}
                  [] OTHER -> {view}
  BY <1>1 DEF HandleEvent
<1>3. \/ view' \in update_from_snapshot(view, Snapshots[e.arg])
      \/ view' = load_map(view, Citizens)
      \/ view' = update_inventory(view, Slots[e.arg])
      \/ view' = update_equipment(view, Slots[e.arg])
      \/ view' = handle_chat_event(e.arg)
      \/ view' = handle_merchant_event(e.arg)
      \/ view' = handle_bank_event(e.arg)
      \/ view' = view
  BY <1>2
<1>4. Leads(view, view)
  BY SameWorld
<1>5. CASE view' = update_inventory(view, Slots[e.arg]) \/ view' = update_equipment(view, Slots[e.arg])
  <2>1. Beside(view, view')
    BY <1>5, Zenon DEF update_inventory, update_equipment, Beside
  <2> QED BY <2>1, OtherFields
<1>6. CASE \/ view' = handle_chat_event(e.arg)
           \/ view' = handle_merchant_event(e.arg)
           \/ view' = handle_bank_event(e.arg)
  <2>1. view' = view \/ \E lines : view' = add_chat_messages(view, lines)
    BY <1>6 DEF handle_chat_event, handle_merchant_event, handle_bank_event, add_chat_message
  <2> QED BY <1>4, <2>1, LinesLead
<1> QED BY <1>3, <1>4, <1>5, <1>6, SnapshotLeads, MapLeads

\* Whatever happens, the view stays one, and no citizen that was shown goes.
LEMMA StepLeads ==
  ASSUME IsView(view), Next
  PROVE  Leads(view, view')
<1>1. Leads(view, view)
  BY SameWorld
<1>2. CASE view' = view
  BY <1>1, <1>2
<1>3. CASE ReceiveLogin
  <2>1. PICK e : view' = IF e.more THEN handle_login_event(e) ELSE view
    BY <1>3 DEF ReceiveLogin
  <2>2. \/ view' = handle_login_success
        \/ view' = load_map(view, Citizens)
        \/ view' = update_inventory(view, Slots[e.arg])
        \/ view' = view
    BY <2>1 DEF handle_login_event
  <2>3. CASE view' = handle_login_success
    <3>1. PICK u : u = add_chat_messages(view, <<"bienvenido", "escribi /help">>)
      OBVIOUS
    <3>2. view' = [u EXCEPT !.local_player_id = Me] /\ Leads(view, u)
      BY <2>3, <3>1, LinesLead DEF handle_login_success
    <3>3. Leads(u, view')
      <4>1. Beside(u, view')
        BY <3>2, Zenon DEF Beside
      <4> QED BY <3>2, <4>1, OtherFields DEF Leads
    <3> QED BY <3>2, <3>3, LeadsOn
  <2>4. CASE view' = update_inventory(view, Slots[e.arg])
    <3>1. Beside(view, view')
      BY <2>4, Zenon DEF update_inventory, Beside
    <3> QED BY <3>1, OtherFields
  <2> QED BY <1>1, <2>2, <2>3, <2>4, MapLeads
<1>4. CASE HandleEvent
  BY <1>4, EventLeads
<1>5. CASE Scroll
  <2>1. PICK delta : view' = scroll_console(view, delta)
    BY <1>5 DEF Scroll
  <2>2. Beside(view, view')
    BY <2>1, Zenon DEF scroll_console, Beside
  <2> QED BY <2>2, OtherFields
<1>6. CASE EnterLine
  <2>1. view' = view \/ view' = process_help_command
    BY <1>6 DEF EnterLine
  <2> QED BY <1>1, <2>1, LinesLead DEF process_help_command
<1>7. CASE EndFrame
  BY <1>7, FrameLeads DEF EndFrame
<1>8. ServerSteps => view' = view
  BY DEF ServerSteps, ServerReads, ServerGoes, ServerBroadcasts, ServerSends, screen
<1>9. ASSUME UserSteps, ~Scroll, ~EnterLine PROVE view' = view
  BY <1>9 DEF UserSteps, Quit, SetChatActive, DebugKey, DoubleClick, SelectSlot, ClickEntity,
     ClickNobody, Move
<1>10. ASSUME MainSteps, ~ReceiveLogin, ~HandleEvent, ~EndFrame PROVE view' = view
  BY <1>10 DEF MainSteps, sendLogin, StartThreads, BeginFrame, EventsHandled, CloseFails, CloseSocket,
     CloseQueues, Join, MenuAsks, MenuIsAnswered, screen
<1>11. recvEventClient \/ SenderSteps \/ SkipLogin => view' = view
  BY DEF recvEventClient, SenderSteps, sendCmd, SenderEnds, SkipLogin, screen
<1> QED BY <1>2, <1>3, <1>4, <1>5, <1>6, <1>7, <1>8, <1>9, <1>10, <1>11 DEF Next

\* The view before the first message has nobody in it.
LEMMA InitView == Init => IsView(view)
BY DEF Init, IsView, NoView

\* Who does not walk is drawn on the tile the server has it on: whatever snapshots,
\* frames and maps come, the constructor, move_to and update keep it so.
THEOREM RestCorrect == Spec => []RestIsHome
<1>1. IsView(view) /\ [Next]_vars => IsView(view)'
  BY StepLeads DEF vars, screen, Leads
<1>2. IsView(view) => RestIsHome
  BY DEF IsView, IsEntity, RestIsHome
<1> QED BY <1>1, <1>2, InitView, PTL DEF Spec

-----------------------------------------------------------------------------
(***************************************************************************)
(* What is asked of the server.                                            *)
(***************************************************************************)

\* A request of the game, which keeps what was promised of its line and asks things
\* of a citizen that is shown.
Wanted(r, citizens) ==
  /\ r.op \in Asked /\ Kept(r)
  /\ r.op \in {"INTERACT", "LIST_ITEMS"} => citizen_entity_key(r.id) \in citizens

AllWanted(s, citizens) == IsSeq(s) /\ \A i \in 1 .. Len(s) : Wanted(s[i], citizens)

\* A set of at most one thing, in order.
LEMMA SetToSeqIs ==
  ASSUME NEW s, NEW S, s = SetToSeq(S)
  PROVE  /\ S = {} => DOMAIN s = 1 .. 0
         /\ \A x : S = {x} => DOMAIN s = 1 .. 1 /\ s[1] = x
<1>1. CASE S = {}
  <2>1. Cardinality(S) = 0
    BY <1>1, FS_EmptySet
  <2>2. \E f \in [1 .. 0 -> S] : IsInjective(f)
    <3>1. PICK f : f = [i \in 1 .. 0 |-> 0]
      OBVIOUS
    <3>2. f \in [1 .. 0 -> S] /\ IsInjective(f)
      BY <3>1 DEF IsInjective
    <3> QED BY <3>2
  <2>3. s \in [1 .. 0 -> S]
    BY <2>1, <2>2 DEF SetToSeq
  <2> QED BY <1>1, <2>3
<1>2. ASSUME NEW x, S = {x} PROVE DOMAIN s = 1 .. 1 /\ s[1] = x
  <2>1. Cardinality(S) = 1
    BY <1>2, FS_Singleton
  <2>2. \E f \in [1 .. 1 -> S] : IsInjective(f)
    <3>1. PICK f : f = [i \in 1 .. 1 |-> x]
      OBVIOUS
    <3>2. f \in [1 .. 1 -> S] /\ IsInjective(f)
      BY <1>2, <3>1 DEF IsInjective
    <3> QED BY <3>2
  <2>3. s \in [1 .. 1 -> S]
    BY <2>1, <2>2 DEF SetToSeq
  <2> QED BY <1>2, <2>3
<1> QED BY <1>1, <1>2

\* "/tirar" asks at most once.
LEMMA DropIs ==
  ASSUME NEW line, NEW sel, sel = {} \/ \E x : sel = {x},
         NEW rs, rs = DropRequests(line, sel)
  PROVE  \/ DOMAIN rs = 1 .. 0
         \/ DOMAIN rs = 1 .. 1 /\ \E slot : rs[1] = Request("DROP_ITEM", slot, <<>>)
<1>1. PICK S, n : S = {Request("DROP_ITEM", slot, <<>>) : slot \in sel} /\ n = (Number[line[2]] - 1) % 256
  OBVIOUS
<1>2. rs = SetToSeq(S) \/ rs = <<>> \/ rs = <<Request("DROP_ITEM", n, <<>>)>>
  BY <1>1 DEF DropRequests
<1>3. CASE rs = SetToSeq(S)
  <2>1. CASE sel = {}
    BY <1>1, <1>3, <2>1, SetToSeqIs
  <2>2. ASSUME NEW x, sel = {x} PROVE DOMAIN rs = 1 .. 1 /\ rs[1] = Request("DROP_ITEM", x, <<>>)
    <3>1. S = {Request("DROP_ITEM", x, <<>>)}
      BY <1>1, <2>2
    <3> QED BY <1>3, <3>1, SetToSeqIs
  <2> QED BY <2>1, <2>2
<1>4. CASE rs = <<>>
  BY <1>4
<1>5. CASE rs = <<Request("DROP_ITEM", n, <<>>)>>
  BY <1>5
<1> QED BY <1>2, <1>3, <1>4, <1>5

\* "/tomar" and "/tirar" are for nobody but the player, and the help does not tell of them.
LEMMA FloorIsKept ==
  ASSUME NEW line, NEW opcode, NEW id, NEW what, NEW citizens,
         \/ line = <<"/tomar">> /\ opcode = "TAKE_ITEM"
         \/ Head(line) = "/tirar" /\ opcode = "DROP_ITEM"
  PROVE  Wanted(Typed(opcode, id, what, line), citizens)
<1>1. PICK r : r = Typed(opcode, id, what, line)
  OBVIOUS
<1>2. r.op = opcode /\ r.line = line
  BY <1>1, TypedIs
<1>3. Head(line) \in {"/tomar", "/tirar"}
  OBVIOUS
<1>4. Head(line) \notin DOMAIN Promised
  BY <1>3 DEF Promised
<1>5. opcode \in Asked /\ opcode \notin {"INTERACT", "LIST_ITEMS"}
  BY DEF Asked, ToServer
<1> QED BY <1>1, <1>2, <1>4, <1>5 DEF Wanted, Kept

\* What a line asks for, with the citizen and the slot that are selected.
LEMMA LineAsks ==
  ASSUME NEW line, NEW npc, NEW sel, sel = {} \/ \E x : sel = {x}, NEW citizens,
         npc # NoNpc => citizen_entity_key(npc) \in citizens
  PROVE  AllWanted(ChatCommandClient(line, npc, sel), citizens)
<1>1. PICK to_npc, rs : /\ to_npc = IF npc = NoNpc THEN <<>> ELSE RequestsToNpc(line, npc)
                        /\ rs = ChatCommandClient(line, npc, sel)
  OBVIOUS
<1>2. PICK requests :
        /\ requests = CASE to_npc # <<>> -> to_npc
                        [] to_npc = <<>> /\ line = <<"/tomar">> -> <<Request("TAKE_ITEM", 0, <<>>)>>
                        [] to_npc = <<>> /\ Head(line) = "/tirar" -> DropRequests(line, sel)
                        [] OTHER -> <<Request("CHAT", 0, line)>>
        /\ rs = [i \in DOMAIN requests |-> [requests[i] EXCEPT !.line = line]]
  BY <1>1, Zenon DEF ChatCommandClient
<1>3. \/ requests = to_npc /\ to_npc # <<>>
      \/ line = <<"/tomar">> /\ requests = <<Request("TAKE_ITEM", 0, <<>>)>>
      \/ Head(line) = "/tirar" /\ requests = DropRequests(line, sel)
      \/ requests = <<Request("CHAT", 0, line)>>
  BY <1>2
<1>4. \/ DOMAIN requests = 1 .. 0
      \/ DOMAIN requests = 1 .. 1 /\ \E opcode, id, what :
           requests[1] = Request(opcode, id, what) /\ Wanted(Typed(opcode, id, what, line), citizens)
  <2>1. CASE requests = to_npc /\ to_npc # <<>>
    <3>1. PICK opcode, what : requests = <<Request(opcode, npc, what)>> /\ NpcAsks(line, opcode, what)
      BY <1>1, <2>1, NpcRequestIs
    <3>2. npc # NoNpc
      BY <1>1, <2>1
    <3>3. opcode \in Asked /\ Kept(Typed(opcode, npc, what, line))
      BY <3>1, NpcRequestIsKept
    <3>4. Wanted(Typed(opcode, npc, what, line), citizens)
      BY <3>2, <3>3, TypedIs DEF Wanted
    <3>5. DOMAIN requests = 1 .. 1 /\ requests[1] = Request(opcode, npc, what)
      BY <3>1
    <3> QED BY <3>4, <3>5
  <2>2. CASE line = <<"/tomar">> /\ requests = <<Request("TAKE_ITEM", 0, <<>>)>>
    <3>1. DOMAIN requests = 1 .. 1 /\ requests[1] = Request("TAKE_ITEM", 0, <<>>)
      BY <2>2
    <3> QED BY <2>2, <3>1, FloorIsKept
  <2>3. CASE Head(line) = "/tirar" /\ requests = DropRequests(line, sel)
    BY <2>3, DropIs, FloorIsKept
  <2>4. CASE requests = <<Request("CHAT", 0, line)>>
    <3>1. DOMAIN requests = 1 .. 1 /\ requests[1] = Request("CHAT", 0, line)
      BY <2>4
    <3>2. "CHAT" \in Asked
      BY DEF Asked, ToServer
    <3>3. Wanted(Typed("CHAT", 0, line, line), citizens)
      BY <3>2, SaidIsKept, TypedIs DEF Wanted
    <3> QED BY <3>1, <3>3
  <2> QED BY <1>3, <2>1, <2>2, <2>3, <2>4
<1>5. DOMAIN rs = DOMAIN requests
  BY <1>2
<1>6. CASE DOMAIN requests = 1 .. 0
  <2>1. rs = [i \in 1 .. 0 |-> rs[i]]
    BY <1>2, <1>5, <1>6
  <2>2. IsSeq(rs) /\ Len(rs) = 0
    BY <1>5, <1>6, <2>1, PlacesAre
  <2> QED BY <1>1, <2>2 DEF AllWanted
<1>7. ASSUME DOMAIN requests = 1 .. 1, NEW opcode, NEW id, NEW what,
             requests[1] = Request(opcode, id, what), Wanted(Typed(opcode, id, what, line), citizens)
      PROVE  AllWanted(rs, citizens)
  <2>1. rs = [i \in 1 .. 1 |-> rs[i]]
    BY <1>2, <1>5, <1>7
  <2>2. IsSeq(rs) /\ Len(rs) = 1
    BY <1>5, <1>7, <2>1, PlacesAre
  <2>3. rs[1] = [requests[1] EXCEPT !.line = line]
    BY <1>2, <1>7
  <2>4. rs[1] = Typed(opcode, id, what, line)
    BY <1>7, <2>3, TypedIs
  <2> QED BY <1>7, <2>2, <2>4 DEF AllWanted
<1> QED BY <1>1, <1>4, <1>6, <1>7

\* What is under way to the server: in a game nobody signs up.
Sent(r, citizens, m) ==
  /\ r.op \in ToServer /\ Kept(r) /\ (m = "GAME" => r.op # "SIGNUP")
  /\ r.op \in {"INTERACT", "LIST_ITEMS"} => citizen_entity_key(r.id) \in citizens

AllSent(s, citizens, m) == IsSeq(s) /\ \A i \in 1 .. Len(s) : Sent(s[i], citizens, m)

\* At most one slot is selected, and only a citizen that is shown.
Chosen(ch, citizens) ==
  /\ DOMAIN ch = {"active", "selected_npc_id", "selected_slot"}
  /\ ch.selected_slot = {} \/ \E x : ch.selected_slot = {x}
  /\ ch.selected_npc_id # NoNpc => citizen_entity_key(ch.selected_npc_id) \in citizens

Asks ==
  /\ Chosen(chat, view.static_entity_keys)
  /\ AllWanted(cmd_queue, view.static_entity_keys)
  /\ AllSent(to_server, view.static_entity_keys, mode)

\* The citizens that are shown may get more.
LEMMA MoreCitizens ==
  ASSUME NEW s, NEW t, NEW c, NEW d, c \subseteq d, NEW m, NEW ch,
         Chosen(ch, c), AllWanted(s, c), AllSent(t, c, m)
  PROVE  Chosen(ch, d) /\ AllWanted(s, d) /\ AllSent(t, d, m)
BY DEF Chosen, AllWanted, AllSent, Wanted, Sent

\* Nothing.
LEMMA NoneAreSent ==
  ASSUME NEW c, NEW m
  PROVE  AllSent(<<>>, c, m) /\ AllWanted(<<>>, c)
BY ShortOnes DEF AllSent, AllWanted

\* Some more are pushed.
LEMMA PushKeeps ==
  ASSUME NEW s, NEW t, NEW c, AllWanted(s, c), AllWanted(t, c)
  PROVE  AllWanted(s \o t, c)
<1>1. IsSeq(s) /\ IsSeq(t)
  BY DEF AllWanted
<1>2. PICK u : u = s \o t
  OBVIOUS
<1>3. /\ IsSeq(u) /\ Len(s) \in Nat /\ Len(t) \in Nat /\ Len(u) = Len(s) + Len(t)
      /\ \A i \in 1 .. Len(s) : u[i] = s[i]
      /\ \A i \in 1 .. Len(t) : u[Len(s) + i] = t[i]
  BY <1>1, <1>2, ConcatIs
<1>4. ASSUME NEW i \in 1 .. Len(u) PROVE Wanted(u[i], c)
  <2>1. CASE i <= Len(s)
    <3>1. i \in 1 .. Len(s)
      BY <1>3, <2>1
    <3> QED BY <1>3, <3>1 DEF AllWanted
  <2>2. CASE ~(i <= Len(s))
    <3>1. PICK j : j = i - Len(s)
      OBVIOUS
    <3>2. j \in 1 .. Len(t) /\ Len(s) + j = i
      BY <1>3, <2>2, <3>1
    <3>3. u[i] = t[j]
      BY <1>3, <3>2
    <3> QED BY <3>2, <3>3 DEF AllWanted
  <2> QED BY <2>1, <2>2
<1> QED BY <1>2, <1>3, <1>4 DEF AllWanted

\* One more is sent.
LEMMA SentKeeps ==
  ASSUME NEW s, NEW c, NEW m, AllSent(s, c, m), NEW r, Sent(r, c, m)
  PROVE  AllSent(Append(s, r), c, m)
<1>1. IsSeq(s)
  BY DEF AllSent
<1>2. PICK u : u = Append(s, r)
  OBVIOUS
<1>3. /\ IsSeq(u) /\ Len(s) \in Nat /\ Len(u) = Len(s) + 1 /\ u[Len(s) + 1] = r
      /\ \A i \in 1 .. Len(s) : u[i] = s[i]
  BY <1>1, <1>2, AppendIs
<1>4. ASSUME NEW i \in 1 .. Len(u) PROVE Sent(u[i], c, m)
  <2>1. i \in 1 .. Len(s) \/ i = Len(s) + 1
    BY <1>3
  <2> QED BY <1>3, <2>1 DEF AllSent
<1> QED BY <1>2, <1>3, <1>4 DEF AllSent

\* The first is popped.
LEMMA PopKeeps ==
  ASSUME NEW s, NEW c, NEW m, AllWanted(s, c), s # <<>>
  PROVE  AllWanted(Tail(s), c) /\ Sent(Head(s), c, m)
<1>1. IsSeq(s)
  BY DEF AllWanted
<1>2. PICK t : t = Tail(s)
  OBVIOUS
<1>3. /\ IsSeq(t) /\ Len(s) \in Nat \ {0} /\ Len(t) = Len(s) - 1 /\ Head(s) = s[1]
      /\ \A i \in 1 .. Len(t) : t[i] = s[i + 1]
  BY <1>1, <1>2, TailIs
<1>4. ASSUME NEW i \in 1 .. Len(t) PROVE Wanted(t[i], c)
  <2>1. i + 1 \in 1 .. Len(s)
    BY <1>3
  <2> QED BY <1>3, <2>1 DEF AllWanted
<1>5. Wanted(s[1], c)
  BY <1>3 DEF AllWanted
<1> QED BY <1>2, <1>3, <1>4, <1>5 DEF AllWanted, Wanted, Sent, Asked

\* What is asked with a key or the mouse was not typed.
LEMMA KeyAsks ==
  ASSUME NEW opcode \in Asked \ {"INTERACT", "LIST_ITEMS"}, NEW id, NEW what, NEW c
  PROVE  AllWanted(<<Request(opcode, id, what)>>, c)
<1>1. PICK r : r = Request(opcode, id, what)
  OBVIOUS
<1>2. r.op = opcode /\ r.line = <<>>
  BY <1>1 DEF Request
<1>3. Wanted(r, c)
  BY <1>2 DEF Wanted, Kept
<1> QED BY <1>1, <1>3, ShortOnes DEF AllWanted

\* Who enters or asks from the menu.
LEMMA EntryIsSent ==
  ASSUME NEW opcode \in {"LOGIN", "SIGNUP"}, NEW c, NEW m, m = "GAME" => opcode # "SIGNUP"
  PROVE  Sent(Request(opcode, 0, <<>>), c, m)
<1>1. PICK r : r = Request(opcode, 0, <<>>)
  OBVIOUS
<1>2. r.op = opcode /\ r.line = <<>>
  BY <1>1 DEF Request
<1>3. opcode \in ToServer /\ opcode \notin {"INTERACT", "LIST_ITEMS"}
  BY DEF ToServer
<1> QED BY <1>1, <1>2, <1>3 DEF Sent, Kept

\* A send sends or does not.
LEMMA SendIs ==
  ASSUME NEW r, NEW c, NEW m, Send(r), Sent(r, c, m), AllSent(to_server, c, m)
  PROVE  AllSent(to_server', c, m)
<1>1. to_server' = Append(to_server, r) \/ to_server' = to_server
  BY DEF Send, wire
<1> QED BY <1>1, SentKeeps

\* Who is clicked on in the world, of type CITIZEN, is a citizen.
LEMMA CitizenIsHit ==
  ASSUME IsView(view), NEW hit \in get_entity_at_screen(view), hit.type = "CITIZEN"
  PROVE  citizen_entity_key(hit.id) \in view.static_entity_keys
<1>1. PICK key \in DOMAIN view.entities :
        /\ hit.type = view.entities[key].type
        /\ hit.id = key - CASE view.entities[key].type = "NPC" -> NPC_ENTITY_OFFSET
                            [] view.entities[key].type = "CITIZEN" -> CITIZEN_ENTITY_OFFSET
                            [] view.entities[key].type = "PLAYER" -> PLAYER_ENTITY_OFFSET
  BY DEF get_entity_at_screen
<1>2. view.entities[key].type = "CITIZEN"
  BY <1>1
<1>3. hit.id = key - CITIZEN_ENTITY_OFFSET
  BY <1>1, <1>2
<1>4. key \in view.static_entity_keys
  BY <1>2 DEF IsView
<1>5. key \in MapKeys
  BY <1>4 DEF IsView
<1>6. key \in Int
  BY <1>5, ClientAssumption DEF MapKeys, citizen_entity_key, CITIZEN_ENTITY_OFFSET
<1>7. citizen_entity_key(hit.id) = key
  BY <1>3, <1>6 DEF citizen_entity_key, CITIZEN_ENTITY_OFFSET
<1> QED BY <1>4, <1>7

\* The inputs of the user.
LEMMA UserAsks ==
  ASSUME IsView(view), Asks, UserSteps, NEW c, c = view.static_entity_keys
  PROVE  Chosen(chat', c) /\ AllWanted(cmd_queue', c) /\ to_server' = to_server
<1>1. Chosen(chat, c) /\ AllWanted(cmd_queue, c)
  BY DEF Asks
<1>2. to_server' = to_server
  BY DEF UserSteps, Quit, SetChatActive, DebugKey, DoubleClick, SelectSlot, ClickEntity,
     ClickNobody, Scroll, EnterLine, Move, Input, wire
<1>3. ASSUME NEW commands, AllWanted(commands, c), Push(commands) PROVE AllWanted(cmd_queue', c)
  BY <1>1, <1>3, PushKeeps DEF Push
<1>4. CASE Quit \/ Scroll
  BY <1>1, <1>2, <1>4 DEF Quit, Scroll
<1>5. CASE SetChatActive
  <2>1. chat' = [chat EXCEPT !.active = ~@] /\ cmd_queue' = cmd_queue
    BY <1>5 DEF SetChatActive
  <2>2. Chosen(chat', c)
    BY <1>1, <2>1 DEF Chosen
  <2> QED BY <1>1, <1>2, <2>1, <2>2
<1>6. CASE DebugKey
  <2>1. PICK word \in DebugWords : Push(ChatCommandClient(<<word>>, NoNpc, {})) /\ chat' = chat
    BY <1>6 DEF DebugKey
  <2>2. AllWanted(ChatCommandClient(<<word>>, NoNpc, {}), c)
    BY LineAsks
  <2> QED BY <1>1, <1>2, <1>3, <2>1, <2>2
<1>7. CASE DoubleClick
  <2>1. chat' = chat /\ \E slot : \/ Push(<<Request("UNEQUIP_ITEM", slot, <<>>)>>)
                                  \/ Push(<<Request("EQUIP_ITEM", slot, <<>>)>>)
    BY <1>7 DEF DoubleClick
  <2>2. {"UNEQUIP_ITEM", "EQUIP_ITEM"} \subseteq Asked \ {"INTERACT", "LIST_ITEMS"}
    BY DEF Asked, ToServer
  <2>3. ASSUME NEW slot
        PROVE  /\ AllWanted(<<Request("UNEQUIP_ITEM", slot, <<>>)>>, c)
               /\ AllWanted(<<Request("EQUIP_ITEM", slot, <<>>)>>, c)
    BY <2>2, KeyAsks
  <2> QED BY <1>1, <1>2, <1>3, <2>1, <2>3
<1>8. CASE SelectSlot
  <2>1. PICK slot : chat' = [chat EXCEPT !.selected_slot = {slot}] /\ cmd_queue' = cmd_queue
    BY <1>8 DEF SelectSlot
  <2>2. Chosen(chat', c)
    BY <1>1, <2>1 DEF Chosen
  <2> QED BY <1>1, <1>2, <2>1, <2>2
<1>9. CASE ClickEntity
  <2>1. PICK hit \in get_entity_at_screen(view) :
          IF hit.type = "CITIZEN"
          THEN chat' = [chat EXCEPT !.selected_npc_id = hit.id] /\ UNCHANGED cmd_queue
          ELSE Push(<<Request("ATTACK", hit.id, <<>>)>>) /\ UNCHANGED chat
    BY <1>9 DEF ClickEntity
  <2>2. CASE hit.type = "CITIZEN"
    <3>1. chat' = [chat EXCEPT !.selected_npc_id = hit.id] /\ cmd_queue' = cmd_queue
      BY <2>1, <2>2
    <3>2. citizen_entity_key(hit.id) \in c
      BY <2>2, CitizenIsHit
    <3>3. Chosen(chat', c)
      BY <1>1, <3>1, <3>2 DEF Chosen
    <3> QED BY <1>1, <1>2, <3>1, <3>3
  <2>3. CASE hit.type # "CITIZEN"
    <3>1. Push(<<Request("ATTACK", hit.id, <<>>)>>) /\ chat' = chat
      BY <2>1, <2>3
    <3>2. "ATTACK" \in Asked \ {"INTERACT", "LIST_ITEMS"}
      BY DEF Asked, ToServer
    <3>3. AllWanted(<<Request("ATTACK", hit.id, <<>>)>>, c)
      BY <3>2, KeyAsks
    <3> QED BY <1>1, <1>2, <1>3, <3>1, <3>3
  <2> QED BY <2>2, <2>3
<1>10. CASE ClickNobody
  <2>1. chat' = [chat EXCEPT !.selected_npc_id = NoNpc] /\ cmd_queue' = cmd_queue
    BY <1>10 DEF ClickNobody
  <2>2. Chosen(chat', c)
    BY <1>1, <2>1 DEF Chosen
  <2> QED BY <1>1, <1>2, <2>1, <2>2
<1>11. CASE EnterLine
  <2>1. PICK line : Push(IF line \in {<<>>, <<"/help">>} THEN <<>>
                         ELSE ChatCommandClient(line, chat.selected_npc_id, chat.selected_slot))
    BY <1>11 DEF EnterLine
  <2>2. PICK npc, sel : npc = chat.selected_npc_id /\ sel = chat.selected_slot
    OBVIOUS
  <2>3. (sel = {} \/ \E x : sel = {x}) /\ (npc # NoNpc => citizen_entity_key(npc) \in c)
    BY <1>1, <2>2 DEF Chosen
  <2>4. AllWanted(ChatCommandClient(line, npc, sel), c) /\ AllWanted(<<>>, c)
    BY <2>3, LineAsks, NoneAreSent
  <2>5. Push(<<>>) \/ Push(ChatCommandClient(line, npc, sel))
    BY <2>1, <2>2
  <2>6. chat' = [chat EXCEPT !.active = FALSE, !.selected_npc_id = NoNpc]
    BY <1>11 DEF EnterLine
  <2>7. Chosen(chat', c)
    BY <1>1, <2>6 DEF Chosen
  <2> QED BY <1>2, <1>3, <2>4, <2>5, <2>7
<1>12. CASE Move
  <2>1. Push(<<Request("MOVE", 0, <<>>)>>) /\ chat' = chat
    BY <1>12 DEF Move
  <2>2. "MOVE" \in Asked \ {"INTERACT", "LIST_ITEMS"}
    BY DEF Asked, ToServer
  <2>3. AllWanted(<<Request("MOVE", 0, <<>>)>>, c)
    BY <2>2, KeyAsks
  <2> QED BY <1>1, <1>2, <1>3, <2>1, <2>3
<1> QED BY <1>4, <1>5, <1>6, <1>7, <1>8, <1>9, <1>10, <1>11, <1>12 DEF UserSteps

\* A program is started for one thing.
LEMMA ModeStays == Next => mode' = mode
BY DEF Next, ServerSteps, ServerReads, ServerGoes, ServerBroadcasts, ServerSends, UserSteps, Quit,
     SetChatActive, DebugKey, DoubleClick, SelectSlot, ClickEntity, ClickNobody, Scroll, EnterLine,
     Move, Input, SkipLogin, MainSteps, sendLogin, ReceiveLogin, StartThreads, BeginFrame,
     HandleEvent, EventsHandled, EndFrame, CloseFails, CloseSocket, CloseQueues, Join, MenuAsks,
     MenuIsAnswered, recvEventClient, SenderSteps, sendCmd, SenderEnds

\* Every step.
LEMMA StepAsks ==
  ASSUME Control, IsView(view), Asks, Next
  PROVE  Asks'
<1>1. PICK c, d : c = view.static_entity_keys /\ d = view'.static_entity_keys
  OBVIOUS
<1>2. c \subseteq d
  BY <1>1, StepLeads DEF Leads
<1>3. mode' = mode
  BY ModeStays
<1>4. Chosen(chat, c) /\ AllWanted(cmd_queue, c) /\ AllSent(to_server, c, mode)
  BY <1>1 DEF Asks
<1>5. ASSUME UserSteps
      PROVE  Chosen(chat', c) /\ AllWanted(cmd_queue', c) /\ to_server' = to_server
  BY <1>1, <1>4, <1>5, UserAsks
<1>6. ASSUME ~UserSteps PROVE chat' = chat
  BY <1>6 DEF Next, ServerSteps, ServerReads, ServerGoes, ServerBroadcasts, ServerSends,
     SkipLogin, MainSteps, sendLogin, ReceiveLogin, StartThreads, BeginFrame,
     HandleEvent, EventsHandled, EndFrame, CloseFails, CloseSocket, CloseQueues, Join, MenuAsks,
     MenuIsAnswered, recvEventClient, SenderSteps, sendCmd, SenderEnds, screen
<1>7. ASSUME sendCmd
      PROVE  AllWanted(cmd_queue', c) /\ AllSent(to_server', c, mode)
  <2>1. /\ cmd_queue # <<>> /\ cmd_queue' = Tail(cmd_queue)
        /\ (Send(Head(cmd_queue)) \/ to_server' = to_server)
    BY <1>7 DEF sendCmd, SendThrows, wire
  <2>2. AllWanted(cmd_queue', c) /\ Sent(Head(cmd_queue), c, mode)
    BY <1>4, <2>1, PopKeeps
  <2> QED BY <1>4, <2>1, <2>2, SendIs
<1>8. ASSUME ~UserSteps, ~sendCmd PROVE cmd_queue' = cmd_queue
  BY <1>8 DEF Next, ServerSteps, ServerReads, ServerGoes, ServerBroadcasts, ServerSends,
     SkipLogin, MainSteps, sendLogin, ReceiveLogin, StartThreads, BeginFrame,
     HandleEvent, EventsHandled, EndFrame, CloseFails, CloseSocket, CloseQueues, Join, MenuAsks,
     MenuIsAnswered, recvEventClient, SenderSteps, SenderEnds, queues
<1>9. ASSUME ServerReads \/ ServerGoes PROVE AllSent(to_server', c, mode)
  BY <1>9, NoneAreSent DEF ServerReads, ServerGoes
<1>10. ASSUME sendLogin PROVE AllSent(to_server', c, mode)
  <2>1. Send(Request("LOGIN", 0, <<>>)) \/ to_server' = to_server
    BY <1>10 DEF sendLogin, SendThrows, wire
  <2>2. Sent(Request("LOGIN", 0, <<>>), c, mode)
    BY EntryIsSent
  <2> QED BY <1>4, <2>1, <2>2, SendIs
<1>11. ASSUME MenuAsks PROVE AllSent(to_server', c, mode)
  <2>1. (Send(Request(mode, 0, <<>>)) \/ to_server' = to_server) /\ main = "menu"
    BY <1>11 DEF MenuAsks, SendThrows, wire
  <2>2. mode \in {"LOGIN", "SIGNUP"}
    BY <2>1 DEF Control, GamePlaces
  <2>3. Sent(Request(mode, 0, <<>>), c, mode)
    BY <2>2, EntryIsSent
  <2> QED BY <1>4, <2>1, <2>3, SendIs
<1>12. ASSUME ~UserSteps, ~sendCmd, ~ServerReads, ~ServerGoes, ~sendLogin, ~MenuAsks
       PROVE  to_server' = to_server
  BY <1>12 DEF Next, ServerSteps, ServerBroadcasts, ServerSends,
     SkipLogin, MainSteps, ReceiveLogin, StartThreads, BeginFrame,
     HandleEvent, EventsHandled, EndFrame, CloseFails, CloseSocket, CloseQueues, Join,
     MenuIsAnswered, recvEventClient, SenderSteps, SenderEnds, wire, Receive
<1>13. Chosen(chat', c) /\ AllWanted(cmd_queue', c) /\ AllSent(to_server', c, mode)
  <2>1. Chosen(chat', c)
    BY <1>4, <1>5, <1>6
  <2>2. AllWanted(cmd_queue', c)
    BY <1>4, <1>5, <1>7, <1>8
  <2>3. AllSent(to_server', c, mode)
    BY <1>4, <1>5, <1>7, <1>9, <1>10, <1>11, <1>12
  <2> QED BY <2>1, <2>2, <2>3
<1>14. Chosen(chat', d) /\ AllWanted(cmd_queue', d) /\ AllSent(to_server', d, mode)
  BY <1>2, <1>13, MoreCitizens
<1> QED BY <1>1, <1>3, <1>14 DEF Asks

\* At the start nothing is asked.
LEMMA InitAsks == Init => Asks
BY NoneAreSent DEF Init, Asks, Chosen, ChatManager

\* What is asked of a citizen is asked of one that is shown, and every request is read
\* in step and does what was promised of its line.
LEMMA AsksKeepTheirMeaning ==
  ASSUME IsView(view), Asks
  PROVE  RequestsKeepTheirMeaning
<1>1. PICK c : c = view.static_entity_keys
  OBVIOUS
<1>2. c \subseteq DOMAIN view.entities
  BY <1>1 DEF IsView
<1>3. Chosen(chat, c) /\ AllWanted(cmd_queue, c) /\ AllSent(to_server, c, mode)
  BY <1>1 DEF Asks
<1>4. ASSUME NEW r \in Requests
      PROVE  /\ r.op \in ToServer /\ Kept(r)
             /\ r.op \in {"INTERACT", "LIST_ITEMS"} => citizen_entity_key(r.id) \in c
  <2>1. \/ \E i \in DOMAIN cmd_queue : r = cmd_queue[i]
        \/ \E i \in DOMAIN to_server : r = to_server[i]
    BY DEF Requests, Range
  <2>2. DOMAIN cmd_queue = 1 .. Len(cmd_queue) /\ DOMAIN to_server = 1 .. Len(to_server)
    BY <1>3 DEF AllWanted, AllSent, IsSeq
  <2> QED BY <1>3, <2>1, <2>2 DEF AllWanted, AllSent, Wanted, Sent, Asked
<1>5. CitizensStay
  BY <1>2, <1>3, <1>4 DEF CitizensStay, Chosen
<1>6. ASSUME NEW r \in Requests PROVE r.op \in ReadInStep
  BY <1>4, AllIsReadInStep
<1> QED BY <1>4, <1>5, <1>6 DEF RequestsKeepTheirMeaning, Kept

-----------------------------------------------------------------------------
(***************************************************************************)
(* What is read as garbage.                                                *)
(***************************************************************************)

\* All of it is read in step.
AllSaid(s) == \A i \in 1 .. Len(s) : s[i].op \in ToClient

\* Nobody but the game has events, and to a game only the messages that it reads in
\* step are sent.
Said ==
  /\ IsSeq(events_queue)
  /\ mode # "GAME" => events_queue = <<>>
  /\ mode = "GAME" => AllSaid(to_client)

\* After garbage comes the end.
GarbageEnds ==
  \A i \in 1 .. Len(events_queue) :
    events_queue[i].op = "garbage" =>
      /\ conn # "open" /\ to_client = <<>>
      /\ \A j \in 1 .. Len(events_queue) : j > i => events_queue[j].op = "DISCONNECTION"

\* What is written to a game.
LEMMA GameIsTold ==
  ASSUME Control, Asks, Said, mode = "GAME", ServerSteps
  PROVE  AllSaid(to_client')
<1>1. AllSaid(to_client) /\ IsSeq(to_client)
  BY DEF Said, Control, IsSeq
<1>2. ASSUME NEW ms, IsSeq(ms), AllSaid(ms), to_client' = to_client \o ms PROVE AllSaid(to_client')
  <2>1. PICK u : u = to_client'
    OBVIOUS
  <2>2. /\ Len(to_client) \in Nat /\ Len(ms) \in Nat /\ Len(u) = Len(to_client) + Len(ms)
        /\ \A i \in 1 .. Len(to_client) : u[i] = to_client[i]
        /\ \A i \in 1 .. Len(ms) : u[Len(to_client) + i] = ms[i]
    BY <1>1, <1>2, <2>1, ConcatIs
  <2>3. ASSUME NEW i \in 1 .. Len(u) PROVE u[i].op \in ToClient
    <3>1. CASE i \in 1 .. Len(to_client)
      BY <1>1, <2>2, <3>1 DEF AllSaid
    <3>2. CASE i \notin 1 .. Len(to_client)
      <4>1. PICK j : j = i - Len(to_client)
        OBVIOUS
      <4>2. j \in 1 .. Len(ms) /\ Len(to_client) + j = i
        BY <2>2, <3>2, <4>1
      <4> QED BY <1>2, <2>2, <4>2 DEF AllSaid
    <3> QED BY <3>1, <3>2
  <2> QED BY <2>1, <2>3 DEF AllSaid
<1>3. ASSUME NEW opcode \in ToClient, NEW field, to_client' = Append(to_client, Message(opcode, field))
      PROVE  AllSaid(to_client')
  <2>1. PICK u, m : u = to_client' /\ m = Message(opcode, field)
    OBVIOUS
  <2>2. /\ Len(to_client) \in Nat /\ Len(u) = Len(to_client) + 1 /\ u[Len(to_client) + 1] = m
        /\ \A i \in 1 .. Len(to_client) : u[i] = to_client[i]
    BY <1>1, <1>3, <2>1, AppendIs
  <2>3. m.op = opcode
    BY <2>1 DEF Message
  <2>4. ASSUME NEW i \in 1 .. Len(u) PROVE u[i].op \in ToClient
    <3>1. i \in 1 .. Len(to_client) \/ i = Len(to_client) + 1
      BY <2>2
    <3> QED BY <1>1, <2>2, <2>3, <3>1 DEF AllSaid
  <2> QED BY <2>1, <2>4 DEF AllSaid
<1>4. CASE ServerReads
  <2>1. to_server # <<>> /\ AllSent(to_server, view.static_entity_keys, mode)
    BY <1>4 DEF ServerReads, Asks
  <2>2. Head(to_server).op # "SIGNUP"
    <3>1. IsSeq(to_server)
      BY <2>1 DEF AllSent
    <3>2. Len(to_server) \in Nat \ {0} /\ Head(to_server) = to_server[1]
      BY <2>1, <3>1, TailIs
    <3> QED BY <2>1, <3>2 DEF AllSent, Sent
  <2>3. to_client' = to_client \/ \E ok \in BOOLEAN : to_client' = to_client \o processHandleLogin(ok)
    BY <1>4, <2>2 DEF ServerReads
  <2>4. ASSUME NEW ok \in BOOLEAN
        PROVE  IsSeq(processHandleLogin(ok)) /\ AllSaid(processHandleLogin(ok))
    <3>1. PICK ms : ms = processHandleLogin(ok)
      OBVIOUS
    <3>2. IsSeq(ms)
      BY <3>1, AnswersAre DEF IsSeq
    <3>3. PICK a, b, c, d, e :
            /\ a = Message("LOGIN_RESPONSE", 1) /\ b = Message("MAP_DATA", 0)
            /\ c = Message("INVENTORY_UPDATE", 1) /\ d = Message("EQUIPMENT_UPDATE", 1)
            /\ e = Message("LOGIN_RESPONSE", 0)
      OBVIOUS
    <3>4. a.op = "LOGIN_RESPONSE" /\ b.op = "MAP_DATA" /\ c.op = "INVENTORY_UPDATE"
      BY <3>3 DEF Message
    <3>5. d.op = "EQUIPMENT_UPDATE" /\ e.op = "LOGIN_RESPONSE"
      BY <3>3 DEF Message
    <3>6. ms = <<a, b, c, d>> \/ ms = <<e>>
      BY <3>1, <3>3 DEF processHandleLogin
    <3>7. \A i \in 1 .. Len(ms) : ms[i] \in {a, b, c, d, e}
      BY <3>6
    <3>8. AllSaid(ms)
      BY <3>4, <3>5, <3>7 DEF AllSaid, ToClient
    <3> QED BY <3>1, <3>2, <3>8
  <2> QED BY <1>1, <1>2, <2>3, <2>4
<1>5. CASE ServerGoes
  <2>1. PICK n \in 0 .. Len(to_client), cut \in BOOLEAN :
          to_client' = [i \in 1 .. n |-> [to_client[i] EXCEPT !.cut = cut /\ i = n]]
    BY <1>5 DEF ServerGoes
  <2>2. to_client \in Seq(Messages) /\ Len(to_client) \in Nat
    BY LenProperties DEF Control
  <2>3. n \in Nat /\ 1 .. n \subseteq 1 .. Len(to_client)
    BY <2>2
  <2>4. ASSUME NEW i \in 1 .. n PROVE to_client'[i].op \in ToClient
    <3>1. PICK m, last : m = to_client[i] /\ last = (cut /\ i = n)
      OBVIOUS
    <3>2. m \in Messages /\ m.op \in ToClient
      BY <1>1, <2>2, <2>3, <3>1, ElementOfSeq DEF AllSaid
    <3>3. to_client'[i] = [m EXCEPT !.cut = last]
      BY <2>1, <3>1
    <3> QED BY <3>2, <3>3 DEF Messages
  <2>5. Len(to_client') = n
    <3>1. PICK u : u = to_client'
      OBVIOUS
    <3>2. DOMAIN u = 1 .. n /\ u = [i \in 1 .. n |-> u[i]]
      BY <2>1, <3>1
    <3> QED BY <2>3, <3>1, <3>2, PlacesAre
  <2> QED BY <2>4, <2>5 DEF AllSaid
<1>6. ASSUME NEW i, ServerBroadcasts(i) PROVE AllSaid(to_client')
  <2>1. to_client' = Append(to_client, Message("SNAPSHOT", i)) /\ "SNAPSHOT" \in ToClient
    BY <1>6 DEF ServerBroadcasts, ToClient
  <2> QED BY <1>3, <2>1
<1>7. ASSUME NEW m \in UpdatesOfSlots \cup sendCombatMessage \cup processBroadcastChat
                         \cup processListItems, ServerSends(m)
      PROVE  AllSaid(to_client')
  <2>1. \E opcode \in ToClient : \E field : m = Message(opcode, field)
    <3>1. {"INVENTORY_UPDATE", "EQUIPMENT_UPDATE", "CHAT_MSG"} \cup Lists \subseteq ToClient
      BY ClientAssumption DEF ToClient
    <3> QED BY <1>7, <3>1 DEF UpdatesOfSlots, sendCombatMessage, processBroadcastChat, processListItems
  <2>2. to_client' = Append(to_client, m)
    BY <1>7 DEF ServerSends
  <2> QED BY <1>3, <2>1, <2>2
<1> QED BY <1>4, <1>5, <1>6, <1>7 DEF ServerSteps

\* The first is taken.
LEMMA RestIsSaid ==
  ASSUME NEW s, IsSeq(s), s # <<>>, AllSaid(s)
  PROVE  AllSaid(Tail(s)) /\ Head(s).op \in ToClient
<1>1. PICK t : t = Tail(s)
  OBVIOUS
<1>2. /\ Len(s) \in Nat \ {0} /\ Len(t) = Len(s) - 1 /\ Head(s) = s[1]
      /\ \A i \in 1 .. Len(t) : t[i] = s[i + 1]
  BY <1>1, TailIs
<1>3. ASSUME NEW i \in 1 .. Len(t) PROVE t[i].op \in ToClient
  <2>1. i + 1 \in 1 .. Len(s)
    BY <1>2
  <2> QED BY <1>2, <2>1 DEF AllSaid
<1>4. s[1].op \in ToClient
  BY <1>2 DEF AllSaid
<1> QED BY <1>1, <1>2, <1>3, <1>4 DEF AllSaid

\* What is read by a game is read in step, unless it is cut.
LEMMA OnlyCutIsGarbage ==
  ASSUME Control, Said, mode = "GAME", NEW e, Receive(e), e.op = "garbage"
  PROVE  conn # "open" /\ to_client' = <<>>
<1>1. e \in Receivable /\ to_client' = (IF to_client = <<>> THEN <<>> ELSE Tail(to_client))
  BY DEF Receive
<1>2. to_client # <<>>
  <2>1. ASSUME NEW x, NEW y, NEW z, x # "garbage" PROVE Event(x, y, z).op # "garbage"
    BY <2>1 DEF Event
  <2>2. SUFFICES ASSUME to_client = <<>> PROVE FALSE
    OBVIOUS
  <2>3. e = Event("error", 0, FALSE) \/ e = Event("DISCONNECTION", 0, FALSE)
    BY <1>1, <2>2 DEF Receivable, Control
  <2> QED BY <2>1, <2>3
<1>3. PICK m : m = Head(to_client)
  OBVIOUS
<1>4. IsSeq(to_client) /\ AllSaid(to_client)
  BY DEF Said, Control, IsSeq
<1>5. m.op \in ToClient
  BY <1>2, <1>3, <1>4, RestIsSaid
<1>6. m.op \in ReadInStep
  BY <1>5, AllIsReadInStep
<1>7. m.cut
  <2>1. SUFFICES ASSUME ~m.cut PROVE FALSE
    OBVIOUS
  <2>2. e = Event(m.op, m.arg, TRUE)
    BY <1>1, <1>2, <1>3, <1>6, <2>1 DEF Receivable
  <2>3. e.op = m.op
    BY <2>2 DEF Event
  <2> QED BY <1>5, <2>3 DEF ToClient
<1>8. /\ Len(to_client) \in Nat \ {0} /\ m = to_client[1] /\ IsSeq(Tail(to_client))
      /\ Len(Tail(to_client)) = Len(to_client) - 1
  BY <1>2, <1>3, <1>4, TailIs
<1>9. Len(to_client) = 1 /\ conn # "open"
  <2>1. 1 \in 1 .. Len(to_client) /\ to_client[1].cut
    BY <1>7, <1>8
  <2>2. CutIsLast
    BY DEF Control
  <2> QED BY <2>1, <2>2, Zenon DEF CutIsLast
<1>10. Tail(to_client) = <<>>
  <2>1. PICK t : t = Tail(to_client)
    OBVIOUS
  <2>2. IsSeq(t) /\ Len(t) = 0
    BY <1>8, <1>9, <2>1
  <2> QED BY <2>1, <2>2, EmptySeq DEF IsSeq
<1> QED BY <1>1, <1>2, <1>9, <1>10

\* Who has gone does not come back, and says nothing more.
LEMMA GoneIsGone ==
  ASSUME Control, Next, conn # "open"
  PROVE  conn' # "open" /\ (to_client = <<>> => to_client' = <<>>)
<1>1. ~ServerSteps
  BY DEF ServerSteps, ServerReads, ServerGoes, ServerBroadcasts, ServerSends
<1>2. ASSUME SendThrows \/ \E m : Send(m)
      PROVE  conn' # "open" /\ (to_client = <<>> => to_client' = <<>>)
  BY <1>2, SendKeeps
<1>3. CASE sendCmd \/ sendLogin \/ MenuAsks
  BY <1>2, <1>3 DEF sendCmd, sendLogin, MenuAsks
<1>4. CASE recvEventClient \/ ReceiveLogin
  <2>1. PICK e : Receive(e)
    BY <1>4 DEF recvEventClient, ReceiveLogin
  <2> QED BY <2>1 DEF Receive
<1>5. CASE CloseSocket
  BY <1>5 DEF CloseSocket
<1>6. ASSUME ~sendCmd, ~sendLogin, ~MenuAsks, ~recvEventClient, ~ReceiveLogin, ~CloseSocket
      PROVE  conn' = conn /\ to_client' = to_client
  BY <1>1, <1>6 DEF Next, UserSteps, Quit, SetChatActive, DebugKey, DoubleClick, SelectSlot,
     ClickEntity, ClickNobody, Scroll, EnterLine, Move, Input, SkipLogin, MainSteps, StartThreads,
     BeginFrame, HandleEvent, EventsHandled, EndFrame, CloseFails, CloseQueues, Join,
     MenuIsAnswered, SenderSteps, SenderEnds, wire
<1> QED BY <1>3, <1>4, <1>5, <1>6

\* What is read is all of the game's.
LEMMA StepSaid ==
  ASSUME Control, Asks, Said, Next, mode' = mode
  PROVE  Said'
<1>1. IsSeq(events_queue') /\ (mode # "GAME" => events_queue' = <<>>)
  <2>1. CASE events_queue' = events_queue
    BY <2>1 DEF Said
  <2>2. CASE HandleEvent
    <3>1. events_queue # <<>> /\ events_queue' = Tail(events_queue)
      BY <2>2 DEF HandleEvent
    <3> QED BY <3>1, TailIs DEF Said
  <2>3. CASE recvEventClient
    <3>1. mode = "GAME"
      BY <2>3 DEF recvEventClient, Control
    <3>2. events_queue' = events_queue \/ \E e : events_queue' = Append(events_queue, e)
      BY <2>3 DEF recvEventClient
    <3> QED BY <3>1, <3>2, AppendIs DEF Said
  <2>4. ASSUME ~HandleEvent, ~recvEventClient PROVE events_queue' = events_queue
    BY <2>4 DEF Next, ServerSteps, ServerReads, ServerGoes, ServerBroadcasts, ServerSends, UserSteps,
       Quit, SetChatActive, DebugKey, DoubleClick, SelectSlot, ClickEntity, ClickNobody, Scroll,
       EnterLine, Move, Input, SkipLogin, MainSteps, sendLogin, ReceiveLogin, StartThreads,
       BeginFrame, EventsHandled, EndFrame, CloseFails, CloseSocket, CloseQueues, Join, MenuAsks,
       MenuIsAnswered, SenderSteps, sendCmd, SenderEnds, queues
  <2> QED BY <2>1, <2>2, <2>3, <2>4
<1>2. ASSUME mode = "GAME" PROVE AllSaid(to_client')
  <2>1. AllSaid(to_client) /\ IsSeq(to_client)
    BY <1>2 DEF Said, Control, IsSeq
  <2>2. CASE to_client' = to_client
    BY <2>1, <2>2
  <2>3. CASE ServerSteps
    BY <1>2, <2>3, GameIsTold
  <2>4. CASE recvEventClient \/ ReceiveLogin
    <3>1. to_client' = IF to_client = <<>> THEN <<>> ELSE Tail(to_client)
      BY <2>4 DEF recvEventClient, ReceiveLogin, Receive
    <3> QED BY <2>1, <3>1, RestIsSaid
  <2>5. CASE sendCmd \/ sendLogin \/ MenuAsks
    <3>1. SendThrows \/ \E m : Send(m)
      BY <2>5 DEF sendCmd, sendLogin, MenuAsks
    <3> QED BY <2>1, <3>1, SendKeeps
  <2>6. ASSUME ~ServerSteps, ~recvEventClient, ~ReceiveLogin, ~sendCmd, ~sendLogin, ~MenuAsks
        PROVE  to_client' = to_client
    BY <2>6 DEF Next, UserSteps, Quit, SetChatActive, DebugKey, DoubleClick, SelectSlot,
       ClickEntity, ClickNobody, Scroll, EnterLine, Move, Input, SkipLogin, MainSteps, StartThreads,
       BeginFrame, HandleEvent, EventsHandled, EndFrame, CloseFails, CloseSocket, CloseQueues, Join,
       MenuIsAnswered, SenderSteps, SenderEnds, wire
  <2> QED BY <2>2, <2>3, <2>4, <2>5, <2>6
<1> QED BY <1>1, <1>2 DEF Said

\* After garbage the connection is gone and nothing is left, so that only its end comes.
LEMMA StepEnds ==
  ASSUME Control, Said, GarbageEnds, Next
  PROVE  GarbageEnds'
<1>1. ASSUME NEW i \in 1 .. Len(events_queue), events_queue[i].op = "garbage"
      PROVE  conn' # "open" /\ to_client' = <<>>
  BY <1>1, GoneIsGone DEF GarbageEnds
<1>2. IsSeq(events_queue)
  BY DEF Said
<1>3. CASE events_queue' = events_queue
  BY <1>1, <1>3 DEF GarbageEnds
<1>4. CASE HandleEvent
  <2>1. PICK t : t = Tail(events_queue)
    OBVIOUS
  <2>2. events_queue # <<>> /\ events_queue' = t
    BY <1>4, <2>1 DEF HandleEvent
  <2>3. /\ Len(events_queue) \in Nat \ {0} /\ Len(t) = Len(events_queue) - 1
        /\ \A i \in 1 .. Len(t) : t[i] = events_queue[i + 1]
    BY <1>2, <2>1, <2>2, TailIs
  <2>4. ASSUME NEW i \in 1 .. Len(t), t[i].op = "garbage"
        PROVE  /\ conn' # "open" /\ to_client' = <<>>
               /\ \A j \in 1 .. Len(t) : j > i => t[j].op = "DISCONNECTION"
    <3>1. i + 1 \in 1 .. Len(events_queue) /\ events_queue[i + 1].op = "garbage"
      BY <2>3, <2>4
    <3>2. ASSUME NEW j \in 1 .. Len(t), j > i PROVE t[j].op = "DISCONNECTION"
      <4>1. j + 1 \in 1 .. Len(events_queue) /\ j + 1 > i + 1 /\ t[j] = events_queue[j + 1]
        BY <2>3, <3>2
      <4> QED BY <3>1, <4>1 DEF GarbageEnds
    <3> QED BY <1>1, <3>1, <3>2
  <2> QED BY <2>2, <2>4 DEF GarbageEnds
<1>5. CASE recvEventClient /\ events_queue' # events_queue
  <2>1. PICK e : /\ Receive(e) /\ e.op # "error"
                 /\ events_queue' = Append(events_queue, e)
    BY <1>5 DEF recvEventClient
  <2>2. PICK u : u = events_queue'
    OBVIOUS
  <2>3. /\ Len(events_queue) \in Nat /\ Len(u) = Len(events_queue) + 1
        /\ u[Len(events_queue) + 1] = e
        /\ \A i \in 1 .. Len(events_queue) : u[i] = events_queue[i]
    BY <1>2, <2>1, <2>2, AppendIs
  <2>4. mode = "GAME"
    BY <1>5 DEF recvEventClient, Control
  <2>5. ASSUME NEW i \in 1 .. Len(u), u[i].op = "garbage"
        PROVE  /\ conn' # "open" /\ to_client' = <<>>
               /\ \A j \in 1 .. Len(u) : j > i => u[j].op = "DISCONNECTION"
    <3>1. CASE i = Len(events_queue) + 1
      <4>1. e.op = "garbage"
        BY <2>3, <2>5, <3>1
      <4>2. conn # "open" /\ to_client' = <<>>
        BY <2>1, <2>4, <4>1, OnlyCutIsGarbage
      <4>3. conn' # "open"
        BY <4>2, GoneIsGone
      <4>4. \A j \in 1 .. Len(u) : ~(j > i)
        BY <2>3, <3>1
      <4> QED BY <4>2, <4>3, <4>4
    <3>2. CASE i # Len(events_queue) + 1
      <4>1. i \in 1 .. Len(events_queue) /\ events_queue[i].op = "garbage"
        BY <2>3, <2>5, <3>2
      <4>2. /\ conn # "open" /\ to_client = <<>>
            /\ \A j \in 1 .. Len(events_queue) : j > i => events_queue[j].op = "DISCONNECTION"
        BY <4>1 DEF GarbageEnds
      <4>3. e.op = "DISCONNECTION"
        <5>1. e \in Receivable
          BY <2>1 DEF Receive
        <5>2. e = Event("error", 0, FALSE) \/ e = Event("DISCONNECTION", 0, FALSE)
          BY <4>2, <5>1 DEF Receivable, Control
        <5> QED BY <2>1, <5>2 DEF Event
      <4>4. ASSUME NEW j \in 1 .. Len(u), j > i PROVE u[j].op = "DISCONNECTION"
        <5>1. j \in 1 .. Len(events_queue) \/ j = Len(events_queue) + 1
          BY <2>3
        <5> QED BY <2>3, <4>2, <4>3, <4>4, <5>1
      <4> QED BY <1>1, <4>1, <4>4
    <3> QED BY <3>1, <3>2
  <2> QED BY <2>2, <2>5 DEF GarbageEnds
<1>6. ASSUME ~HandleEvent, ~recvEventClient PROVE events_queue' = events_queue
  BY <1>6 DEF Next, ServerSteps, ServerReads, ServerGoes, ServerBroadcasts, ServerSends, UserSteps,
     Quit, SetChatActive, DebugKey, DoubleClick, SelectSlot, ClickEntity, ClickNobody, Scroll,
     EnterLine, Move, Input, SkipLogin, MainSteps, sendLogin, ReceiveLogin, StartThreads,
     BeginFrame, EventsHandled, EndFrame, CloseFails, CloseSocket, CloseQueues, Join, MenuAsks,
     MenuIsAnswered, SenderSteps, sendCmd, SenderEnds, queues
<1> QED BY <1>3, <1>4, <1>5, <1>6

-----------------------------------------------------------------------------
\* What the game keeps, of its connection, its view, its requests and its events.
GameInv == Control /\ IsView(view) /\ Asks /\ Said /\ GarbageEnds

\* All of it is kept, together: what is asked needs the view, and what is said to the
\* game needs what was asked.
LEMMA GameInvariant == Spec => []GameInv
<1>1. Init => GameInv
  <2>1. Init => Said /\ GarbageEnds
    BY ShortOnes DEF Init, Said, GarbageEnds, AllSaid
  <2> QED BY <2>1, InitControl, InitView, InitAsks DEF GameInv
<1>2. GameInv /\ [Next]_vars => GameInv'
  <2>1. CASE GameInv /\ Next
    <3>1. Control /\ IsView(view) /\ Asks /\ Said /\ GarbageEnds
      BY <2>1 DEF GameInv
    <3>2. Control' /\ IsView(view)' /\ Asks'
      BY <2>1, <3>1, StepControl, StepLeads, StepAsks DEF Leads
    <3>3. Said' /\ GarbageEnds'
      BY <2>1, <3>1, StepSaid, StepEnds, ModeStays
    <3> QED BY <3>2, <3>3 DEF GameInv
  <2>2. CASE GameInv /\ UNCHANGED vars
    BY <2>2 DEF GameInv, vars, threads, queues, wire, screen, peer, Control, CutIsLast, IsView, Asks,
       Said, GarbageEnds
  <2> QED BY <2>1, <2>2
<1> QED BY <1>1, <1>2, PTL DEF Spec

\* Every message of the server is read field by field as it was written, so that only
\* one that the end of the connection cut is garbage, and after it comes the end.
THEOREM GarbageCorrect == Spec => []GarbageIsLast
<1>1. GameInv => GarbageIsLast
  <2>1. SUFFICES ASSUME GameInv PROVE GarbageIsLast
    OBVIOUS
  <2>2. DOMAIN events_queue = 1 .. Len(events_queue) /\ Len(events_queue) \in Nat
    BY <2>1 DEF GameInv, Said, IsSeq
  <2>3. ASSUME NEW i \in 1 .. Len(events_queue), NEW j \in i + 1 .. Len(events_queue)
        PROVE  j \in 1 .. Len(events_queue) /\ j > i
    BY <2>2
  <2> QED BY <2>1, <2>2, <2>3 DEF GameInv, GarbageEnds, GarbageIsLast
<1> QED BY <1>1, GameInvariant, PTL

\* What the user asked is asked of a citizen that is still shown, is read in step by
\* the server and does what the help promises of the line it was typed as.
THEOREM RequestsCorrect == Spec => []RequestsKeepTheirMeaning
<1>1. GameInv => RequestsKeepTheirMeaning
  BY AsksKeepTheirMeaning DEF GameInv
<1> QED BY <1>1, GameInvariant, PTL

-----------------------------------------------------------------------------
(***************************************************************************)
(* Nothing is lost: of everything that the server said last, either it is  *)
(* on its way to the screen or the screen shows it.                        *)
(***************************************************************************)

\* What events and messages say, the events first.
Told(events, messages) ==
  [i \in 1 .. Len(events) + Len(messages) |->
     IF i <= Len(events) THEN <<events[i].op, events[i].arg>>
     ELSE <<messages[i - Len(events)].op, messages[i - Len(events)].arg>>]

\* What is on its way to the screen.
Pending == Told(events_queue, to_client)

\* The last of a kind, from the k-th on, says x.
Newest(p, k, kind, x) ==
  \E i \in k .. Len(p) : p[i] = <<kind, x>> /\ \A j \in i + 1 .. Len(p) : p[j][1] # kind

\* None of a kind comes from the k-th on.
Silent(p, k, kind) == \A i \in k .. Len(p) : p[i][1] # kind

\* What a game may be sent once it plays.
Sendable(m) ==
  \/ m[1] = "SNAPSHOT" /\ m[2] \in DOMAIN Snapshots
  \/ m[1] \in {"INVENTORY_UPDATE", "EQUIPMENT_UPDATE"} /\ m[2] \in DOMAIN Slots
  \/ m[1] \in {"TRADER_CATALOG", "BANK_CONTENT"} /\ m[2] \in Nat
  \/ m[1] \in {"CHAT_MSG", "MAP_DATA"}

Legal(p, k) == \A i \in k .. Len(p) : Sendable(p[i])

\* The sounds that were played, of those there were.
HeardIs(heard, effects) ==
  /\ heard \subseteq effects
  /\ \A s \in effects \ heard :
       \/ \E t \in heard : is_same_sound_nearby(t, s)
       \/ /\ Cardinality(heard) = MAX_SOUNDS_PER_SNAPSHOT
          /\ \A t \in heard : sound_effect_priority(t.id) >= sound_effect_priority(s.id)

\* Who is in a snapshot, and where.
Here(v, snapshot) ==
  /\ DOMAIN v.entities \ v.static_entity_keys = ids_en_snapshot(snapshot)
  /\ \A id \in DOMAIN snapshot.players :
       v.entities[player_entity_key(id)].tile = snapshot.players[id]
  /\ \A id \in DOMAIN snapshot.npcs : v.entities[npc_entity_key(id)].tile = snapshot.npcs[id]

\* What the server s broadcast last is shown, and nothing before it did.
Shows(v, s) ==
  IF s.snapshot = 0 THEN DOMAIN v.entities \subseteq v.static_entity_keys
  ELSE /\ Here(v, Snapshots[s.snapshot])
       /\ s.answer = "accepted" /\ Me \in DOMAIN Snapshots[s.snapshot].players =>
            HeardIs(v.heard, Range(Snapshots[s.snapshot].sound_effects))

\* Things have keys of their own.
Apart(entities) ==
  \A key \in DOMAIN entities :
    entities[key].type = "ITEM" => key \in Int /\ key >= ITEM_ENTITY_OFFSET

\* The console keeps to its size, and is scrolled to a line that it has.
IsScreen(v) ==
  /\ Apart(v.entities)
  /\ IsSeq(v.console) /\ Len(v.console) <= MAX_CHAT_LOG_SIZE
  /\ v.console_scroll_offset \in 0 .. max_scroll(v.console)

\* The map is the next message, or was taken.
MapIsDue(p, k, v) ==
  \/ /\ k <= Len(p) /\ p[k] = <<"MAP_DATA", 0>> /\ Silent(p, k + 1, "MAP_DATA")
     /\ DOMAIN v.entities = {} /\ v.static_entity_keys = {}
  \/ Silent(p, k, "MAP_DATA") /\ v.static_entity_keys = MapKeys

\* Each of the things the server s said last is still to come, or is shown: of the
\* slots,
SlotsAreDue(p, k, v, s) ==
  /\ \/ Newest(p, k, "INVENTORY_UPDATE", s.inventory)
     \/ Silent(p, k, "INVENTORY_UPDATE") /\ v.inventory_slots = Slots[s.inventory]
  /\ \/ Newest(p, k, "EQUIPMENT_UPDATE", s.equipment)
     \/ Silent(p, k, "EQUIPMENT_UPDATE") /\ equipment_slot_at(v) = DOMAIN Slots[s.equipment]

\* of the texts,
TextIsDue(p, k, v, s) ==
  \/ s.text \in Spoken \cup {"none"} \cup Range(v.console)
  \/ Len(v.console) = MAX_CHAT_LOG_SIZE
  \/ \E i \in k .. Len(p) : p[i] = <<"CHAT_MSG", s.text>>

\* and of the world.
WorldIsDue(p, k, v, s) ==
  \/ Newest(p, k, "SNAPSHOT", s.snapshot)
  \/ Silent(p, k, "SNAPSHOT") /\ Shows(v, s)

\* All of it, of a session or of a connection that has none.
Due(p, k, v, s) ==
  /\ Legal(p, k) /\ IsScreen(v)
  /\ IF s.answer = "accepted"
     THEN MapIsDue(p, k, v) /\ SlotsAreDue(p, k, v, s) /\ TextIsDue(p, k, v, s)
     ELSE Silent(p, k, "MAP_DATA") /\ v.static_entity_keys = {}
  /\ WorldIsDue(p, k, v, s)

\* The answer to the login, and what comes after it.
Answered(p, k, s) ==
  /\ p[k - 1] = <<"LOGIN_RESPONSE", IF s.answer = "accepted" THEN 1 ELSE 0>>
  /\ \A i \in 1 .. k - 2 : p[i][1] = "SNAPSHOT"

NoLogin(requests) == \A i \in 1 .. Len(requests) : requests[i].op # "LOGIN"

Entering ==
  /\ view = NoView /\ events_queue = <<>> /\ receiver = "new" /\ sender = "new"
  /\ main = "login" => server.answer = "none" /\ NoLogin(to_server) /\ Due(Pending, 1, view, server)
  /\ server.answer = "none" => \A i \in 1 .. Len(Pending) : Pending[i][1] = "SNAPSHOT"
  /\ server.answer # "none" =>
       /\ NoLogin(to_server)
       /\ \E k \in 2 .. Len(Pending) + 1 : Answered(Pending, k, server) /\ Due(Pending, k, view, server)

Playing ==
  /\ NoLogin(to_server)
  /\ Due(Pending, 1, view, server)
  /\ server.answer = "accepted" => view.local_player_id = Me

EnterPlaces == {"login", "waiting"}

PlayPlaces == {"starting", "loop", "events", "input"}

NothingIsLost ==
  mode = "GAME" /\ conn = "open" =>
    /\ main \in EnterPlaces => ~queues_closed /\ Entering
    /\ main \in PlayPlaces => ~queues_closed /\ Playing
-----------------------------------------------------------------------------
(***************************************************************************)
(* Messages that come and go.                                              *)
(***************************************************************************)

\* One more came, x.
Longer(p, r, x) ==
  /\ Len(p) \in Nat /\ Len(r) = Len(p) + 1 /\ r[Len(p) + 1] = x
  /\ \A i \in 1 .. Len(p) : r[i] = p[i]

\* The first was taken.
Shorter(p, r) ==
  /\ Len(p) \in Nat \ {0} /\ Len(r) = Len(p) - 1
  /\ \A i \in 1 .. Len(r) : r[i] = p[i + 1]

\* What came is the last of its kind, and of the other kinds nothing came.
LEMMA KindsComing ==
  ASSUME NEW p, NEW r, NEW x, Longer(p, r, x), NEW k \in Nat \ {0}, k <= Len(p) + 1
  PROVE  /\ \A kind, y : x = <<kind, y>> => Newest(r, k, kind, y)
         /\ \A kind, y : x[1] # kind /\ Newest(p, k, kind, y) => Newest(r, k, kind, y)
         /\ \A kind : x[1] # kind /\ Silent(p, k, kind) => Silent(r, k, kind)
<1>1. PICK n : n = Len(p)
  OBVIOUS
<1>2. n \in Nat /\ Len(r) = n + 1 /\ r[n + 1] = x /\ \A i \in 1 .. n : r[i] = p[i]
  BY <1>1 DEF Longer
<1>3. ASSUME NEW kind, NEW y, x = <<kind, y>> PROVE Newest(r, k, kind, y)
  <2>1. n + 1 \in k .. Len(r) /\ r[n + 1] = <<kind, y>>
    BY <1>1, <1>2, <1>3
  <2>2. ASSUME NEW j \in (n + 1) + 1 .. Len(r) PROVE FALSE
    BY <1>2
  <2> QED BY <2>1, <2>2 DEF Newest
<1>4. ASSUME NEW kind, NEW y, x[1] # kind, Newest(p, k, kind, y) PROVE Newest(r, k, kind, y)
  <2>1. PICK i \in k .. n : p[i] = <<kind, y>> /\ \A j \in i + 1 .. n : p[j][1] # kind
    BY <1>1, <1>4 DEF Newest
  <2>2. i \in 1 .. n /\ i \in k .. Len(r) /\ r[i] = <<kind, y>>
    BY <1>2, <2>1
  <2>3. ASSUME NEW j \in i + 1 .. Len(r) PROVE r[j][1] # kind
    <3>1. j = n + 1 \/ (j \in i + 1 .. n /\ j \in 1 .. n)
      BY <1>2, <2>2
    <3> QED BY <1>2, <1>4, <2>1, <3>1
  <2> QED BY <2>2, <2>3 DEF Newest
<1>5. ASSUME NEW kind, x[1] # kind, Silent(p, k, kind) PROVE Silent(r, k, kind)
  <2>1. ASSUME NEW j \in k .. Len(r) PROVE r[j][1] # kind
    <3>1. j = n + 1 \/ (j \in k .. n /\ j \in 1 .. n)
      BY <1>2
    <3> QED BY <1>1, <1>2, <1>5, <3>1 DEF Silent
  <2> QED BY <2>1 DEF Silent
<1> QED BY <1>3, <1>4, <1>5

\* When the first is taken what comes later is one place nearer.
LEMMA KindsNearer ==
  ASSUME NEW p, NEW r, Shorter(p, r), NEW k \in Nat \ {0}
  PROVE  /\ \A kind, y : Newest(p, k + 1, kind, y) => Newest(r, k, kind, y)
         /\ \A kind : Silent(p, k + 1, kind) => Silent(r, k, kind)
<1>1. PICK n : n = Len(r)
  OBVIOUS
<1>2. n \in Nat /\ Len(p) = n + 1 /\ \A i \in 1 .. n : r[i] = p[i + 1]
  BY <1>1 DEF Shorter
<1>3. ASSUME NEW kind, NEW y, Newest(p, k + 1, kind, y) PROVE Newest(r, k, kind, y)
  <2>1. PICK i \in k + 1 .. n + 1 : p[i] = <<kind, y>> /\ \A j \in i + 1 .. n + 1 : p[j][1] # kind
    BY <1>2, <1>3 DEF Newest
  <2>2. PICK h : h = i - 1
    OBVIOUS
  <2>3. h \in 1 .. n /\ h \in k .. n /\ h + 1 = i
    BY <1>2, <2>1, <2>2
  <2>4. r[h] = <<kind, y>>
    BY <1>2, <2>1, <2>3
  <2>5. ASSUME NEW j \in h + 1 .. n PROVE r[j][1] # kind
    <3>1. j \in 1 .. n /\ j + 1 \in i + 1 .. n + 1
      BY <1>2, <2>3
    <3> QED BY <1>2, <2>1, <3>1
  <2> QED BY <1>1, <2>3, <2>4, <2>5 DEF Newest
<1>4. ASSUME NEW kind, Silent(p, k + 1, kind) PROVE Silent(r, k, kind)
  <2>1. ASSUME NEW j \in k .. n PROVE r[j][1] # kind
    <3>1. j \in 1 .. n /\ j + 1 \in k + 1 .. n + 1
      BY <1>2
    <3> QED BY <1>2, <1>4, <3>1 DEF Silent
  <2> QED BY <1>1, <2>1 DEF Silent
<1> QED BY <1>3, <1>4

\* The first of all is what it says, or comes before that.
LEMMA FirstOfKind ==
  ASSUME NEW p, Len(p) \in Nat \ {0}
  PROVE  /\ \A kind, y : Newest(p, 1, kind, y) =>
              (p[1] = <<kind, y>> /\ Silent(p, 2, kind)) \/ Newest(p, 2, kind, y)
         /\ \A kind : Silent(p, 1, kind) => p[1][1] # kind /\ Silent(p, 2, kind)
<1>1. PICK n : n = Len(p)
  OBVIOUS
<1>2. n \in Nat \ {0}
  BY <1>1
<1>3. ASSUME NEW kind, NEW y, Newest(p, 1, kind, y)
      PROVE  (p[1] = <<kind, y>> /\ Silent(p, 2, kind)) \/ Newest(p, 2, kind, y)
  <2>1. PICK i \in 1 .. n : p[i] = <<kind, y>> /\ \A j \in i + 1 .. n : p[j][1] # kind
    BY <1>1, <1>3 DEF Newest
  <2>2. CASE i = 1
    <3>1. p[1] = <<kind, y>> /\ \A j \in 2 .. n : p[j][1] # kind
      BY <2>1, <2>2
    <3> QED BY <1>1, <3>1 DEF Silent
  <2>3. CASE i # 1
    <3>1. i \in 2 .. n
      BY <1>2, <2>3
    <3> QED BY <1>1, <2>1, <3>1 DEF Newest
  <2> QED BY <2>2, <2>3
<1>4. ASSUME NEW kind, Silent(p, 1, kind) PROVE p[1][1] # kind /\ Silent(p, 2, kind)
  <2>1. 1 \in 1 .. n /\ 2 .. n \subseteq 1 .. n
    BY <1>2
  <2> QED BY <1>1, <1>4, <2>1 DEF Silent
<1> QED BY <1>3, <1>4

\* Of a server that says one thing more, x, all is still due.
LEMMA DueComing ==
  ASSUME NEW p, NEW r, NEW x, Longer(p, r, x), NEW k \in Nat \ {0}, k <= Len(p) + 1,
         NEW v, NEW s, NEW t, Due(p, k, v, s), Sendable(x), x[1] # "MAP_DATA",
         t.answer = s.answer,
         x[1] = "SNAPSHOT" => x = <<"SNAPSHOT", t.snapshot>>,
         x[1] = "INVENTORY_UPDATE" => x = <<"INVENTORY_UPDATE", t.inventory>>,
         x[1] = "EQUIPMENT_UPDATE" => x = <<"EQUIPMENT_UPDATE", t.equipment>>,
         x[1] = "CHAT_MSG" => x = <<"CHAT_MSG", t.text>>,
         x[1] # "SNAPSHOT" => t.snapshot = s.snapshot,
         x[1] # "INVENTORY_UPDATE" => t.inventory = s.inventory,
         x[1] # "EQUIPMENT_UPDATE" => t.equipment = s.equipment,
         x[1] # "CHAT_MSG" => t.text = s.text
  PROVE  Due(r, k, v, t)
<1>1. /\ \A kind, y : x = <<kind, y>> => Newest(r, k, kind, y)
      /\ \A kind, y : x[1] # kind /\ Newest(p, k, kind, y) => Newest(r, k, kind, y)
      /\ \A kind : x[1] # kind /\ Silent(p, k, kind) => Silent(r, k, kind)
  BY KindsComing
<1>2. /\ Len(p) \in Nat /\ Len(r) = Len(p) + 1 /\ r[Len(p) + 1] = x
      /\ \A i \in 1 .. Len(p) : r[i] = p[i]
  BY DEF Longer
<1>3. Legal(r, k)
  <2>1. ASSUME NEW i \in k .. Len(r) PROVE Sendable(r[i])
    <3>1. i = Len(p) + 1 \/ (i \in k .. Len(p) /\ i \in 1 .. Len(p))
      BY <1>2
    <3> QED BY <1>2, <3>1 DEF Due, Legal
  <2> QED BY <2>1 DEF Legal
<1>4. ASSUME MapIsDue(p, k, v) PROVE MapIsDue(r, k, v)
  <2>1. CASE Silent(p, k, "MAP_DATA") /\ v.static_entity_keys = MapKeys
    BY <1>1, <2>1 DEF MapIsDue
  <2>2. CASE /\ k <= Len(p) /\ p[k] = <<"MAP_DATA", 0>> /\ Silent(p, k + 1, "MAP_DATA")
             /\ DOMAIN v.entities = {} /\ v.static_entity_keys = {}
    <3>1. k \in 1 .. Len(p) /\ k + 1 \in Nat \ {0} /\ k + 1 <= Len(p) + 1 /\ k <= Len(r)
      BY <1>2, <2>2
    <3>2. Silent(r, k + 1, "MAP_DATA")
      BY <2>2, <3>1, KindsComing
    <3>3. r[k] = <<"MAP_DATA", 0>>
      BY <1>2, <2>2, <3>1
    <3> QED BY <2>2, <3>1, <3>2, <3>3 DEF MapIsDue
  <2> QED BY <1>4, <2>1, <2>2 DEF MapIsDue
<1>5. ASSUME SlotsAreDue(p, k, v, s) PROVE SlotsAreDue(r, k, v, t)
  <2>1. \/ Newest(r, k, "INVENTORY_UPDATE", t.inventory)
        \/ Silent(r, k, "INVENTORY_UPDATE") /\ v.inventory_slots = Slots[t.inventory]
    BY <1>1, <1>5 DEF SlotsAreDue
  <2>2. \/ Newest(r, k, "EQUIPMENT_UPDATE", t.equipment)
        \/ Silent(r, k, "EQUIPMENT_UPDATE") /\ equipment_slot_at(v) = DOMAIN Slots[t.equipment]
    BY <1>1, <1>5 DEF SlotsAreDue
  <2> QED BY <2>1, <2>2 DEF SlotsAreDue
<1>6. ASSUME TextIsDue(p, k, v, s) PROVE TextIsDue(r, k, v, t)
  <2>1. CASE x[1] = "CHAT_MSG"
    <3>1. Len(p) + 1 \in k .. Len(r) /\ r[Len(p) + 1] = <<"CHAT_MSG", t.text>>
      BY <1>2, <2>1
    <3> QED BY <3>1 DEF TextIsDue
  <2>2. CASE x[1] # "CHAT_MSG"
    <3>1. t.text = s.text
      BY <2>2
    <3>2. ASSUME NEW i \in k .. Len(p), p[i] = <<"CHAT_MSG", s.text>>
          PROVE  i \in k .. Len(r) /\ r[i] = <<"CHAT_MSG", t.text>>
      <4>1. i \in 1 .. Len(p) /\ i \in k .. Len(r)
        BY <1>2
      <4> QED BY <1>2, <3>1, <3>2, <4>1
    <3> QED BY <1>6, <3>1, <3>2 DEF TextIsDue
  <2> QED BY <2>1, <2>2
<1>7. WorldIsDue(r, k, v, t)
  <2>1. CASE x[1] = "SNAPSHOT"
    BY <1>1, <2>1 DEF WorldIsDue
  <2>2. CASE x[1] # "SNAPSHOT"
    <3>1. t.snapshot = s.snapshot /\ t.answer = s.answer
      BY <2>2
    <3>2. Shows(v, s) => Shows(v, t)
      BY <3>1 DEF Shows
    <3> QED BY <1>1, <2>2, <3>1, <3>2 DEF Due, WorldIsDue
  <2> QED BY <2>1, <2>2
<1>8. ASSUME s.answer # "accepted"
      PROVE  Silent(r, k, "MAP_DATA") /\ v.static_entity_keys = {}
  BY <1>1, <1>8 DEF Due
<1> QED BY <1>3, <1>4, <1>5, <1>6, <1>7, <1>8 DEF Due

\* One place nearer, all is still due.
LEMMA DueNearer ==
  ASSUME NEW p, NEW r, Shorter(p, r), NEW k \in Nat \ {0}, NEW v, NEW s, Due(p, k + 1, v, s)
  PROVE  Due(r, k, v, s)
<1>1. /\ \A kind, y : Newest(p, k + 1, kind, y) => Newest(r, k, kind, y)
      /\ \A kind : Silent(p, k + 1, kind) => Silent(r, k, kind)
  BY KindsNearer
<1>2. PICK n : n = Len(r)
  OBVIOUS
<1>3. n \in Nat /\ Len(p) = n + 1 /\ \A i \in 1 .. n : r[i] = p[i + 1]
  BY <1>2 DEF Shorter
<1>4. Legal(r, k)
  <2>1. ASSUME NEW i \in k .. n PROVE Sendable(r[i])
    <3>1. i \in 1 .. n /\ i + 1 \in k + 1 .. n + 1
      BY <1>3
    <3> QED BY <1>3, <3>1 DEF Due, Legal
  <2> QED BY <1>2, <2>1 DEF Legal
<1>5. ASSUME MapIsDue(p, k + 1, v) PROVE MapIsDue(r, k, v)
  <2>1. CASE Silent(p, k + 1, "MAP_DATA") /\ v.static_entity_keys = MapKeys
    BY <1>1, <2>1 DEF MapIsDue
  <2>2. CASE /\ k + 1 <= Len(p) /\ p[k + 1] = <<"MAP_DATA", 0>> /\ Silent(p, (k + 1) + 1, "MAP_DATA")
             /\ DOMAIN v.entities = {} /\ v.static_entity_keys = {}
    <3>1. k \in 1 .. n /\ k + 1 \in Nat \ {0}
      BY <1>3, <2>2
    <3>2. Silent(r, k + 1, "MAP_DATA")
      BY <2>2, <3>1, KindsNearer
    <3>3. r[k] = <<"MAP_DATA", 0>> /\ k <= n
      BY <1>3, <2>2, <3>1
    <3> QED BY <1>2, <2>2, <3>2, <3>3 DEF MapIsDue
  <2> QED BY <1>5, <2>1, <2>2 DEF MapIsDue
<1>6. ASSUME SlotsAreDue(p, k + 1, v, s) PROVE SlotsAreDue(r, k, v, s)
  BY <1>1, <1>6 DEF SlotsAreDue
<1>7. ASSUME TextIsDue(p, k + 1, v, s) PROVE TextIsDue(r, k, v, s)
  <2>1. ASSUME NEW i \in k + 1 .. Len(p), p[i] = <<"CHAT_MSG", s.text>>
        PROVE  \E j \in k .. n : r[j] = <<"CHAT_MSG", s.text>>
    <3>1. PICK j : j = i - 1
      OBVIOUS
    <3>2. j \in k .. n /\ j \in 1 .. n /\ j + 1 = i
      BY <1>3, <3>1
    <3> QED BY <1>3, <2>1, <3>2
  <2> QED BY <1>2, <1>7, <2>1 DEF TextIsDue
<1>8. WorldIsDue(r, k, v, s)
  BY <1>1 DEF Due, WorldIsDue
<1>9. ASSUME s.answer # "accepted"
      PROVE  Silent(r, k, "MAP_DATA") /\ v.static_entity_keys = {}
  BY <1>1, <1>9 DEF Due
<1> QED BY <1>4, <1>5, <1>6, <1>7, <1>8, <1>9 DEF Due

\* The texts of u are among those of w, or w is full.
KeepsTexts(u, w) ==
  /\ \A x \in Range(u) : x \in Range(w) \/ Len(w) = MAX_CHAT_LOG_SIZE
  /\ Len(u) = MAX_CHAT_LOG_SIZE => Len(w) = MAX_CHAT_LOG_SIZE

\* A view that shows what the first message says owes the rest.
LEMMA DueTaken ==
  ASSUME NEW p, Len(p) \in Nat \ {0}, NEW v, NEW w, NEW s, Due(p, 1, v, s), IsScreen(w),
         p[1][1] = "MAP_DATA" => w.static_entity_keys = MapKeys,
         p[1][1] # "MAP_DATA" => w.static_entity_keys = v.static_entity_keys,
         \A i : p[1] = <<"INVENTORY_UPDATE", i>> => w.inventory_slots = Slots[i],
         p[1][1] # "INVENTORY_UPDATE" => w.inventory_slots = v.inventory_slots,
         \A i : p[1] = <<"EQUIPMENT_UPDATE", i>> => equipment_slot_at(w) = DOMAIN Slots[i],
         p[1][1] # "EQUIPMENT_UPDATE" => equipment_slot_at(w) = equipment_slot_at(v),
         KeepsTexts(v.console, w.console),
         \A x : p[1] = <<"CHAT_MSG", x>> =>
           x \in Spoken \union Range(w.console) \/ Len(w.console) = MAX_CHAT_LOG_SIZE,
         p[1] = <<"SNAPSHOT", s.snapshot>> => Shows(w, s),
         p[1][1] # "SNAPSHOT" /\ Shows(v, s) => Shows(w, s)
  PROVE  Due(p, 2, w, s)
<1>1. /\ \A kind, y : Newest(p, 1, kind, y) =>
            (p[1] = <<kind, y>> /\ Silent(p, 2, kind)) \/ Newest(p, 2, kind, y)
      /\ \A kind : Silent(p, 1, kind) => p[1][1] # kind /\ Silent(p, 2, kind)
  BY FirstOfKind
<1>2. Legal(p, 2)
  <2>1. 2 .. Len(p) \subseteq 1 .. Len(p)
    OBVIOUS
  <2> QED BY <2>1 DEF Due, Legal
<1>3. ASSUME MapIsDue(p, 1, v) PROVE MapIsDue(p, 2, w)
  <2>1. CASE Silent(p, 1, "MAP_DATA") /\ v.static_entity_keys = MapKeys
    BY <1>1, <2>1 DEF MapIsDue
  <2>2. CASE p[1] = <<"MAP_DATA", 0>> /\ Silent(p, 1 + 1, "MAP_DATA")
    <3>1. 1 + 1 = 2 /\ p[1][1] = "MAP_DATA"
      BY <2>2
    <3> QED BY <2>2, <3>1 DEF MapIsDue
  <2> QED BY <1>3, <2>1, <2>2 DEF MapIsDue
<1>4. ASSUME SlotsAreDue(p, 1, v, s) PROVE SlotsAreDue(p, 2, w, s)
  <2>1. \/ Newest(p, 2, "INVENTORY_UPDATE", s.inventory)
        \/ Silent(p, 2, "INVENTORY_UPDATE") /\ w.inventory_slots = Slots[s.inventory]
    BY <1>1, <1>4 DEF SlotsAreDue
  <2>2. \/ Newest(p, 2, "EQUIPMENT_UPDATE", s.equipment)
        \/ Silent(p, 2, "EQUIPMENT_UPDATE") /\ equipment_slot_at(w) = DOMAIN Slots[s.equipment]
    BY <1>1, <1>4 DEF SlotsAreDue
  <2> QED BY <2>1, <2>2 DEF SlotsAreDue
<1>5. ASSUME TextIsDue(p, 1, v, s) PROVE TextIsDue(p, 2, w, s)
  <2>1. CASE s.text \in Spoken \cup {"none"} \cup Range(v.console)
    BY <2>1 DEF TextIsDue, KeepsTexts
  <2>2. CASE Len(v.console) = MAX_CHAT_LOG_SIZE
    BY <2>2 DEF TextIsDue, KeepsTexts
  <2>3. CASE \E i \in 1 .. Len(p) : p[i] = <<"CHAT_MSG", s.text>>
    <3>1. PICK i \in 1 .. Len(p) : p[i] = <<"CHAT_MSG", s.text>>
      BY <2>3
    <3>2. CASE i = 1
      BY <3>1, <3>2 DEF TextIsDue
    <3>3. CASE i # 1
      <4>1. i \in 2 .. Len(p)
        BY <3>3
      <4> QED BY <3>1, <4>1 DEF TextIsDue
    <3> QED BY <3>2, <3>3
  <2> QED BY <1>5, <2>1, <2>2, <2>3 DEF TextIsDue
<1>6. WorldIsDue(p, 2, w, s)
  BY <1>1 DEF Due, WorldIsDue
<1>7. ASSUME s.answer # "accepted"
      PROVE  Silent(p, 2, "MAP_DATA") /\ w.static_entity_keys = {}
  BY <1>1, <1>7 DEF Due
<1> QED BY <1>2, <1>3, <1>4, <1>5, <1>6, <1>7 DEF Due

-----------------------------------------------------------------------------
(***************************************************************************)
(* The console.                                                            *)
(***************************************************************************)

\* The console u after each of the lines.
Logs(log, u, lines) ==
  log = [n \in 0 .. Len(lines) |-> IF n = 0 THEN u ELSE Logged(log[n - 1], lines[n])]

\* A line more: it is the last one, and none goes but from a console that is full.
LEMMA LineIsLogged ==
  ASSUME NEW u, IsSeq(u), Len(u) <= MAX_CHAT_LOG_SIZE, NEW line, NEW w, w = Logged(u, line)
  PROVE  /\ IsSeq(w) /\ Len(w) <= MAX_CHAT_LOG_SIZE /\ Len(w) \in Nat
         /\ Len(u) = MAX_CHAT_LOG_SIZE => Len(w) = MAX_CHAT_LOG_SIZE
         /\ \/ Len(w) = MAX_CHAT_LOG_SIZE
            \/ /\ \A i \in 1 .. Len(u) : \E j \in 1 .. Len(w) : w[j] = u[i]
               /\ \E j \in 1 .. Len(w) : w[j] = line
<1>1. PICK m : m = MAX_CHAT_LOG_SIZE
  OBVIOUS
<1>2. m \in Nat \ {0}
  BY <1>1, ViewAssumption
<1>3. PICK longer : longer = Append(u, line)
  OBVIOUS
<1>4. /\ IsSeq(longer) /\ Len(u) \in Nat /\ longer # <<>> /\ Len(longer) = Len(u) + 1
      /\ longer[Len(u) + 1] = line /\ \A i \in 1 .. Len(u) : longer[i] = u[i]
  BY <1>3, AppendIs
<1>5. w = IF Len(longer) > m THEN Tail(longer) ELSE longer
  BY <1>1, <1>3, Zenon DEF Logged
<1>6. Len(u) <= m
  BY <1>1
<1>7. CASE Len(u) = m
  <2>1. w = Tail(longer)
    BY <1>2, <1>4, <1>5, <1>7
  <2>2. IsSeq(w) /\ Len(w) = Len(longer) - 1
    BY <1>4, <2>1, TailIs
  <2>3. Len(w) = m
    BY <1>2, <1>4, <1>7, <2>2
  <2> QED BY <1>1, <1>2, <2>2, <2>3
<1>8. CASE Len(u) # m
  <2>1. w = longer
    BY <1>2, <1>4, <1>5, <1>6, <1>8
  <2>2. Len(w) \in Nat /\ Len(w) <= m
    BY <1>2, <1>4, <1>6, <1>8, <2>1
  <2>3. Len(u) + 1 \in 1 .. Len(w) /\ \A i \in 1 .. Len(u) : i \in 1 .. Len(w)
    BY <1>4, <2>1
  <2>4. /\ \A i \in 1 .. Len(u) : \E j \in 1 .. Len(w) : w[j] = u[i]
        /\ \E j \in 1 .. Len(w) : w[j] = line
    BY <1>4, <2>1, <2>3
  <2> QED BY <1>1, <1>4, <1>8, <2>1, <2>2, <2>4
<1> QED BY <1>7, <1>8

\* The console after each line exists.
LEMMA LogsExist ==
  ASSUME NEW u, IsSeq(u), NEW lines, IsSeq(lines)
  PROVE  \E log : Logs(log, u, lines)
<1>1. PICK A, B : u \in Seq(A) /\ lines \in Seq(B)
  BY DEF IsSeq
<1>2. PICK S : S = A \union B
  OBVIOUS
<1>3. PICK N : N = Len(lines)
  OBVIOUS
<1>4. u \in Seq(S) /\ N \in Nat /\ \A n \in 1 .. N : lines[n] \in S
  <2>1. A \subseteq S /\ B \subseteq S
    BY <1>2
  <2> QED BY <1>1, <1>3, <2>1, SeqMonotonic, LenProperties, ElementOfSeq
<1>5. ASSUME NEW c \in Seq(S), NEW line \in S PROVE Logged(c, line) \in Seq(S)
  <2>1. PICK longer : longer = Append(c, line)
    OBVIOUS
  <2>2. longer \in Seq(S) /\ longer # <<>>
    BY <2>1, AppendProperties
  <2>3. Tail(longer) \in Seq(S)
    BY <2>2, HeadTailProperties
  <2> QED BY <2>1, <2>2, <2>3 DEF Logged
<1>6. PICK D : D = Seq(S)
  OBVIOUS
<1>7. PICK step : step = [n \in 1 .. N |-> [c \in D |-> Logged(c, lines[n])]]
  OBVIOUS
<1>8. step \in Stepper(N, D)
  <2>1. \A n \in 1 .. N : \A c \in D : Logged(c, lines[n]) \in D
    BY <1>4, <1>5, <1>6
  <2> QED BY <1>7, <2>1 DEF Stepper
<1>9. PICK f : Follows(f, N, D, u, step)
  BY <1>4, <1>6, <1>8, RecursionExists
<1>10. f \in [0 .. N -> D] /\ f[0] = u /\ \A n \in 1 .. N : f[n] = step[n][f[n - 1]]
  BY <1>9 DEF Follows
<1>11. ASSUME NEW n \in 0 .. N PROVE f[n] = IF n = 0 THEN u ELSE Logged(f[n - 1], lines[n])
  <2>1. CASE n = 0
    BY <1>10, <2>1
  <2>2. CASE n # 0
    <3>1. n \in 1 .. N /\ n - 1 \in 0 .. N
      BY <1>4, <2>2
    <3>2. f[n - 1] \in D
      BY <1>10, <3>1
    <3>3. step[n][f[n - 1]] = Logged(f[n - 1], lines[n])
      BY <1>7, <3>1, <3>2
    <3> QED BY <1>10, <2>2, <3>1, <3>3
  <2> QED BY <2>1, <2>2
<1>12. f = [n \in 0 .. N |-> IF n = 0 THEN u ELSE Logged(f[n - 1], lines[n])]
  BY <1>10, <1>11
<1>13. Logs(f, u, lines)
  BY <1>3, <1>12 DEF Logs
<1> QED BY <1>13

\* Lines, one after the other.
LEMMA LinesAreLogged ==
  ASSUME NEW u, IsSeq(u), Len(u) <= MAX_CHAT_LOG_SIZE, NEW lines, IsSeq(lines),
         NEW log, Logs(log, u, lines), NEW w, w = log[Len(lines)]
  PROVE  /\ IsSeq(w) /\ Len(w) <= MAX_CHAT_LOG_SIZE /\ Len(w) \in Nat
         /\ KeepsTexts(u, w)
         /\ \A i \in 1 .. Len(lines) : lines[i] \in Range(w) \/ Len(w) = MAX_CHAT_LOG_SIZE
<1>1. PICK m, N : m = MAX_CHAT_LOG_SIZE /\ N = Len(lines)
  OBVIOUS
<1>2. m \in Nat \ {0} /\ N \in Nat
  BY <1>1, ViewAssumption, LenProperties DEF IsSeq
<1>3. \A n \in 0 .. N : log[n] = IF n = 0 THEN u ELSE Logged(log[n - 1], lines[n])
  BY <1>1 DEF Logs
<1> DEFINE Holds(c, x) == \E j \in 1 .. Len(c) : c[j] = x
           Good(c, n) == /\ IsSeq(c) /\ Len(c) <= m
                         /\ Len(u) = m => Len(c) = m
                         /\ \/ Len(c) = m
                            \/ /\ \A i \in 1 .. Len(u) : Holds(c, u[i])
                               /\ \A i \in 1 .. n : Holds(c, lines[i])
           S == {n \in 0 .. N : Good(log[n], n)}
<1>4. 0 \in S
  <2>1. log[0] = u /\ 0 \in 0 .. N
    BY <1>2, <1>3
  <2>2. \A i \in 1 .. Len(u) : Holds(u, u[i])
    OBVIOUS
  <2>3. Good(u, 0)
    BY <1>1, <2>2
  <2> QED BY <2>1, <2>3
<1>5. ASSUME NEW n \in 0 .. N, n \in S, n < N PROVE n + 1 \in S
  <2>1. n + 1 \in 0 .. N /\ n + 1 # 0 /\ (n + 1) - 1 = n /\ n \in Nat
    BY <1>2, <1>5
  <2>2. PICK a, b, line : a = log[n] /\ b = log[n + 1] /\ line = lines[n + 1]
    OBVIOUS
  <2>3. b = Logged(a, line) /\ Good(a, n)
    <3>1. log[n + 1] = IF n + 1 = 0 THEN u ELSE Logged(log[(n + 1) - 1], lines[n + 1])
      BY <1>3, <2>1
    <3> QED BY <1>5, <2>1, <2>2, <3>1
  <2>4. /\ IsSeq(b) /\ Len(b) <= m /\ (Len(a) = m => Len(b) = m)
        /\ \/ Len(b) = m
           \/ (\A i \in 1 .. Len(a) : Holds(b, a[i])) /\ Holds(b, line)
    <3>1. IsSeq(a) /\ Len(a) <= MAX_CHAT_LOG_SIZE /\ b = Logged(a, line)
      BY <1>1, <2>3
    <3>2. /\ IsSeq(b) /\ Len(b) <= MAX_CHAT_LOG_SIZE /\ Len(b) \in Nat
          /\ Len(a) = MAX_CHAT_LOG_SIZE => Len(b) = MAX_CHAT_LOG_SIZE
          /\ \/ Len(b) = MAX_CHAT_LOG_SIZE
             \/ /\ \A i \in 1 .. Len(a) : \E j \in 1 .. Len(b) : b[j] = a[i]
                /\ \E j \in 1 .. Len(b) : b[j] = line
      BY <3>1, LineIsLogged
    <3> QED BY <1>1, <3>2, Zenon
  <2>5. ASSUME Len(b) # m, NEW x, Holds(a, x) PROVE Holds(b, x)
    BY <2>4, <2>5
  <2>6. ASSUME Len(b) # m, NEW i \in 1 .. n + 1 PROVE Holds(b, lines[i])
    <3>1. CASE i = n + 1
      BY <2>2, <2>4, <2>6, <3>1
    <3>2. CASE i # n + 1
      <4>1. i \in 1 .. n
        BY <2>1, <3>2
      <4>2. Len(a) # m
        BY <2>4, <2>6
      <4>3. Holds(a, lines[i])
        BY <2>3, <4>1, <4>2
      <4> QED BY <2>5, <2>6, <4>3
    <3> QED BY <3>1, <3>2
  <2>7. ASSUME Len(b) # m, NEW i \in 1 .. Len(u) PROVE Holds(b, u[i])
    <3>1. Len(a) # m
      BY <2>4, <2>7
    <3>2. Holds(a, u[i])
      BY <2>3, <3>1
    <3> QED BY <2>5, <2>7, <3>2
  <2>8. Good(b, n + 1)
    BY <2>3, <2>4, <2>6, <2>7
  <2> QED BY <2>1, <2>2, <2>8
<1>6. N \in S
  <2> HIDE DEF S
  <2>1. \A n \in 0 .. N : n \in S
    BY <1>2, <1>4, <1>5, UpTo
  <2> QED BY <1>2, <2>1
<1>7. Good(w, N)
  BY <1>1, <1>6
<1>8. Len(w) \in Nat /\ DOMAIN w = 1 .. Len(w) /\ DOMAIN u = 1 .. Len(u)
  BY <1>7, LenProperties DEF IsSeq
<1>9. \A x : Holds(w, x) => x \in Range(w)
  BY <1>8 DEF Range
<1>10. ASSUME NEW x \in Range(u) PROVE x \in Range(w) \/ Len(w) = m
  <2>1. PICK i \in 1 .. Len(u) : x = u[i]
    BY <1>8 DEF Range
  <2> QED BY <1>7, <1>9, <2>1
<1>11. \A i \in 1 .. N : lines[i] \in Range(w) \/ Len(w) = m
  BY <1>7, <1>9
<1> HIDE DEF Holds
<1> QED BY <1>1, <1>7, <1>8, <1>10, <1>11 DEF KeepsTexts

\* The fields a line of chat leaves alone.
SameBut(v, w) ==
  /\ w.entities = v.entities /\ w.static_entity_keys = v.static_entity_keys
  /\ w.local_player_id = v.local_player_id /\ w.inventory_slots = v.inventory_slots
  /\ w.equipped_inventory_slots = v.equipped_inventory_slots /\ w.heard = v.heard

\* A scroll that keeps to the lines, or lines that are added: the rest stays.
LEMMA LinesAreShown ==
  ASSUME NEW v, IsView(v), IsScreen(v), NEW lines, IsSeq(lines),
         NEW w, w = add_chat_messages(v, lines)
  PROVE  /\ IsScreen(w) /\ SameBut(v, w) /\ KeepsTexts(v.console, w.console)
         /\ \A i \in 1 .. Len(lines) :
              lines[i] \in Range(w.console) \/ Len(w.console) = MAX_CHAT_LOG_SIZE
<1>1. PICK u : u = v.console
  OBVIOUS
<1>2. IsSeq(u) /\ Len(u) <= MAX_CHAT_LOG_SIZE
  BY <1>1 DEF IsScreen
<1>3. PICK log : log = CHOOSE x : Logs(x, u, lines)
  OBVIOUS
<1>4. Logs(log, u, lines)
  <2>1. \E x : Logs(x, u, lines)
    BY <1>2, LogsExist
  <2> QED BY <1>3, <2>1, Zenon
<1>5. PICK kept, at : kept = log[Len(lines)] /\ at = max_scroll(kept)
  OBVIOUS
<1>6. w = [v EXCEPT !.console = kept, !.console_scroll_offset = at]
  BY <1>1, <1>3, <1>5, Zenon DEF add_chat_messages, Logs
<1>7. /\ IsSeq(kept) /\ Len(kept) <= MAX_CHAT_LOG_SIZE /\ Len(kept) \in Nat /\ KeepsTexts(u, kept)
      /\ \A i \in 1 .. Len(lines) : lines[i] \in Range(kept) \/ Len(kept) = MAX_CHAT_LOG_SIZE
  BY <1>2, <1>4, <1>5, LinesAreLogged
<1>8. at \in Nat /\ at \in 0 .. max_scroll(kept)
  BY <1>5, <1>7, ViewAssumption DEF max_scroll
<1>9. SameBut(v, w) /\ w.console = kept /\ w.console_scroll_offset = at
  BY <1>6 DEF IsView, SameBut
<1>10. IsScreen(w)
  BY <1>7, <1>8, <1>9 DEF IsScreen, SameBut
<1> QED BY <1>1, <1>7, <1>9, <1>10

-----------------------------------------------------------------------------
(***************************************************************************)
(* The snapshots.                                                          *)
(***************************************************************************)

\* Its ids and tiles leave the keys apart.
Numbered(snapshot) ==
  /\ DOMAIN snapshot.players \subseteq Ids
  /\ DOMAIN snapshot.npcs \subseteq Ids
  /\ DOMAIN snapshot.items_on_floor \subseteq Tiles

\* They are those of a snapshot.
LEMMA SnapshotIsNumbered ==
  ASSUME NEW i \in DOMAIN Snapshots
  PROVE  Numbered(Snapshots[i])
BY ClientAssumption DEF Numbered

\* The keys they make.
LEMMA KeysAre ==
  /\ \A id \in Ids :
       /\ id \in Int /\ player_entity_key(id) \in Int /\ npc_entity_key(id) \in Int
       /\ player_entity_key(id) < NPC_ENTITY_OFFSET /\ player_entity_key(id) < ITEM_ENTITY_OFFSET
       /\ NPC_ENTITY_OFFSET <= npc_entity_key(id) /\ npc_entity_key(id) < ITEM_ENTITY_OFFSET
       /\ player_entity_key(id) - PLAYER_ENTITY_OFFSET = id
       /\ npc_entity_key(id) - NPC_ENTITY_OFFSET = id
  /\ \A tile \in Tiles :
       /\ item_entity_key(tile) \in Int /\ ITEM_ENTITY_OFFSET <= item_entity_key(tile)
       /\ item_entity_key(tile) < CITIZEN_ENTITY_OFFSET
  /\ \A key \in MapKeys : key \in Int /\ CITIZEN_ENTITY_OFFSET <= key
  /\ NPC_ENTITY_OFFSET \in Int /\ ITEM_ENTITY_OFFSET \in Int /\ CITIZEN_ENTITY_OFFSET \in Int
  /\ NPC_ENTITY_OFFSET < ITEM_ENTITY_OFFSET /\ ITEM_ENTITY_OFFSET < CITIZEN_ENTITY_OFFSET
<1>1. ASSUME NEW id \in Ids
      PROVE  /\ id \in Int /\ player_entity_key(id) \in Int /\ npc_entity_key(id) \in Int
             /\ player_entity_key(id) < NPC_ENTITY_OFFSET /\ player_entity_key(id) < ITEM_ENTITY_OFFSET
             /\ NPC_ENTITY_OFFSET <= npc_entity_key(id) /\ npc_entity_key(id) < ITEM_ENTITY_OFFSET
             /\ player_entity_key(id) - PLAYER_ENTITY_OFFSET = id
             /\ npc_entity_key(id) - NPC_ENTITY_OFFSET = id
  BY SMT DEF Ids, player_entity_key, npc_entity_key, PLAYER_ENTITY_OFFSET, NPC_ENTITY_OFFSET,
             ITEM_ENTITY_OFFSET
<1>2. ASSUME NEW tile \in Tiles
      PROVE  /\ item_entity_key(tile) \in Int /\ ITEM_ENTITY_OFFSET <= item_entity_key(tile)
             /\ item_entity_key(tile) < CITIZEN_ENTITY_OFFSET
  <2>1. PICK x, y : x = tile[1] /\ y = tile[2]
    OBVIOUS
  <2>2. x \in 0 .. 999 /\ y \in 0 .. 999
    BY <2>1, SMT DEF Tiles
  <2>3. item_entity_key(tile) = 2000000 + x * 1000 + y
    BY <2>1, SMT DEF item_entity_key, ITEM_ENTITY_OFFSET
  <2> QED BY <2>2, <2>3, SMT DEF ITEM_ENTITY_OFFSET, CITIZEN_ENTITY_OFFSET
<1>3. ASSUME NEW key \in MapKeys PROVE key \in Int /\ CITIZEN_ENTITY_OFFSET <= key
  <2>1. DOMAIN Citizens \subseteq Nat
    BY ClientAssumption
  <2> QED BY <2>1, SMT DEF MapKeys, citizen_entity_key, CITIZEN_ENTITY_OFFSET
<1>4. /\ NPC_ENTITY_OFFSET \in Int /\ ITEM_ENTITY_OFFSET \in Int /\ CITIZEN_ENTITY_OFFSET \in Int
      /\ NPC_ENTITY_OFFSET < ITEM_ENTITY_OFFSET /\ ITEM_ENTITY_OFFSET < CITIZEN_ENTITY_OFFSET
  BY SMT DEF NPC_ENTITY_OFFSET, ITEM_ENTITY_OFFSET, CITIZEN_ENTITY_OFFSET
<1> QED BY <1>1, <1>2, <1>3, <1>4

\* Who is not a thing moves to its tile, and who appears is on it.
LEMMA MovedTo ==
  ASSUME NEW entities, NEW citizens, Shown(entities, citizens), NEW type, NEW key,
         key \in DOMAIN entities => entities[key].type # "ITEM", NEW to, NEW body_id
  PROVE  Moved(entities, type, key, to, body_id).tile = to
<1>1. CASE key \in DOMAIN entities
  <2>1. PICK e, after, away : /\ e = entities[key] /\ after = move_to(e, to)
                              /\ away = (e.pixel # to)
    OBVIOUS
  <2>2. IsEntity(e) /\ e.type # "ITEM"
    BY <1>1, <2>1 DEF Shown
  <2>3. \/ e.tile = to /\ after = [e EXCEPT !.is_moving = away]
        \/ after = [e EXCEPT !.tile = to, !.pixel = to, !.is_moving = FALSE]
        \/ after = [e EXCEPT !.tile = to, !.is_moving = TRUE]
    BY <2>1, <2>2, Zenon DEF move_to
  <2>4. after.tile = to
    BY <2>2, <2>3 DEF IsEntity
  <2>5. Moved(entities, type, key, to, body_id) = after
    BY <1>1, <2>1 DEF Moved
  <2> QED BY <2>4, <2>5
<1>2. CASE key \notin DOMAIN entities
  BY <1>2 DEF Moved, NewEntity
<1> QED BY <1>1, <1>2

\* Whoever moves or appears keeps apart from the things.
LEMMA MovedApart ==
  ASSUME NEW entities, NEW citizens, Shown(entities, citizens), Apart(entities),
         NEW type, type # "ITEM", NEW key, NEW to, NEW body_id, NEW e,
         e = Moved(entities, type, key, to, body_id), e.type = "ITEM"
  PROVE  key \in Int /\ key >= ITEM_ENTITY_OFFSET
<1>1. CASE key \in DOMAIN entities
  <2>1. PICK f : f = entities[key]
    OBVIOUS
  <2>2. IsEntity(f) /\ e = move_to(f, to)
    BY <1>1, <2>1 DEF Shown, Moved
  <2>3. f.type = "ITEM"
    BY <2>2, MoveKeeps
  <2> QED BY <1>1, <2>1, <2>3 DEF Apart
<1>2. CASE key \notin DOMAIN entities
  BY <1>2, NewIsEntity DEF Moved
<1> QED BY <1>1, <1>2

\* The players of a snapshot are where it says.
LEMMA PlayersAreThere ==
  ASSUME NEW entities, NEW citizens, Shown(entities, citizens), Apart(entities), NEW players,
         DOMAIN players \subseteq Ids, NEW after, after = update_players(entities, players)
  PROVE  /\ Apart(after)
         /\ DOMAIN after = DOMAIN entities \union {player_entity_key(id) : id \in DOMAIN players}
         /\ \A id \in DOMAIN players : after[player_entity_key(id)].tile = players[id]
<1>1. PICK keys : keys = {player_entity_key(id) : id \in DOMAIN players}
  OBVIOUS
<1>2. after = [key \in DOMAIN entities \union keys |->
                 IF key \in keys
                 THEN Moved(entities, "PLAYER", key, players[key - PLAYER_ENTITY_OFFSET], 0)
                 ELSE entities[key]]
  BY <1>1 DEF update_players
<1>3. DOMAIN after = DOMAIN entities \union keys
  BY <1>2
<1>4. ASSUME NEW key \in keys
      PROVE  after[key] = Moved(entities, "PLAYER", key, players[key - PLAYER_ENTITY_OFFSET], 0)
  BY <1>2, <1>4
<1>5. ASSUME NEW key \in DOMAIN after, after[key].type = "ITEM"
      PROVE  key \in Int /\ key >= ITEM_ENTITY_OFFSET
  <2>1. CASE key \in keys
    <3>1. after[key] = Moved(entities, "PLAYER", key, players[key - PLAYER_ENTITY_OFFSET], 0)
      BY <1>4, <2>1
    <3>2. "PLAYER" # "ITEM"
      OBVIOUS
    <3> QED BY <1>5, <3>1, <3>2, MovedApart
  <2>2. CASE key \notin keys
    BY <1>2, <1>3, <1>5, <2>2 DEF Apart
  <2> QED BY <2>1, <2>2
<1>6. ASSUME NEW id \in DOMAIN players PROVE after[player_entity_key(id)].tile = players[id]
  <2>1. PICK key : key = player_entity_key(id)
    OBVIOUS
  <2>2. key \in keys
    BY <1>1, <2>1
  <2>3. id \in Int /\ key \in Int /\ key < ITEM_ENTITY_OFFSET /\ key - PLAYER_ENTITY_OFFSET = id
    BY <2>1, KeysAre
  <2>4. key \in DOMAIN entities => entities[key].type # "ITEM"
    BY <2>3, KeysAre DEF Apart
  <2>5. Moved(entities, "PLAYER", key, players[id], 0).tile = players[id]
    BY <2>4, MovedTo
  <2>6. PICK n : n = key - PLAYER_ENTITY_OFFSET
    OBVIOUS
  <2>7. n = id
    BY <2>3, <2>6
  <2>8. after[key] = Moved(entities, "PLAYER", key, players[n], 0)
    BY <1>4, <2>2, <2>6, Zenon
  <2> QED BY <2>1, <2>5, <2>7, <2>8, Zenon
<1> QED BY <1>1, <1>3, <1>5, <1>6 DEF Apart

\* The creatures with these keys are there after, and the rest stays.
There(npcs, keys, before, after) ==
  /\ Apart(after) /\ DOMAIN after = DOMAIN before \union keys
  /\ \A id \in DOMAIN npcs : after[npc_entity_key(id)].tile = npcs[id]
  /\ \A key \in DOMAIN before : key \notin keys => after[key] = before[key]

\* So are its creatures, and the rest stays.
LEMMA NpcsAreThere ==
  ASSUME NEW entities, NEW citizens, Shown(entities, citizens), Apart(entities), NEW npcs,
         DOMAIN npcs \subseteq Ids, NEW after, after = update_npcs(entities, npcs),
         NEW keys, keys = {npc_entity_key(id) : id \in DOMAIN npcs}
  PROVE  There(npcs, keys, entities, after)
<1>1. keys = {npc_entity_key(id) : id \in DOMAIN npcs}
  OBVIOUS
<1>2. after = [key \in DOMAIN entities \union keys |->
                 IF key \in keys
                 THEN Moved(entities, "NPC", key, npcs[key - NPC_ENTITY_OFFSET], 0)
                 ELSE entities[key]]
  BY <1>1 DEF update_npcs
<1>3. /\ DOMAIN after = DOMAIN entities \union keys
      /\ \A key \in DOMAIN entities : key \notin keys => after[key] = entities[key]
  BY <1>2
<1>4. ASSUME NEW key \in keys
      PROVE  after[key] = Moved(entities, "NPC", key, npcs[key - NPC_ENTITY_OFFSET], 0)
  BY <1>2, <1>4
<1>5. ASSUME NEW key \in DOMAIN after, after[key].type = "ITEM"
      PROVE  key \in Int /\ key >= ITEM_ENTITY_OFFSET
  <2>1. CASE key \in keys
    <3>1. after[key] = Moved(entities, "NPC", key, npcs[key - NPC_ENTITY_OFFSET], 0)
      BY <1>4, <2>1
    <3>2. "NPC" # "ITEM"
      OBVIOUS
    <3> QED BY <1>5, <3>1, <3>2, MovedApart
  <2>2. CASE key \notin keys
    BY <1>2, <1>3, <1>5, <2>2 DEF Apart
  <2> QED BY <2>1, <2>2
<1>6. ASSUME NEW id \in DOMAIN npcs PROVE after[npc_entity_key(id)].tile = npcs[id]
  <2>1. PICK key : key = npc_entity_key(id)
    OBVIOUS
  <2>2. key \in keys
    BY <1>1, <2>1
  <2>3. id \in Int /\ key \in Int /\ key < ITEM_ENTITY_OFFSET /\ key - NPC_ENTITY_OFFSET = id
    BY <2>1, KeysAre
  <2>4. key \in DOMAIN entities => entities[key].type # "ITEM"
    BY <2>3, KeysAre DEF Apart
  <2>5. Moved(entities, "NPC", key, npcs[id], 0).tile = npcs[id]
    BY <2>4, MovedTo
  <2>6. PICK n : n = key - NPC_ENTITY_OFFSET
    OBVIOUS
  <2>7. n = id
    BY <2>3, <2>6
  <2>8. after[key] = Moved(entities, "NPC", key, npcs[n], 0)
    BY <1>4, <2>2, <2>6, Zenon
  <2> QED BY <2>1, <2>5, <2>7, <2>8, Zenon
<1> QED BY <1>1, <1>3, <1>5, <1>6 DEF Apart, There

\* Its things appear, and the rest stays.
LEMMA ThingsAreThere ==
  ASSUME NEW entities, Apart(entities), NEW items,
         DOMAIN items \subseteq Tiles,
         NEW after, after = update_floor_items(entities, items)
  PROVE  /\ Apart(after)
         /\ DOMAIN after = DOMAIN entities \union {item_entity_key(tile) : tile \in DOMAIN items}
         /\ \A key \in DOMAIN entities : after[key] = entities[key]
<1>1. PICK keys : keys = {item_entity_key(tile) : tile \in DOMAIN items}
  OBVIOUS
<1>2. /\ DOMAIN after = DOMAIN entities \union keys
      /\ \A key \in DOMAIN entities : after[key] = entities[key]
  BY <1>1 DEF update_floor_items
<1>3. ASSUME NEW key \in keys PROVE key \in Int /\ key >= ITEM_ENTITY_OFFSET
  BY <1>1, <1>3, KeysAre
<1>4. ASSUME NEW key \in DOMAIN after, after[key].type = "ITEM"
      PROVE  key \in Int /\ key >= ITEM_ENTITY_OFFSET
  <2>1. CASE key \in DOMAIN entities
    BY <1>2, <1>4, <2>1 DEF Apart
  <2>2. CASE key \notin DOMAIN entities
    BY <1>2, <1>3, <2>2
  <2> QED BY <2>1, <2>2
<1> QED BY <1>1, <1>2, <1>4 DEF Apart

\* The keys of players, creatures and citizens are apart too.
LEMMA KeysApart ==
  ASSUME NEW i \in DOMAIN Snapshots, NEW snapshot, snapshot = Snapshots[i]
  PROVE  /\ ids_en_snapshot(snapshot) \intersect MapKeys = {}
         /\ \A id \in DOMAIN snapshot.players :
              player_entity_key(id) \notin {npc_entity_key(n) : n \in DOMAIN snapshot.npcs}
<1>1. /\ DOMAIN snapshot.players \subseteq Ids
      /\ DOMAIN snapshot.npcs \subseteq Ids
      /\ DOMAIN snapshot.items_on_floor \subseteq Tiles
  BY SnapshotIsNumbered DEF Numbered
<1>2. ASSUME NEW key \in ids_en_snapshot(snapshot)
      PROVE  key \in Int /\ key < CITIZEN_ENTITY_OFFSET
  <2>1. CASE key \in {player_entity_key(id) : id \in DOMAIN snapshot.players}
    BY <1>1, <2>1, KeysAre
  <2>2. CASE key \in {npc_entity_key(id) : id \in DOMAIN snapshot.npcs}
    BY <1>1, <2>2, KeysAre
  <2>3. CASE key \in {item_entity_key(tile) : tile \in DOMAIN snapshot.items_on_floor}
    BY <1>1, <2>3, KeysAre
  <2> QED BY <1>2, <2>1, <2>2, <2>3 DEF ids_en_snapshot
<1>3. ASSUME NEW key \in MapKeys PROVE key \in Int /\ CITIZEN_ENTITY_OFFSET <= key
  BY <1>3, KeysAre
<1>4. ASSUME NEW id \in DOMAIN snapshot.players, NEW n \in DOMAIN snapshot.npcs
      PROVE  player_entity_key(id) # npc_entity_key(n)
  BY <1>1, KeysAre
<1>5. \A key \in ids_en_snapshot(snapshot) : key \notin MapKeys
  BY <1>2, <1>3, KeysAre
<1> QED BY <1>4, <1>5

\* After a snapshot who is shown is who is in it, where it says.
LEMMA SnapshotIsThere ==
  ASSUME NEW v, IsView(v), Apart(v.entities), NEW i \in DOMAIN Snapshots,
         NEW u, u = update_entities(v, Snapshots[i])
  PROVE  /\ Here(u, Snapshots[i]) /\ Apart(u.entities)
         /\ \E e : u = [v EXCEPT !.entities = e]
<1>1. PICK snapshot : snapshot = Snapshots[i]
  OBVIOUS
<1>2. PICK citizens, e1, e2, e3, ids :
        /\ citizens = v.static_entity_keys
        /\ e1 = update_players(v.entities, snapshot.players)
        /\ e2 = update_npcs(e1, snapshot.npcs)
        /\ e3 = update_floor_items(e2, snapshot.items_on_floor)
        /\ ids = ids_en_snapshot(snapshot)
  OBVIOUS
<1>3. PICK e4 : e4 = cleanup_stale_entities(e3, citizens, ids)
  OBVIOUS
<1>4. u = [v EXCEPT !.entities = e4]
  BY <1>1, <1>2, <1>3, Zenon DEF update_entities
<1>5. DOMAIN u = DOMAIN v /\ u.entities = e4 /\ u.static_entity_keys = citizens
  BY <1>2, <1>4 DEF IsView
<1>6. DOMAIN e4 = DOMAIN e3 \intersect (ids \union citizens) /\ \A key \in DOMAIN e4 : e4[key] = e3[key]
  BY <1>3 DEF cleanup_stale_entities, Restrict
<1>7. /\ DOMAIN snapshot.players \subseteq Ids
      /\ DOMAIN snapshot.npcs \subseteq Ids
      /\ DOMAIN snapshot.items_on_floor \subseteq Tiles
  BY <1>1, SnapshotIsNumbered DEF Numbered
<1>8. PICK a, b, c : /\ a = {player_entity_key(id) : id \in DOMAIN snapshot.players}
                     /\ b = {npc_entity_key(id) : id \in DOMAIN snapshot.npcs}
                     /\ c = {item_entity_key(tile) : tile \in DOMAIN snapshot.items_on_floor}
  OBVIOUS
<1>9. Shown(v.entities, citizens)
  BY <1>2 DEF IsView, Shown
<1>10. /\ Apart(e1) /\ DOMAIN e1 = DOMAIN v.entities \union a
       /\ \A id \in DOMAIN snapshot.players : e1[player_entity_key(id)].tile = snapshot.players[id]
  BY <1>2, <1>7, <1>8, <1>9, PlayersAreThere
<1>11. Shown(e1, citizens)
  BY <1>2, <1>9, ListsKeep
<1>12. /\ Apart(e2) /\ DOMAIN e2 = DOMAIN e1 \union b
       /\ \A id \in DOMAIN snapshot.npcs : e2[npc_entity_key(id)].tile = snapshot.npcs[id]
       /\ \A key \in DOMAIN e1 : key \notin b => e2[key] = e1[key]
  <2>1. PICK npcs : npcs = snapshot.npcs
    OBVIOUS
  <2>2. DOMAIN npcs \subseteq Ids
    BY <1>7, <2>1
  <2>5. e2 = update_npcs(e1, npcs)
    BY <1>2, <2>1
  <2>3. b = {npc_entity_key(id) : id \in DOMAIN npcs}
    BY <1>8, <2>1
  <2>4. Shown(e1, citizens) /\ Apart(e1)
    BY <1>10, <1>11
  <2>6. There(npcs, b, e1, e2)
    BY <2>2, <2>3, <2>4, <2>5, NpcsAreThere
  <2> QED BY <2>1, <2>6 DEF There
<1>13. /\ Apart(e3) /\ DOMAIN e3 = DOMAIN e2 \union c
       /\ \A key \in DOMAIN e2 : e3[key] = e2[key]
  BY <1>2, <1>7, <1>8, <1>12, ThingsAreThere
<1>14. ids = a \union b \union c
  BY <1>2, <1>8 DEF ids_en_snapshot
<1>15. Apart(u.entities)
  BY <1>5, <1>6, <1>13 DEF Apart
<1>16. citizens \intersect ids = {} /\ \A id \in DOMAIN snapshot.players : player_entity_key(id) \notin b
  <2>1. citizens \in {{}, MapKeys}
    BY <1>2 DEF IsView
  <2> QED BY <1>1, <1>2, <1>8, <2>1, KeysApart
<1>17. DOMAIN u.entities \ u.static_entity_keys = ids
  BY <1>5, <1>6, <1>10, <1>12, <1>13, <1>14, <1>16
<1>18. ASSUME NEW id \in DOMAIN snapshot.players
       PROVE  u.entities[player_entity_key(id)].tile = snapshot.players[id]
  <2>1. PICK key : key = player_entity_key(id)
    OBVIOUS
  <2>2. key \in a /\ key \notin b
    BY <1>8, <1>16, <2>1
  <2>3. e4[key] = e3[key] /\ e3[key] = e2[key] /\ e2[key] = e1[key]
    BY <1>6, <1>10, <1>12, <1>13, <1>14, <2>2
  <2> QED BY <1>5, <1>10, <2>1, <2>3
<1>19. ASSUME NEW id \in DOMAIN snapshot.npcs
       PROVE  u.entities[npc_entity_key(id)].tile = snapshot.npcs[id]
  <2>1. PICK key : key = npc_entity_key(id)
    OBVIOUS
  <2>2. key \in b
    BY <1>8, <2>1
  <2>3. e4[key] = e3[key] /\ e3[key] = e2[key]
    BY <1>6, <1>12, <1>13, <1>14, <2>2
  <2> QED BY <1>5, <1>12, <2>1, <2>3
<1>20. Here(u, snapshot)
  BY <1>2, <1>17, <1>18, <1>19 DEF Here
<1> QED BY <1>1, <1>4, <1>15, <1>20

-----------------------------------------------------------------------------
(***************************************************************************)
(* The sounds of a snapshot.                                               *)
(***************************************************************************)

\* The sounds picked with one more, s.
PickedWith(selected, s) ==
  IF \/ Cardinality(selected) = MAX_SOUNDS_PER_SNAPSHOT
     \/ \E t \in selected : is_same_sound_nearby(t, s)
  THEN selected ELSE selected \cup {s}

\* The sounds picked of the first ones, in an order.
Picks(picked, effects, sorted) ==
  picked = [n \in 0 .. Len(sorted) |->
              IF n = 0 THEN {} ELSE PickedWith(picked[n - 1], effects[sorted[n]])]

\* The sounds picked exist.
LEMMA PicksExist ==
  ASSUME NEW effects, NEW sorted, NEW N \in Nat, N = Len(sorted)
  PROVE  \E picked : Picks(picked, effects, sorted)
<1>1. PICK S : S = {effects[sorted[n]] : n \in 1 .. N}
  OBVIOUS
<1>2. PICK D : D = SUBSET S
  OBVIOUS
<1>3. PICK step : step = [n \in 1 .. N |-> [c \in D |-> PickedWith(c, effects[sorted[n]])]]
  OBVIOUS
<1>4. ASSUME NEW n \in 1 .. N, NEW c \in D PROVE PickedWith(c, effects[sorted[n]]) \in D
  <2>1. PICK s : s = effects[sorted[n]]
    OBVIOUS
  <2>2. PickedWith(c, s) = c \/ PickedWith(c, s) = c \union {s}
    BY DEF PickedWith
  <2>3. s \in S
    BY <1>1, <2>1
  <2> QED BY <1>2, <2>1, <2>2, <2>3
<1>5. step \in Stepper(N, D) /\ {} \in D
  BY <1>2, <1>3, <1>4 DEF Stepper
<1>6. PICK f : Follows(f, N, D, {}, step)
  BY <1>5, RecursionExists
<1>7. f \in [0 .. N -> D] /\ f[0] = {} /\ \A n \in 1 .. N : f[n] = step[n][f[n - 1]]
  BY <1>6 DEF Follows
<1>8. ASSUME NEW n \in 0 .. N
      PROVE  f[n] = IF n = 0 THEN {} ELSE PickedWith(f[n - 1], effects[sorted[n]])
  <2>1. CASE n = 0
    BY <1>7, <2>1
  <2>2. CASE n # 0
    <3>1. n \in 1 .. N /\ n - 1 \in 0 .. N
      BY <2>2
    <3>2. f[n - 1] \in D
      BY <1>7, <3>1
    <3>3. step[n][f[n - 1]] = PickedWith(f[n - 1], effects[sorted[n]])
      BY <1>3, <3>1, <3>2
    <3> QED BY <1>7, <2>2, <3>1, <3>3
  <2> QED BY <2>1, <2>2
<1>9. f = [n \in 0 .. N |-> IF n = 0 THEN {} ELSE PickedWith(f[n - 1], effects[sorted[n]])]
  BY <1>7, <1>8
<1>10. Picks(f, effects, sorted)
  BY <1>9 DEF Picks
<1> QED BY <1>10

\* Why the m-th sound, s, is not among those picked: one near it is, or they were as
\* many as fit before its turn.
Missed(c, sound, m) ==
  \/ \E t \in c : is_same_sound_nearby(t, sound[m])
  \/ Cardinality(c) = MAX_SOUNDS_PER_SNAPSHOT /\ \A t \in c : \E j \in 1 .. m : t = sound[j]

\* Of the first n sounds those that are not picked are missed for a reason.
LEMMA PickedAre ==
  ASSUME NEW N \in Nat, NEW sound, NEW picked,
         \A n \in 0 .. N : picked[n] = IF n = 0 THEN {} ELSE PickedWith(picked[n - 1], sound[n])
  PROVE  /\ \A t \in picked[N] : \E j \in 1 .. N : t = sound[j]
         /\ \A m \in 1 .. N : sound[m] \in picked[N] \/ Missed(picked[N], sound, m)
<1> DEFINE Good(c, n) == /\ \A t \in c : \E j \in 1 .. n : t = sound[j]
                         /\ \A m \in 1 .. n : sound[m] \in c \/ Missed(c, sound, m)
           S == {n \in 0 .. N : Good(picked[n], n)}
<1>1. 0 \in S
  <2>1. picked[0] = {} /\ 1 .. 0 = {} /\ 0 \in 0 .. N
    OBVIOUS
  <2> QED BY <2>1
<1>2. ASSUME NEW n \in 0 .. N, n \in S, n < N PROVE n + 1 \in S
  <2>1. PICK k : k = n + 1
    OBVIOUS
  <2>2. k \in 1 .. N /\ k \in 0 .. N /\ k - 1 = n /\ k # 0 /\ n \in Nat /\ k \in Nat
    BY <1>2, <2>1
  <2>3. PICK c, d, s : c = picked[n] /\ d = picked[k] /\ s = sound[k]
    OBVIOUS
  <2>4. d = PickedWith(c, s)
    BY <2>2, <2>3
  <2>5. /\ \A t \in c : \E j \in 1 .. n : t = sound[j]
        /\ \A m \in 1 .. n : sound[m] \in c \/ Missed(c, sound, m)
    BY <1>2, <2>3
  <2>6. \A j \in 1 .. n : j \in 1 .. k
    BY <2>2
  <2>7. \A m \in 1 .. k : m \in 1 .. n \/ m = k
    BY <2>1, <2>2
  <2>8. k \in 1 .. k
    BY <2>2
  <2>9. CASE d = c /\ Cardinality(c) = MAX_SOUNDS_PER_SNAPSHOT
    <3>1. \A t \in d : \E j \in 1 .. k : t = sound[j]
      BY <2>5, <2>6, <2>9
    <3>2. Missed(d, sound, k)
      BY <2>9, <3>1 DEF Missed
    <3>3. \A m \in 1 .. k : sound[m] \in d \/ Missed(d, sound, m)
      BY <2>5, <2>7, <2>9, <3>2
    <3> QED BY <2>1, <2>2, <2>3, <3>1, <3>3
  <2>10. CASE d = c /\ \E t \in c : is_same_sound_nearby(t, s)
    <3>1. \A t \in d : \E j \in 1 .. k : t = sound[j]
      BY <2>5, <2>6, <2>10
    <3>2. Missed(d, sound, k)
      BY <2>3, <2>10 DEF Missed
    <3>3. \A m \in 1 .. k : sound[m] \in d \/ Missed(d, sound, m)
      BY <2>5, <2>7, <2>10, <3>2
    <3> QED BY <2>1, <2>2, <2>3, <3>1, <3>3
  <2>11. CASE d = c \union {s} /\ Cardinality(c) # MAX_SOUNDS_PER_SNAPSHOT
    <3>1. \A t \in d : \E j \in 1 .. k : t = sound[j]
      BY <2>3, <2>5, <2>6, <2>8, <2>11
    <3>2. ASSUME NEW m \in 1 .. n PROVE sound[m] \in d \/ Missed(d, sound, m)
      <4>1. sound[m] \in c \/ Missed(c, sound, m)
        BY <2>5
      <4>2. CASE Missed(c, sound, m)
        <5>1. \E t \in c : is_same_sound_nearby(t, sound[m])
          BY <2>11, <4>2 DEF Missed
        <5>2. \E t \in d : is_same_sound_nearby(t, sound[m])
          BY <2>11, <5>1
        <5> QED BY <5>2 DEF Missed
      <4> QED BY <2>11, <4>1, <4>2
    <3>3. sound[k] \in d
      BY <2>3, <2>11
    <3>4. \A m \in 1 .. k : sound[m] \in d \/ Missed(d, sound, m)
      BY <2>7, <3>2, <3>3
    <3> QED BY <2>1, <2>2, <2>3, <3>1, <3>4
  <2> QED BY <2>4, <2>9, <2>10, <2>11 DEF PickedWith
<1>3. N \in S
  <2> HIDE DEF S
  <2>1. \A n \in 0 .. N : n \in S
    BY <1>1, <1>2, UpTo
  <2> QED BY <2>1
<1> QED BY <1>3

\* An order has every place once.
LEMMA OrderIs ==
  ASSUME NEW N \in Nat, NEW sorted \in SetToSeqs(1 .. N)
  PROVE  /\ Len(sorted) = N /\ sorted \in [1 .. N -> 1 .. N]
         /\ \A k \in 1 .. N : \E m \in 1 .. N : sorted[m] = k
<1>1. IsFiniteSet(1 .. N) /\ Cardinality(1 .. N) = N
  BY FS_Interval
<1>2. sorted \in [1 .. N -> 1 .. N] /\ \A i, j \in 1 .. N : i # j => sorted[i] # sorted[j]
  BY <1>1 DEF SetToSeqs
<1>3. sorted \in Injection(1 .. N, 1 .. N)
  BY <1>2 DEF Injection, IsInjective
<1>4. sorted \in Surjection(1 .. N, 1 .. N)
  BY <1>1, <1>3, FS_Injection
<1>5. \A k \in 1 .. N : \E m \in 1 .. N : sorted[m] = k
  BY <1>4 DEF Surjection
<1>6. Len(sorted) = N
  BY <1>2
<1> QED BY <1>2, <1>5, <1>6

\* None is more important than one before it.
LEMMA OrderSorts ==
  ASSUME NEW effects, NEW at, NEW sorted \in Orders(effects, at),
         NEW j \in DOMAIN effects, NEW m \in DOMAIN effects, j < m
  PROVE  /\ sound_effect_priority(effects[sorted[j]].id) \in Int
         /\ sound_effect_priority(effects[sorted[m]].id) \in Int
         /\ sound_effect_priority(effects[sorted[j]].id) >=
              sound_effect_priority(effects[sorted[m]].id)
<1>1. \A id : sound_effect_priority(id) \in Int
  BY ViewAssumption DEF sound_effect_priority
<1>2. ~(sound_effect_priority(effects[sorted[m]].id) > sound_effect_priority(effects[sorted[j]].id))
  BY Zenon DEF Orders
<1>3. PICK a, b : /\ a = sound_effect_priority(effects[sorted[m]].id)
                  /\ b = sound_effect_priority(effects[sorted[j]].id)
  OBVIOUS
<1>4. a \in Int /\ b \in Int /\ ~(a > b)
  BY <1>1, <1>2, <1>3
<1>5. b >= a
  BY <1>4
<1> QED BY <1>3, <1>4, <1>5

\* The sounds that are picked, and why the others are not.
LEMMA SoundsAreHeard ==
  ASSUME NEW E, NEW effects \in Seq(E), NEW at,
         NEW heard \in select_audible_sound_effects(effects, at)
  PROVE  HeardIs(heard, Range(effects))
<1>1. PICK N : N = Len(effects)
  OBVIOUS
<1>2. N \in Nat /\ DOMAIN effects = 1 .. N
  BY <1>1, LenProperties
<1>3. PICK sorted \in Orders(effects, at) :
        heard = (CHOOSE picked : Picks(picked, effects, sorted))[Len(sorted)]
  BY Zenon DEF select_audible_sound_effects, PickedWith, Picks
<1>4. sorted \in SetToSeqs(1 .. N)
  BY <1>2, <1>3 DEF Orders
<1>5. /\ Len(sorted) = N /\ sorted \in [1 .. N -> 1 .. N]
      /\ \A k \in 1 .. N : \E m \in 1 .. N : sorted[m] = k
  BY <1>2, <1>4, OrderIs
<1>6. PICK picked : picked = CHOOSE p : Picks(p, effects, sorted)
  OBVIOUS
<1>7. Picks(picked, effects, sorted)
  <2>1. \E p : Picks(p, effects, sorted)
    BY <1>2, <1>5, PicksExist
  <2> QED BY <1>6, <2>1
<1>8. PICK sound : sound = [n \in 1 .. N |-> effects[sorted[n]]]
  OBVIOUS
<1>9. \A n \in 0 .. N : picked[n] = IF n = 0 THEN {} ELSE PickedWith(picked[n - 1], sound[n])
  <2>1. ASSUME NEW n \in 0 .. N
        PROVE  picked[n] = IF n = 0 THEN {} ELSE PickedWith(picked[n - 1], sound[n])
    <3>1. picked[n] = IF n = 0 THEN {} ELSE PickedWith(picked[n - 1], effects[sorted[n]])
      BY <1>5, <1>7 DEF Picks
    <3>2. n # 0 => n \in 1 .. N
      BY <1>2
    <3>3. n # 0 => sound[n] = effects[sorted[n]]
      BY <1>8, <3>2
    <3> QED BY <3>1, <3>3
  <2> QED BY <2>1
<1>10. heard = picked[N]
  BY <1>3, <1>5, <1>6
<1>11. /\ \A t \in heard : \E j \in 1 .. N : t = sound[j]
       /\ \A m \in 1 .. N : sound[m] \in heard \/ Missed(heard, sound, m)
  <2>1. N \in Nat
    BY <1>2
  <2>2. /\ \A t \in picked[N] : \E j \in 1 .. N : t = sound[j]
        /\ \A m \in 1 .. N : sound[m] \in picked[N] \/ Missed(picked[N], sound, m)
    BY ZenonT(30), <1>9, <2>1, PickedAre
  <2> QED BY Zenon, <1>10, <2>2
<1>12. \A n \in 1 .. N : sound[n] \in Range(effects)
  BY <1>2, <1>5, <1>8 DEF Range
<1>13. heard \subseteq Range(effects)
  BY <1>11, <1>12
<1>14. ASSUME NEW j \in 1 .. N, NEW m \in 1 .. N, j <= m
       PROVE  sound_effect_priority(sound[j].id) >= sound_effect_priority(sound[m].id)
  <2>1. CASE j = m
    <3>1. PICK a : a = sound_effect_priority(sound[j].id)
      OBVIOUS
    <3>2. a \in Int
      BY <3>1, ViewAssumption DEF sound_effect_priority
    <3>3. a >= a
      BY <3>2
    <3> QED BY <2>1, <3>1, <3>3
  <2>2. CASE j # m
    <3>1. j < m
      BY <1>2, <1>14, <2>2
    <3>2. sound_effect_priority(effects[sorted[j]].id) >=
            sound_effect_priority(effects[sorted[m]].id)
      BY <1>2, <1>3, <3>1, OrderSorts
    <3> QED BY <1>8, <3>2
  <2> QED BY <2>1, <2>2
<1>15. ASSUME NEW s \in Range(effects) \ heard
       PROVE  \/ \E t \in heard : is_same_sound_nearby(t, s)
              \/ /\ Cardinality(heard) = MAX_SOUNDS_PER_SNAPSHOT
                 /\ \A t \in heard : sound_effect_priority(t.id) >= sound_effect_priority(s.id)
  <2>1. PICK k \in 1 .. N : s = effects[k]
    BY <1>2 DEF Range
  <2>2. PICK m \in 1 .. N : sorted[m] = k
    BY <1>5
  <2>3. s = sound[m]
    BY <1>8, <2>1, <2>2
  <2>4. Missed(heard, sound, m)
    BY <1>11, <1>15, <2>3
  <2>5. CASE \E t \in heard : is_same_sound_nearby(t, sound[m])
    BY <2>3, <2>5
  <2>6. CASE Cardinality(heard) = MAX_SOUNDS_PER_SNAPSHOT /\ \A t \in heard : \E j \in 1 .. m : t = sound[j]
    <3>1. ASSUME NEW t \in heard
          PROVE  sound_effect_priority(t.id) >= sound_effect_priority(s.id)
      <4>1. PICK j \in 1 .. m : t = sound[j]
        BY <2>6, <3>1
      <4>2. j \in 1 .. N /\ j <= m
        BY <1>2
      <4> QED BY <1>14, <2>3, <4>1, <4>2
    <3> QED BY <2>6, <3>1
  <2> QED BY <2>4, <2>5, <2>6 DEF Missed
<1> QED BY <1>13, <1>15 DEF HeardIs

\* What a snapshot leaves as it is.
SameHud(v, w) ==
  /\ w.static_entity_keys = v.static_entity_keys /\ w.local_player_id = v.local_player_id
  /\ w.inventory_slots = v.inventory_slots
  /\ w.equipped_inventory_slots = v.equipped_inventory_slots
  /\ w.console = v.console /\ w.console_scroll_offset = v.console_scroll_offset

\* A snapshot that the client takes is shown, and its sounds are heard.
LEMMA SnapshotIsShown ==
  ASSUME NEW v, IsView(v), IsScreen(v), NEW s, NEW i \in DOMAIN Snapshots,
         s.answer = "accepted" => v.local_player_id = Me,
         NEW w \in update_from_snapshot(v, Snapshots[i])
  PROVE  IsScreen(w) /\ SameHud(v, w) /\ (s.snapshot = i => Shows(w, s))
<1>1. PICK snapshot, u : snapshot = Snapshots[i] /\ u = update_entities(v, snapshot)
  OBVIOUS
<1>2. Here(u, snapshot) /\ Apart(u.entities) /\ \E e : u = [v EXCEPT !.entities = e]
  BY <1>1, SnapshotIsThere DEF IsScreen
<1>3. PICK heard \in process_sound_effects(u, snapshot.sound_effects) : w = [u EXCEPT !.heard = heard]
  BY <1>1 DEF update_from_snapshot
<1>4. DOMAIN u = DOMAIN v /\ SameHud(v, u)
  BY <1>2 DEF IsView, SameHud
<1>5. w.heard = heard /\ w.entities = u.entities /\ SameHud(u, w)
  BY <1>3, <1>4 DEF IsView, SameHud
<1>6. SameHud(v, w)
  BY <1>4, <1>5 DEF SameHud
<1>7. IsScreen(w)
  BY <1>2, <1>5, <1>6 DEF IsScreen, SameHud
<1>8. ASSUME s.snapshot = i PROVE Shows(w, s)
  <2>1. i # 0
    BY ClientAssumption
  <2>2. Here(w, snapshot)
    BY <1>2, <1>5 DEF Here, SameHud
  <2>3. ASSUME s.answer = "accepted", Me \in DOMAIN snapshot.players
        PROVE  HeardIs(w.heard, Range(snapshot.sound_effects))
    <3>1. u.local_player_id = Me
      BY <1>4, <1>8, <2>3 DEF SameHud
    <3>2. player_entity_key(Me) \in DOMAIN u.entities
      BY <1>2, <2>3 DEF Here, ids_en_snapshot
    <3>3. \E at : heard \in select_audible_sound_effects(snapshot.sound_effects, at)
      BY <1>3, <3>1, <3>2 DEF process_sound_effects
    <3>4. snapshot.sound_effects \in Seq(Range(snapshot.sound_effects))
      BY <1>1, ClientAssumption
    <3> QED BY <1>5, <3>3, <3>4, SoundsAreHeard
  <2> QED BY <1>1, <1>8, <2>1, <2>2, <2>3 DEF Shows
<1> QED BY <1>6, <1>7, <1>8

-----------------------------------------------------------------------------
(***************************************************************************)
(* The events.                                                             *)
(***************************************************************************)

\* What a message of a kind, that says x, makes of the view v.
Takes(kind, x, v, w, s) ==
  /\ IsScreen(w) /\ w.local_player_id = v.local_player_id
  /\ w.static_entity_keys = IF kind = "MAP_DATA" THEN MapKeys ELSE v.static_entity_keys
  /\ w.inventory_slots = IF kind = "INVENTORY_UPDATE" THEN Slots[x] ELSE v.inventory_slots
  /\ equipment_slot_at(w) = IF kind = "EQUIPMENT_UPDATE" THEN DOMAIN Slots[x]
                            ELSE equipment_slot_at(v)
  /\ KeepsTexts(v.console, w.console)
  /\ kind = "CHAT_MSG" =>
       x \in Spoken \union Range(w.console) \/ Len(w.console) = MAX_CHAT_LOG_SIZE
  /\ kind = "SNAPSHOT" /\ s.snapshot = x => Shows(w, s)
  /\ kind # "SNAPSHOT" /\ Shows(v, s) => Shows(w, s)

\* The view that takes the first message owes what is after it.
LEMMA TakenIsShown ==
  ASSUME NEW p, Len(p) \in Nat \ {0}, NEW kind, NEW x, p[1] = <<kind, x>>,
         NEW v, NEW w, NEW s, Due(p, 1, v, s), Takes(kind, x, v, w, s)
  PROVE  Due(p, 2, w, s)
<1>1. p[1][1] = kind /\ \A k, y : p[1] = <<k, y>> => k = kind /\ y = x
  OBVIOUS
<1>2. /\ IsScreen(w)
      /\ p[1][1] = "MAP_DATA" => w.static_entity_keys = MapKeys
      /\ p[1][1] # "MAP_DATA" => w.static_entity_keys = v.static_entity_keys
  BY <1>1 DEF Takes
<1>3. /\ \A i : p[1] = <<"INVENTORY_UPDATE", i>> => w.inventory_slots = Slots[i]
      /\ p[1][1] # "INVENTORY_UPDATE" => w.inventory_slots = v.inventory_slots
  BY <1>1 DEF Takes
<1>4. /\ \A i : p[1] = <<"EQUIPMENT_UPDATE", i>> => equipment_slot_at(w) = DOMAIN Slots[i]
      /\ p[1][1] # "EQUIPMENT_UPDATE" => equipment_slot_at(w) = equipment_slot_at(v)
  BY <1>1 DEF Takes
<1>5. /\ KeepsTexts(v.console, w.console)
      /\ \A y : p[1] = <<"CHAT_MSG", y>> =>
           y \in Spoken \union Range(w.console) \/ Len(w.console) = MAX_CHAT_LOG_SIZE
  BY <1>1 DEF Takes
<1>6. /\ p[1] = <<"SNAPSHOT", s.snapshot>> => Shows(w, s)
      /\ p[1][1] # "SNAPSHOT" /\ Shows(v, s) => Shows(w, s)
  BY <1>1 DEF Takes
<1> QED BY <1>2, <1>3, <1>4, <1>5, <1>6, DueTaken

\* No text goes when the console stays.
LEMMA TextsStay ==
  ASSUME NEW u
  PROVE  KeepsTexts(u, u)
BY DEF KeepsTexts

\* The world and its sounds are shown as before if neither changes.
LEMMA WorldStays ==
  ASSUME NEW v, NEW w, NEW s, w.entities = v.entities,
         w.static_entity_keys = v.static_entity_keys, w.heard = v.heard, Shows(v, s)
  PROVE  Shows(w, s)
BY DEF Shows, Here

\* The map: only the citizens are shown, when nobody was.
LEMMA MapIsTaken ==
  ASSUME NEW v, IsView(v), IsScreen(v), NEW s, DOMAIN v.entities = {}, NEW x,
         v.static_entity_keys = {}, NEW w, w = load_map(v, Citizens)
  PROVE  Takes("MAP_DATA", x, v, w, s)
<1>1. PICK entities : entities = [key \in MapKeys |->
                         NewEntity("CITIZEN", Citizens[key - CITIZEN_ENTITY_OFFSET], 0)]
  OBVIOUS
<1>2. w = [v EXCEPT !.entities = entities, !.static_entity_keys = MapKeys]
  BY <1>1 DEF load_map, MapKeys
<1>3. /\ DOMAIN w = DOMAIN v /\ w.entities = entities /\ w.static_entity_keys = MapKeys
      /\ w.local_player_id = v.local_player_id /\ w.inventory_slots = v.inventory_slots
      /\ w.equipped_inventory_slots = v.equipped_inventory_slots /\ w.heard = v.heard
      /\ w.console = v.console /\ w.console_scroll_offset = v.console_scroll_offset
  BY <1>2 DEF IsView
<1>4. DOMAIN entities = MapKeys /\ \A key \in MapKeys : entities[key].type = "CITIZEN"
  BY <1>1, NewIsEntity
<1>5. Apart(entities)
  <2>1. "CITIZEN" # "ITEM"
    OBVIOUS
  <2> QED BY <1>4, <2>1 DEF Apart
<1>6. IsScreen(w)
  BY <1>3, <1>5 DEF IsScreen
<1>7. ASSUME Shows(v, s) PROVE Shows(w, s)
  <2>1. CASE s.snapshot = 0
    BY <1>3, <1>4, <2>1 DEF Shows
  <2>2. CASE s.snapshot # 0
    <3>1. PICK snapshot : snapshot = Snapshots[s.snapshot]
      OBVIOUS
    <3>2. Here(v, snapshot)
      BY <1>7, <2>2, <3>1 DEF Shows
    <3>3. ids_en_snapshot(snapshot) = {}
      BY <3>2 DEF Here
    <3>4. DOMAIN snapshot.players = {} /\ DOMAIN snapshot.npcs = {}
      BY <3>3 DEF ids_en_snapshot
    <3>5. Here(w, snapshot)
      BY <1>3, <1>4, <3>3, <3>4 DEF Here
    <3> QED BY <1>3, <1>7, <2>2, <3>1, <3>5 DEF Shows
  <2> QED BY <2>1, <2>2
<1>8. equipment_slot_at(w) = equipment_slot_at(v)
  BY <1>3 DEF equipment_slot_at
<1> QED BY <1>3, <1>6, <1>7, <1>8, TextsStay DEF Takes

\* The slots of the inventory.
LEMMA InventoryIsTaken ==
  ASSUME NEW v, IsView(v), IsScreen(v), NEW s, NEW x,
         NEW w, w = update_inventory(v, Slots[x])
  PROVE  Takes("INVENTORY_UPDATE", x, v, w, s)
<1>1. PICK slots : slots = Slots[x]
  OBVIOUS
<1>2. w = [v EXCEPT !.inventory_slots = slots]
  BY <1>1 DEF update_inventory
<1>3. /\ DOMAIN w = DOMAIN v /\ w.entities = v.entities /\ w.heard = v.heard
      /\ w.static_entity_keys = v.static_entity_keys
      /\ w.local_player_id = v.local_player_id /\ w.inventory_slots = slots
      /\ w.equipped_inventory_slots = v.equipped_inventory_slots
      /\ w.console = v.console /\ w.console_scroll_offset = v.console_scroll_offset
  BY <1>2 DEF IsView
<1>4. IsScreen(w)
  BY <1>3 DEF IsScreen
<1>5. Shows(v, s) => Shows(w, s)
  BY <1>3, WorldStays
<1>6. equipment_slot_at(w) = equipment_slot_at(v)
  BY <1>3 DEF equipment_slot_at
<1> QED BY <1>1, <1>3, <1>4, <1>5, <1>6, TextsStay DEF Takes

\* Those of the equipment.
LEMMA EquipmentIsTaken ==
  ASSUME NEW v, IsView(v), IsScreen(v), NEW s, NEW x \in DOMAIN Slots,
         NEW w, w = update_equipment(v, Slots[x])
  PROVE  Takes("EQUIPMENT_UPDATE", x, v, w, s)
<1>1. PICK slots, keys : slots = Slots[x] /\ keys = {n + EQUIP_KEY_OFFSET : n \in DOMAIN slots}
  OBVIOUS
<1>2. PICK equipped : equipped = [key \in keys |-> slots[key - EQUIP_KEY_OFFSET]]
  OBVIOUS
<1>3. w = [v EXCEPT !.equipped_inventory_slots = equipped]
  BY <1>1, <1>2 DEF update_equipment
<1>4. /\ DOMAIN w = DOMAIN v /\ w.entities = v.entities /\ w.heard = v.heard
      /\ w.static_entity_keys = v.static_entity_keys
      /\ w.local_player_id = v.local_player_id /\ w.inventory_slots = v.inventory_slots
      /\ w.equipped_inventory_slots = equipped
      /\ w.console = v.console /\ w.console_scroll_offset = v.console_scroll_offset
  BY <1>3 DEF IsView
<1>5. IsScreen(w)
  BY <1>4 DEF IsScreen
<1>6. Shows(v, s) => Shows(w, s)
  BY <1>4, WorldStays
<1>7. equipment_slot_at(w) = DOMAIN slots
  <2>1. DOMAIN slots \subseteq Int
    BY <1>1, ClientAssumption
  <2>2. equipment_slot_at(w) = {key - EQUIP_KEY_OFFSET : key \in keys}
    BY <1>2, <1>4 DEF equipment_slot_at
  <2>3. \A n \in DOMAIN slots : n + EQUIP_KEY_OFFSET \in keys /\ n + EQUIP_KEY_OFFSET - EQUIP_KEY_OFFSET = n
    BY <1>1, <2>1 DEF EQUIP_KEY_OFFSET
  <2>4. \A key \in keys : \E n \in DOMAIN slots : key = n + EQUIP_KEY_OFFSET
    BY <1>1
  <2>5. ASSUME NEW key \in keys PROVE key - EQUIP_KEY_OFFSET \in DOMAIN slots
    <3>1. PICK n \in DOMAIN slots : key = n + EQUIP_KEY_OFFSET
      BY <2>4
    <3>2. key - EQUIP_KEY_OFFSET = n
      BY <2>1, <3>1 DEF EQUIP_KEY_OFFSET
    <3> QED BY <3>2
  <2>6. ASSUME NEW n \in DOMAIN slots PROVE \E key \in keys : n = key - EQUIP_KEY_OFFSET
    <3>1. PICK key : key = n + EQUIP_KEY_OFFSET
      OBVIOUS
    <3>2. key \in keys
      BY <2>3, <3>1
    <3>3. key - EQUIP_KEY_OFFSET = n
      BY <2>1, <3>1 DEF EQUIP_KEY_OFFSET
    <3> QED BY <3>2, <3>3
  <2> QED BY <2>2, <2>5, <2>6
<1> QED BY <1>1, <1>4, <1>5, <1>6, <1>7, TextsStay DEF Takes

\* Lines for the console, of a chat or of a list.
LEMMA LinesAreTaken ==
  ASSUME NEW v, IsView(v), IsScreen(v), NEW s, NEW x, NEW lines, IsSeq(lines),
         NEW w, w = add_chat_messages(v, lines),
         NEW kind \in {"CHAT_MSG", "TRADER_CATALOG", "BANK_CONTENT"},
         kind = "CHAT_MSG" => lines = <<x>>
  PROVE  Takes(kind, x, v, w, s)
<1>1. /\ IsScreen(w) /\ SameBut(v, w) /\ KeepsTexts(v.console, w.console)
      /\ \A i \in 1 .. Len(lines) :
           lines[i] \in Range(w.console) \/ Len(w.console) = MAX_CHAT_LOG_SIZE
  BY LinesAreShown
<1>2. ASSUME kind = "CHAT_MSG"
      PROVE  x \in Range(w.console) \/ Len(w.console) = MAX_CHAT_LOG_SIZE
  <2>1. lines = <<x>> /\ Len(lines) = 1 /\ lines[1] = x /\ 1 \in 1 .. Len(lines)
    BY <1>2
  <2> QED BY <1>1, <2>1
<1>3. Shows(v, s) => Shows(w, s)
  BY <1>1, WorldStays DEF SameBut
<1>4. equipment_slot_at(w) = equipment_slot_at(v)
  BY <1>1 DEF equipment_slot_at, SameBut
<1>5. kind # "MAP_DATA" /\ kind # "INVENTORY_UPDATE" /\ kind # "EQUIPMENT_UPDATE" /\ kind # "SNAPSHOT"
  OBVIOUS
<1> QED BY <1>1, <1>2, <1>3, <1>4, <1>5 DEF Takes, SameBut

\* What a player says: nothing for the console.
LEMMA SpokenIsTaken ==
  ASSUME NEW v, IsScreen(v), NEW s, NEW x \in Spoken
  PROVE  Takes("CHAT_MSG", x, v, v, s)
BY TextsStay DEF Takes

\* A snapshot.
LEMMA SnapshotIsTaken ==
  ASSUME NEW v, IsView(v), IsScreen(v), NEW s, NEW x \in DOMAIN Snapshots,
         s.answer = "accepted" => v.local_player_id = Me,
         NEW w \in update_from_snapshot(v, Snapshots[x])
  PROVE  Takes("SNAPSHOT", x, v, w, s)
<1>1. IsScreen(w) /\ SameHud(v, w) /\ (s.snapshot = x => Shows(w, s))
  BY SnapshotIsShown
<1>2. equipment_slot_at(w) = equipment_slot_at(v)
  BY <1>1 DEF equipment_slot_at, SameHud
<1>3. KeepsTexts(v.console, w.console)
  BY <1>1, TextsStay DEF SameHud
<1> QED BY <1>1, <1>2, <1>3 DEF Takes, SameHud

\* Lines that are given, or all the same.
LEMMA LinesAreSeq ==
  /\ \A x : IsSeq(<<x>>)
  /\ \A x, y : IsSeq(<<x, y>>)
  /\ \A x : \A n \in Nat : IsSeq([i \in 1 .. n |-> x])
<1>1. ASSUME NEW x PROVE IsSeq(<<x>>)
  <2>1. <<x>> \in Seq({x})
    OBVIOUS
  <2> QED BY <2>1 DEF IsSeq
<1>2. ASSUME NEW x, NEW y PROVE IsSeq(<<x, y>>)
  <2>1. <<x, y>> \in Seq({x, y})
    OBVIOUS
  <2> QED BY <2>1 DEF IsSeq
<1>3. ASSUME NEW x, NEW n \in Nat PROVE IsSeq([i \in 1 .. n |-> x])
  <2>1. [i \in 1 .. n |-> x] \in [1 .. n -> {x}]
    OBVIOUS
  <2>2. [i \in 1 .. n |-> x] \in Seq({x})
    BY <2>1, SeqDef
  <2> QED BY <2>2 DEF IsSeq
<1> QED BY <1>1, <1>2, <1>3

\* An event of the loop of the game is shown.
LEMMA EventIsShown ==
  ASSUME IsView(view), HandleEvent, NEW e, e = Head(events_queue),
         NEW p, Len(p) \in Nat \ {0}, p[1] = <<e.op, e.arg>>, NEW s, Due(p, 1, view, s),
         s.answer = "accepted" => view.local_player_id = Me
  PROVE  Due(p, 2, view', s) /\ view'.local_player_id = view.local_player_id
<1>1. PICK kind, x : kind = e.op /\ x = e.arg
  OBVIOUS
<1>2. view' \in CASE kind = "SNAPSHOT" -> update_from_snapshot(view, Snapshots[x])
                  [] kind = "MAP_DATA" -> {load_map(view, Citizens)}
                  [] kind = "INVENTORY_UPDATE" -> {update_inventory(view, Slots[x])}
                  [] kind = "EQUIPMENT_UPDATE" -> {update_equipment(view, Slots[x])}
                  [] kind = "CHAT_MSG" -> {handle_chat_event(x)}
                  [] kind = "TRADER_CATALOG" -> {handle_merchant_event(x)}
                  [] kind = "BANK_CONTENT" -> {handle_bank_event(x)}
                  [] OTHER -> {view}
  BY <1>1 DEF HandleEvent
<1>3. p[1] = <<kind, x>> /\ p[1][1] = kind /\ p[1][2] = x /\ 1 \in 1 .. Len(p)
  BY <1>1
<1>4. Sendable(p[1])
  BY <1>3 DEF Due, Legal
<1>5. \/ kind = "SNAPSHOT" /\ x \in DOMAIN Snapshots
      \/ kind \in {"INVENTORY_UPDATE", "EQUIPMENT_UPDATE"} /\ x \in DOMAIN Slots
      \/ kind \in {"TRADER_CATALOG", "BANK_CONTENT"} /\ x \in Nat
      \/ kind \in {"CHAT_MSG", "MAP_DATA"}
  BY <1>3, <1>4 DEF Sendable
<1>6. IsScreen(view)
  BY DEF Due
<1>7. ASSUME Takes(kind, x, view, view', s)
      PROVE  Due(p, 2, view', s) /\ view'.local_player_id = view.local_player_id
  <2>1. view'.local_player_id = view.local_player_id
    BY <1>7 DEF Takes
  <2> QED BY <1>3, <1>7, <2>1, TakenIsShown
<1>8. CASE kind = "SNAPSHOT" /\ x \in DOMAIN Snapshots
  <2>1. view' \in update_from_snapshot(view, Snapshots[x])
    BY <1>2, <1>8
  <2>2. Takes("SNAPSHOT", x, view, view', s)
    BY <1>6, <1>8, <2>1, SnapshotIsTaken
  <2> QED BY <1>7, <1>8, <2>2
<1>9. CASE kind = "INVENTORY_UPDATE"
  <2>1. view' = update_inventory(view, Slots[x])
    BY <1>2, <1>9
  <2>2. Takes("INVENTORY_UPDATE", x, view, view', s)
    BY <1>6, <2>1, InventoryIsTaken
  <2> QED BY <1>7, <1>9, <2>2
<1>10. CASE kind = "EQUIPMENT_UPDATE" /\ x \in DOMAIN Slots
  <2>1. view' = update_equipment(view, Slots[x])
    BY <1>2, <1>10
  <2>2. Takes("EQUIPMENT_UPDATE", x, view, view', s)
    BY <1>6, <1>10, <2>1, EquipmentIsTaken
  <2> QED BY <1>7, <1>10, <2>2
<1>11. CASE kind = "CHAT_MSG"
  <2>1. view' = handle_chat_event(x)
    BY <1>2, <1>11
  <2>2. CASE x \in Spoken
    <3>1. view' = view
      BY <2>1, <2>2 DEF handle_chat_event, parse_server_message
    <3>2. Takes("CHAT_MSG", x, view, view', s)
      BY <1>6, <2>2, <3>1, SpokenIsTaken
    <3> QED BY <1>7, <1>11, <3>2
  <2>3. CASE x \notin Spoken
    <3>1. PICK lines : lines = <<x>>
      OBVIOUS
    <3>2. IsSeq(lines)
      BY <3>1, LinesAreSeq
    <3>3. view' = add_chat_messages(view, lines)
      BY <2>1, <2>3, <3>1 DEF handle_chat_event, parse_server_message, add_chat_message
    <3>4. Takes("CHAT_MSG", x, view, view', s)
      BY <1>6, <3>1, <3>2, <3>3, LinesAreTaken
    <3> QED BY <1>7, <1>11, <3>4
  <2> QED BY <2>2, <2>3
<1>12. CASE kind \in {"TRADER_CATALOG", "BANK_CONTENT"} /\ x \in Nat
  <2>1. \E lines : IsSeq(lines) /\ view' = add_chat_messages(view, lines)
    <3>1. PICK rest : rest = [i \in 1 .. x |-> "articulo"]
      OBVIOUS
    <3>2. IsSeq(rest) /\ IsSeq(<<"catalogo">>) /\ IsSeq(<<"banco", "oro">>)
      BY <1>12, <3>1, LinesAreSeq
    <3>3. PICK a, b : a = <<"catalogo">> \o rest /\ b = <<"banco", "oro">> \o rest
      OBVIOUS
    <3>4. IsSeq(a) /\ IsSeq(b)
      BY <3>2, <3>3, ConcatIs
    <3>5. view' = handle_merchant_event(x) \/ view' = handle_bank_event(x)
      BY <1>2, <1>12
    <3>6. view' = add_chat_messages(view, a) \/ view' = add_chat_messages(view, b)
      BY <3>1, <3>3, <3>5, Zenon DEF handle_merchant_event, handle_bank_event
    <3> QED BY <3>4, <3>6
  <2>2. PICK lines : IsSeq(lines) /\ view' = add_chat_messages(view, lines)
    BY <2>1
  <2>3. kind \in {"CHAT_MSG", "TRADER_CATALOG", "BANK_CONTENT"} /\ kind # "CHAT_MSG"
    BY <1>12
  <2>4. Takes(kind, x, view, view', s)
    BY <1>6, <2>2, <2>3, LinesAreTaken
  <2> QED BY <1>7, <2>4
<1>13. CASE kind = "MAP_DATA"
  <2>1. view' = load_map(view, Citizens)
    BY <1>2, <1>13
  <2>2. ~Silent(p, 1, "MAP_DATA")
    BY <1>3, <1>13 DEF Silent
  <2>3. DOMAIN view.entities = {} /\ view.static_entity_keys = {}
    BY <2>2 DEF Due, MapIsDue
  <2>4. Takes("MAP_DATA", x, view, view', s)
    BY <1>6, <2>1, <2>3, MapIsTaken
  <2> QED BY <1>7, <1>13, <2>4
<1> QED BY <1>5, <1>8, <1>9, <1>10, <1>11, <1>12, <1>13

\* A step of the user, or a frame, changes nothing of what the server says.
Looks(v, w, s) ==
  /\ IsScreen(w) /\ w.static_entity_keys = v.static_entity_keys
  /\ w.inventory_slots = v.inventory_slots
  /\ w.equipped_inventory_slots = v.equipped_inventory_slots
  /\ KeepsTexts(v.console, w.console)
  /\ DOMAIN w.entities = DOMAIN v.entities
  /\ Shows(v, s) => Shows(w, s)

\* So all is still due.
LEMMA DueStays ==
  ASSUME NEW p, NEW k, NEW v, NEW w, NEW s, Due(p, k, v, s), Looks(v, w, s)
  PROVE  Due(p, k, w, s)
<1>1. IsScreen(w) /\ w.static_entity_keys = v.static_entity_keys
  BY DEF Looks
<1>2. MapIsDue(p, k, v) => MapIsDue(p, k, w)
  BY DEF Looks, MapIsDue
<1>3. SlotsAreDue(p, k, v, s) => SlotsAreDue(p, k, w, s)
  BY DEF Looks, SlotsAreDue, equipment_slot_at
<1>4. ASSUME TextIsDue(p, k, v, s) PROVE TextIsDue(p, k, w, s)
  <2>1. KeepsTexts(v.console, w.console)
    BY DEF Looks
  <2>2. CASE s.text \in Range(v.console)
    BY <2>1, <2>2 DEF TextIsDue, KeepsTexts
  <2>3. CASE Len(v.console) = MAX_CHAT_LOG_SIZE
    BY <2>1, <2>3 DEF TextIsDue, KeepsTexts
  <2>4. CASE s.text \notin Range(v.console) /\ Len(v.console) # MAX_CHAT_LOG_SIZE
    BY <1>4, <2>4 DEF TextIsDue
  <2> QED BY <2>2, <2>3, <2>4
<1>5. WorldIsDue(p, k, v, s) => WorldIsDue(p, k, w, s)
  BY DEF Looks, WorldIsDue
<1> QED BY <1>1, <1>2, <1>3, <1>4, <1>5 DEF Due

\* A frame gives nobody another tile.
LEMMA FrameLooks ==
  ASSUME NEW v, IsView(v), IsScreen(v), NEW s, NEW arriving,
         NEW w, w = update_animations(v, arriving)
  PROVE  Looks(v, w, s) /\ w.local_player_id = v.local_player_id
<1>1. PICK entities :
        entities = [key \in DOMAIN v.entities |-> update(v.entities[key], key \in arriving)]
  OBVIOUS
<1>2. w = [v EXCEPT !.entities = entities]
  BY <1>1 DEF update_animations, IsView
<1>3. /\ DOMAIN w = DOMAIN v /\ w.entities = entities /\ w.heard = v.heard
      /\ w.static_entity_keys = v.static_entity_keys
      /\ w.local_player_id = v.local_player_id /\ w.inventory_slots = v.inventory_slots
      /\ w.equipped_inventory_slots = v.equipped_inventory_slots
      /\ w.console = v.console /\ w.console_scroll_offset = v.console_scroll_offset
  BY <1>2 DEF IsView
<1>4. DOMAIN entities = DOMAIN v.entities
  BY <1>1
<1>5. ASSUME NEW key \in DOMAIN entities
      PROVE  entities[key].tile = v.entities[key].tile /\ entities[key].type = v.entities[key].type
  <2>1. PICK e, arrives, after, place :
          /\ e = v.entities[key] /\ arrives = (key \in arriving)
          /\ after = update(e, arrives) /\ place = IF arrives THEN e.tile ELSE Between
    OBVIOUS
  <2>2. entities[key] = after /\ IsEntity(e)
    BY <1>1, <1>4, <2>1 DEF IsView
  <2>3. \/ after = e
        \/ after = [e EXCEPT !.pixel = place]
        \/ after = [e EXCEPT !.is_moving = FALSE]
    BY <2>1, Zenon DEF update
  <2>4. after.tile = e.tile /\ after.type = e.type
    BY <2>2, <2>3 DEF IsEntity
  <2> QED BY <2>1, <2>2, <2>4
<1>6. IsScreen(w)
  BY <1>3, <1>4, <1>5 DEF IsScreen, Apart
<1>7. ASSUME NEW snapshot, Here(v, snapshot) PROVE Here(w, snapshot)
  <2>1. DOMAIN w.entities \ w.static_entity_keys = ids_en_snapshot(snapshot)
    BY <1>3, <1>4, <1>7 DEF Here
  <2>2. ASSUME NEW id \in DOMAIN snapshot.players
        PROVE  w.entities[player_entity_key(id)].tile = snapshot.players[id]
    <3>1. player_entity_key(id) \in DOMAIN entities
      BY <1>3, <2>1 DEF ids_en_snapshot
    <3> QED BY <1>3, <1>5, <1>7, <3>1 DEF Here
  <2>3. ASSUME NEW id \in DOMAIN snapshot.npcs
        PROVE  w.entities[npc_entity_key(id)].tile = snapshot.npcs[id]
    <3>1. npc_entity_key(id) \in DOMAIN entities
      BY <1>3, <2>1 DEF ids_en_snapshot
    <3> QED BY <1>3, <1>5, <1>7, <3>1 DEF Here
  <2> QED BY <2>1, <2>2, <2>3 DEF Here
<1>8. Shows(v, s) => Shows(w, s)
  BY <1>3, <1>4, <1>7 DEF Shows
<1> QED BY <1>3, <1>4, <1>6, <1>8, TextsStay DEF Looks

\* The wheel scrolls within the lines.
LEMMA ScrollLooks ==
  ASSUME NEW v, IsView(v), IsScreen(v), NEW s, NEW delta \in {-1, 1},
         NEW w, w = scroll_console(v, delta)
  PROVE  Looks(v, w, s) /\ w.local_player_id = v.local_player_id
<1>1. PICK at, most, to : /\ at = v.console_scroll_offset /\ most = max_scroll(v.console)
                          /\ to = IF at + delta > most THEN most
                                  ELSE IF at + delta < 0 THEN 0 ELSE at + delta
  OBVIOUS
<1>2. w = [v EXCEPT !.console_scroll_offset = to]
  BY <1>1, Zenon DEF scroll_console
<1>3. /\ DOMAIN w = DOMAIN v /\ w.entities = v.entities /\ w.heard = v.heard
      /\ w.static_entity_keys = v.static_entity_keys
      /\ w.local_player_id = v.local_player_id /\ w.inventory_slots = v.inventory_slots
      /\ w.equipped_inventory_slots = v.equipped_inventory_slots
      /\ w.console = v.console /\ w.console_scroll_offset = to
  BY <1>2 DEF IsView
<1>4. most \in Nat
  <2>1. Len(v.console) \in Nat
    BY LenProperties DEF IsScreen, IsSeq
  <2> QED BY <1>1, <2>1, ViewAssumption DEF max_scroll
<1>5. at \in 0 .. most
  BY <1>1 DEF IsScreen
<1>6. to \in 0 .. most
  BY <1>1, <1>4, <1>5
<1>7. IsScreen(w)
  BY <1>1, <1>3, <1>6 DEF IsScreen
<1>8. Shows(v, s) => Shows(w, s)
  BY <1>3, WorldStays
<1> QED BY <1>3, <1>7, <1>8, TextsStay DEF Looks

\* The help is lines like others.
LEMMA HelpLooks ==
  ASSUME IsView(view), IsScreen(view), NEW s, NEW w, w = process_help_command
  PROVE  Looks(view, w, s) /\ w.local_player_id = view.local_player_id
<1>1. PICK lines : lines = [i \in 1 .. 21 |-> "ayuda"]
  OBVIOUS
<1>2. IsSeq(lines)
  BY <1>1, LinesAreSeq
<1>3. w = add_chat_messages(view, lines)
  BY <1>1 DEF process_help_command
<1>4. IsScreen(w) /\ SameBut(view, w) /\ KeepsTexts(view.console, w.console)
  BY <1>2, <1>3, LinesAreShown
<1>5. Shows(view, s) => Shows(w, s)
  BY <1>4, WorldStays DEF SameBut
<1> QED BY <1>4, <1>5 DEF Looks, SameBut

\* The welcome is lines too.
LEMMA WelcomeLooks ==
  ASSUME IsView(view), IsScreen(view), NEW s, NEW w, w = handle_login_success
  PROVE  Looks(view, w, s) /\ w.local_player_id = Me
<1>1. PICK lines, u : lines = <<"bienvenido", "escribi /help">> /\ u = add_chat_messages(view, lines)
  OBVIOUS
<1>2. IsSeq(lines)
  BY <1>1, LinesAreSeq
<1>3. IsScreen(u) /\ SameBut(view, u) /\ KeepsTexts(view.console, u.console)
  BY <1>1, <1>2, LinesAreShown
<1>4. w = [u EXCEPT !.local_player_id = Me]
  BY <1>1, Zenon DEF handle_login_success
<1>5. DOMAIN u = DOMAIN view
  BY <1>1 DEF add_chat_messages, IsView
<1>6. /\ w.entities = u.entities /\ w.heard = u.heard /\ w.local_player_id = Me
      /\ w.static_entity_keys = u.static_entity_keys /\ w.inventory_slots = u.inventory_slots
      /\ w.equipped_inventory_slots = u.equipped_inventory_slots
      /\ w.console = u.console /\ w.console_scroll_offset = u.console_scroll_offset
  BY <1>4, <1>5 DEF IsView
<1>7. IsScreen(w)
  BY <1>3, <1>6 DEF IsScreen
<1>8. Shows(view, s) => Shows(w, s)
  BY <1>3, <1>6, WorldStays DEF SameBut
<1> QED BY <1>3, <1>6, <1>7, <1>8 DEF Looks, SameBut

-----------------------------------------------------------------------------
(***************************************************************************)
(* What is on its way to the screen.                                       *)
(***************************************************************************)

\* The first m say what those of a do, and the n after them what those of b do.
Tells(p, a, m, b, n) ==
  /\ Len(p) = m + n
  /\ \A i \in 1 .. m : p[i] = <<a[i].op, a[i].arg>>
  /\ \A i \in 1 .. n : p[m + i] = <<b[i].op, b[i].arg>>

\* The places of what is told.
LEMMA ToldIs ==
  ASSUME NEW a, IsSeq(a), NEW m, m = Len(a), NEW b, IsSeq(b), NEW n, n = Len(b),
         NEW p, p = Told(a, b)
  PROVE  m \in Nat /\ n \in Nat /\ Tells(p, a, m, b, n)
<1>1. m = Len(a) /\ n = Len(b)
  OBVIOUS
<1>2. m \in Nat /\ n \in Nat
  BY <1>1, LenProperties DEF IsSeq
<1>3. p = [i \in 1 .. m + n |-> IF i <= m THEN <<a[i].op, a[i].arg>>
                                ELSE <<b[i - m].op, b[i - m].arg>>]
  BY <1>1 DEF Told
<1>4. Len(p) = m + n
  <2>1. m + n \in Nat /\ p = [i \in 1 .. m + n |-> p[i]]
    BY <1>2, <1>3
  <2> QED BY <2>1, PlacesAre
<1>5. ASSUME NEW i \in 1 .. m PROVE p[i] = <<a[i].op, a[i].arg>>
  <2>1. i \in 1 .. m + n /\ i <= m
    BY <1>2
  <2> QED BY <1>3, <2>1
<1>6. ASSUME NEW i \in 1 .. n PROVE p[m + i] = <<b[i].op, b[i].arg>>
  <2>1. PICK k : k = m + i
    OBVIOUS
  <2>2. k \in 1 .. m + n /\ ~(k <= m) /\ k - m = i
    BY <1>2, <2>1
  <2>3. p[k] = <<b[k - m].op, b[k - m].arg>>
    BY <1>3, <2>2
  <2> QED BY <2>1, <2>2, <2>3
<1> QED BY <1>2, <1>4, <1>5, <1>6 DEF Tells

\* One more is sent.
LEMMA ToldMore ==
  ASSUME NEW a, IsSeq(a), NEW b, IsSeq(b), NEW m, NEW c, c = Append(b, m),
         NEW p, NEW r, p = Told(a, b), r = Told(a, c)
  PROVE  Longer(p, r, <<m.op, m.arg>>)
<1>1. PICK k, n : k = Len(a) /\ n = Len(b)
  OBVIOUS
<1>2. /\ IsSeq(c) /\ Len(c) = n + 1 /\ c[n + 1] = m /\ \A i \in 1 .. n : c[i] = b[i]
  BY <1>1, AppendIs
<1>3. /\ k \in Nat /\ n \in Nat /\ Len(p) = k + n
      /\ \A i \in 1 .. k : p[i] = <<a[i].op, a[i].arg>>
      /\ \A i \in 1 .. n : p[k + i] = <<b[i].op, b[i].arg>>
  <2>1. k \in Nat /\ n \in Nat /\ Tells(p, a, k, b, n)
    BY <1>1, ToldIs
  <2> QED BY <2>1 DEF Tells
<1>4. /\ Len(r) = k + (n + 1)
      /\ \A i \in 1 .. k : r[i] = <<a[i].op, a[i].arg>>
      /\ \A i \in 1 .. n + 1 : r[k + i] = <<c[i].op, c[i].arg>>
  <2>1. Tells(r, a, k, c, n + 1)
    BY <1>1, <1>2, ToldIs
  <2> QED BY <2>1 DEF Tells
<1>5. ASSUME NEW i \in 1 .. Len(p) PROVE r[i] = p[i]
  <2>1. CASE i <= k
    <3>1. i \in 1 .. k
      BY <1>3, <2>1
    <3> QED BY <1>3, <1>4, <3>1
  <2>2. CASE ~(i <= k)
    <3>1. PICK j : j = i - k
      OBVIOUS
    <3>2. j \in 1 .. n /\ j \in 1 .. n + 1 /\ k + j = i
      BY <1>3, <2>2, <3>1
    <3>3. r[i] = <<c[j].op, c[j].arg>> /\ p[i] = <<b[j].op, b[j].arg>> /\ c[j] = b[j]
      BY <1>2, <1>3, <1>4, <3>2
    <3> QED BY <3>3
  <2> QED BY <2>1, <2>2
<1>6. Len(r) = Len(p) + 1 /\ Len(p) \in Nat
  BY <1>3, <1>4
<1>7. r[Len(p) + 1] = <<m.op, m.arg>>
  <2>1. n + 1 \in 1 .. n + 1 /\ Len(p) + 1 = k + (n + 1)
    BY <1>3
  <2> QED BY <1>2, <1>4, <2>1
<1> QED BY <1>5, <1>6, <1>7 DEF Longer

\* Two ways to tell the same.
Same(p, r) == p = r

\* A message becomes an event: what is on its way is the same.
LEMMA ToldMoves ==
  ASSUME NEW a, IsSeq(a), NEW b, IsSeq(b), b # <<>>, NEW e, e.op = Head(b).op,
         e.arg = Head(b).arg, NEW c, c = Append(a, e), NEW d, d = Tail(b)
  PROVE  Same(Told(c, d), Told(a, b))
<1>1. PICK m, n : m = Len(a) /\ n = Len(d)
  OBVIOUS
<1>2. /\ IsSeq(c) /\ m \in Nat /\ Len(c) = m + 1 /\ c[m + 1] = e
      /\ \A i \in 1 .. m : c[i] = a[i]
  BY <1>1, AppendIs
<1>3. /\ IsSeq(d) /\ n \in Nat /\ Len(b) = n + 1 /\ Head(b) = b[1]
      /\ \A i \in 1 .. n : d[i] = b[i + 1]
  <2>1. /\ IsSeq(d) /\ Len(b) \in Nat \ {0} /\ Len(d) = Len(b) - 1 /\ Head(b) = b[1]
        /\ \A i \in 1 .. Len(d) : d[i] = b[i + 1]
    BY TailIs
  <2> QED BY <1>1, <2>1
<1>4. PICK p, r : p = Told(a, b) /\ r = Told(c, d)
  OBVIOUS
<1>5. /\ Len(p) = m + (n + 1)
      /\ \A i \in 1 .. m : p[i] = <<a[i].op, a[i].arg>>
      /\ \A i \in 1 .. n + 1 : p[m + i] = <<b[i].op, b[i].arg>>
  <2>1. Tells(p, a, m, b, n + 1)
    BY <1>1, <1>3, <1>4, ToldIs
  <2> QED BY <2>1 DEF Tells
<1>6. /\ Len(r) = (m + 1) + n
      /\ \A i \in 1 .. m + 1 : r[i] = <<c[i].op, c[i].arg>>
      /\ \A i \in 1 .. n : r[(m + 1) + i] = <<d[i].op, d[i].arg>>
  <2>1. Tells(r, c, m + 1, d, n)
    BY <1>1, <1>2, <1>3, <1>4, ToldIs
  <2> QED BY <2>1 DEF Tells
<1>7. DOMAIN p = 1 .. m + (n + 1) /\ DOMAIN r = 1 .. m + (n + 1)
  <2>1. m + (n + 1) = (m + 1) + n
    BY <1>2, <1>3
  <2> QED BY <1>1, <1>2, <1>3, <1>4, <2>1 DEF Told
<1>8. ASSUME NEW i \in 1 .. m + (n + 1) PROVE r[i] = p[i]
  <2>1. CASE i <= m
    <3>1. i \in 1 .. m /\ i \in 1 .. m + 1
      BY <1>2, <2>1
    <3>2. r[i] = <<c[i].op, c[i].arg>> /\ p[i] = <<a[i].op, a[i].arg>> /\ c[i] = a[i]
      BY <1>2, <1>5, <1>6, <3>1
    <3> QED BY <3>2
  <2>2. CASE i = m + 1
    <3>1. m + 1 \in 1 .. m + 1 /\ 1 \in 1 .. n + 1
      BY <1>2, <1>3
    <3>2. r[m + 1] = <<c[m + 1].op, c[m + 1].arg>> /\ p[m + 1] = <<b[1].op, b[1].arg>>
      BY <1>5, <1>6, <3>1
    <3> QED BY <1>2, <1>3, <2>2, <3>2
  <2>3. CASE i > m + 1
    <3>1. PICK j : j = i - (m + 1)
      OBVIOUS
    <3>2. j \in 1 .. n /\ j + 1 \in 1 .. n + 1 /\ (m + 1) + j = i /\ m + (j + 1) = i
      BY <1>2, <1>3, <2>3, <3>1
    <3>3. r[i] = <<d[j].op, d[j].arg>>
      BY <1>6, <3>2
    <3>4. p[i] = <<b[j + 1].op, b[j + 1].arg>>
      BY <1>5, <3>2
    <3> QED BY <1>3, <3>2, <3>3, <3>4
  <2> QED BY <1>2, <2>1, <2>2, <2>3
<1>9. r = p
  <2>1. r = [i \in 1 .. m + (n + 1) |-> r[i]] /\ p = [i \in 1 .. m + (n + 1) |-> p[i]]
    BY <1>4, <1>7 DEF Told
  <2> QED BY <1>8, <2>1
<1> QED BY <1>4, <1>9 DEF Same

\* The first event is taken.
LEMMA ToldTaken ==
  ASSUME NEW a, IsSeq(a), a # <<>>, NEW b, IsSeq(b), NEW p, p = Told(a, b),
         NEW r, r = Told(Tail(a), b)
  PROVE  Shorter(p, r) /\ p[1] = <<Head(a).op, Head(a).arg>>
<1>1. PICK d, m, n : d = Tail(a) /\ m = Len(d) /\ n = Len(b)
  OBVIOUS
<1>2. /\ IsSeq(d) /\ m \in Nat /\ Len(a) = m + 1 /\ Head(a) = a[1]
      /\ \A i \in 1 .. m : d[i] = a[i + 1]
  <2>1. /\ IsSeq(d) /\ Len(a) \in Nat \ {0} /\ Len(d) = Len(a) - 1 /\ Head(a) = a[1]
        /\ \A i \in 1 .. Len(d) : d[i] = a[i + 1]
    BY <1>1, TailIs
  <2> QED BY <1>1, <2>1
<1>3. /\ n \in Nat /\ Len(p) = (m + 1) + n
      /\ \A i \in 1 .. m + 1 : p[i] = <<a[i].op, a[i].arg>>
      /\ \A i \in 1 .. n : p[(m + 1) + i] = <<b[i].op, b[i].arg>>
  <2>1. n \in Nat /\ Tells(p, a, m + 1, b, n)
    BY <1>1, <1>2, ToldIs
  <2> QED BY <2>1 DEF Tells
<1>4. /\ Len(r) = m + n
      /\ \A i \in 1 .. m : r[i] = <<d[i].op, d[i].arg>>
      /\ \A i \in 1 .. n : r[m + i] = <<b[i].op, b[i].arg>>
  <2>1. Tells(r, d, m, b, n)
    BY <1>1, <1>2, ToldIs
  <2> QED BY <2>1 DEF Tells
<1>5. ASSUME NEW i \in 1 .. m + n PROVE r[i] = p[i + 1]
  <2>1. CASE i <= m
    <3>1. i \in 1 .. m /\ i + 1 \in 1 .. m + 1
      BY <1>2, <2>1
    <3>2. r[i] = <<d[i].op, d[i].arg>> /\ p[i + 1] = <<a[i + 1].op, a[i + 1].arg>> /\ d[i] = a[i + 1]
      BY <1>2, <1>3, <1>4, <3>1
    <3> QED BY <3>2
  <2>2. CASE ~(i <= m)
    <3>1. PICK j : j = i - m
      OBVIOUS
    <3>2. j \in 1 .. n /\ m + j = i /\ (m + 1) + j = i + 1
      BY <1>2, <1>3, <2>2, <3>1
    <3>3. r[i] = <<b[j].op, b[j].arg>> /\ p[i + 1] = <<b[j].op, b[j].arg>>
      BY <1>3, <1>4, <3>2
    <3> QED BY <3>3
  <2> QED BY <2>1, <2>2
<1>6. Len(p) \in Nat \ {0} /\ Len(r) = Len(p) - 1 /\ Len(r) = m + n
  BY <1>2, <1>3, <1>4
<1>7. p[1] = <<Head(a).op, Head(a).arg>>
  <2>1. 1 \in 1 .. m + 1
    BY <1>2
  <2> QED BY <1>2, <1>3, <2>1
<1> QED BY <1>5, <1>6, <1>7 DEF Shorter

\* The first message is taken, by the login.
LEMMA ToldRead ==
  ASSUME NEW b, IsSeq(b), b # <<>>, NEW p, p = Told(<<>>, b), NEW r, r = Told(<<>>, Tail(b))
  PROVE  Shorter(p, r) /\ p[1] = <<Head(b).op, Head(b).arg>>
<1>1. PICK d, n : d = Tail(b) /\ n = Len(d)
  OBVIOUS
<1>2. /\ IsSeq(d) /\ n \in Nat /\ Len(b) = n + 1 /\ Head(b) = b[1]
      /\ \A i \in 1 .. n : d[i] = b[i + 1]
  <2>1. /\ IsSeq(d) /\ Len(b) \in Nat \ {0} /\ Len(d) = Len(b) - 1 /\ Head(b) = b[1]
        /\ \A i \in 1 .. Len(d) : d[i] = b[i + 1]
    BY <1>1, TailIs
  <2> QED BY <1>1, <2>1
<1>3. PICK a : a = <<>>
  OBVIOUS
<1>4. IsSeq(a) /\ Len(a) = 0
  BY <1>3, ShortOnes
<1>5. Len(p) = n + 1 /\ \A i \in 1 .. n + 1 : p[i] = <<b[i].op, b[i].arg>>
  <2>1. Tells(p, a, 0, b, n + 1)
    BY <1>2, <1>3, <1>4, ToldIs
  <2>2. 0 + (n + 1) = n + 1 /\ \A i \in 1 .. n + 1 : 0 + i = i
    BY <1>2
  <2> QED BY <2>1, <2>2 DEF Tells
<1>6. Len(r) = n /\ \A i \in 1 .. n : r[i] = <<d[i].op, d[i].arg>>
  <2>1. Tells(r, a, 0, d, n)
    BY <1>1, <1>2, <1>3, <1>4, ToldIs
  <2>2. 0 + n = n /\ \A i \in 1 .. n : 0 + i = i
    BY <1>2
  <2> QED BY <2>1, <2>2 DEF Tells
<1>7. ASSUME NEW i \in 1 .. n PROVE r[i] = p[i + 1]
  <2>1. i + 1 \in 1 .. n + 1
    BY <1>2
  <2> QED BY <1>2, <1>5, <1>6, <2>1
<1>8. Len(p) \in Nat \ {0} /\ Len(r) = Len(p) - 1
  BY <1>2, <1>5, <1>6
<1>9. p[1] = <<Head(b).op, Head(b).arg>>
  <2>1. 1 \in 1 .. n + 1
    BY <1>2
  <2> QED BY <1>2, <1>5, <2>1
<1> QED BY <1>6, <1>7, <1>8, <1>9 DEF Shorter

-----------------------------------------------------------------------------
(***************************************************************************)
(* The steps of the server.                                                *)
(***************************************************************************)

\* A message of a kind, that says x: the server said s and now says t.
Says(kind, x, s, t) ==
  \/ kind = "SNAPSHOT" /\ x \in DOMAIN Snapshots /\ t = [s EXCEPT !.snapshot = x]
  \/ kind = "INVENTORY_UPDATE" /\ x \in DOMAIN Slots /\ t = [s EXCEPT !.inventory = x]
  \/ kind = "EQUIPMENT_UPDATE" /\ x \in DOMAIN Slots /\ t = [s EXCEPT !.equipment = x]
  \/ kind = "CHAT_MSG" /\ t = [s EXCEPT !.text = x]
  \/ kind \in {"TRADER_CATALOG", "BANK_CONTENT"} /\ x \in Nat /\ t = s

\* All is still due of a server that says more.
LEMMA SaysMore ==
  ASSUME NEW p, NEW r, NEW kind, NEW x, Longer(p, r, <<kind, x>>), NEW k \in Nat \ {0},
         k <= Len(p) + 1, NEW v, NEW s, NEW t, Due(p, k, v, s), Says(kind, x, s, t),
         DOMAIN s = {"answer", "snapshot", "inventory", "equipment", "text"}
  PROVE  Due(r, k, v, t) /\ t.answer = s.answer
<1>1. PICK y : y = <<kind, x>>
  OBVIOUS
<1>2. y[1] = kind /\ y[2] = x /\ Longer(p, r, y)
  BY <1>1
<1>3. Sendable(y) /\ y[1] # "MAP_DATA"
  BY <1>2 DEF Says, Sendable
<1>4. t.answer = s.answer
  BY DEF Says
<1>5. /\ y[1] = "SNAPSHOT" => y = <<"SNAPSHOT", t.snapshot>>
      /\ y[1] # "SNAPSHOT" => t.snapshot = s.snapshot
  BY <1>1, <1>2 DEF Says
<1>6. /\ y[1] = "INVENTORY_UPDATE" => y = <<"INVENTORY_UPDATE", t.inventory>>
      /\ y[1] # "INVENTORY_UPDATE" => t.inventory = s.inventory
  BY <1>1, <1>2 DEF Says
<1>7. /\ y[1] = "EQUIPMENT_UPDATE" => y = <<"EQUIPMENT_UPDATE", t.equipment>>
      /\ y[1] # "EQUIPMENT_UPDATE" => t.equipment = s.equipment
  BY <1>1, <1>2 DEF Says
<1>8. /\ y[1] = "CHAT_MSG" => y = <<"CHAT_MSG", t.text>>
      /\ y[1] # "CHAT_MSG" => t.text = s.text
  BY <1>1, <1>2 DEF Says
<1>9. Due(r, k, v, t)
  BY <1>2, <1>3, <1>4, <1>5, <1>6, <1>7, <1>8, DueComing
<1> QED BY <1>4, <1>9

\* The queues of a game.
LEMMA GameQueues ==
  ASSUME GameInv, mode = "GAME"
  PROVE  /\ IsSeq(events_queue) /\ IsSeq(to_client) /\ IsSeq(to_server) /\ AllSaid(to_client)
         /\ \A i \in 1 .. Len(to_server) : to_server[i].op # "SIGNUP"
         /\ Len(Pending) \in Nat
<1>1. IsSeq(events_queue) /\ IsSeq(to_client) /\ AllSaid(to_client)
  BY DEF GameInv, Said, Control, IsSeq
<1>2. IsSeq(to_server) /\ \A i \in 1 .. Len(to_server) : to_server[i].op # "SIGNUP"
  BY DEF GameInv, Asks, AllSent, Sent
<1>3. Len(Pending) \in Nat
  <2>1. PICK m, n, p : m = Len(events_queue) /\ n = Len(to_client) /\ p = Pending
    OBVIOUS
  <2>2. m \in Nat /\ n \in Nat /\ Len(p) = m + n
    BY <1>1, <2>1, ToldIs DEF Pending, Tells
  <2>3. Len(p) \in Nat
    BY <2>2
  <2> QED BY <2>1, <2>3
<1> QED BY <1>1, <1>2, <1>3

\* More of it is still due.
LEMMA MoreIsDue ==
  ASSUME GameInv, NothingIsLost, mode = "GAME", conn = "open", NEW m,
         to_client' = Append(to_client, m), Says(m.op, m.arg, server, server'),
         server.answer = "accepted" \/ m.op = "SNAPSHOT",
         mode' = mode, main' = main, receiver' = receiver, sender' = sender, view' = view,
         events_queue' = events_queue, queues_closed' = queues_closed, to_server' = to_server
  PROVE  NothingIsLost'
<1>1. PICK p, r, kind, x : p = Pending /\ r = Pending' /\ kind = m.op /\ x = m.arg
  OBVIOUS
<1>2. Longer(p, r, <<kind, x>>)
  BY <1>1, GameQueues, ToldMore DEF Pending
<1>3. DOMAIN server = {"answer", "snapshot", "inventory", "equipment", "text"}
  BY DEF GameInv, Control
<1>4. Says(kind, x, server, server') /\ server'.answer = server.answer
  BY <1>1, <1>3 DEF Says
<1>5. Len(p) \in Nat /\ Len(r) = Len(p) + 1 /\ \A i \in 1 .. Len(p) : r[i] = p[i]
  BY <1>2 DEF Longer
<1>6. r[Len(p) + 1] = <<kind, x>>
  BY <1>2 DEF Longer
<1>7. ASSUME NEW k \in Nat \ {0}, k <= Len(p) + 1, Due(p, k, view, server)
      PROVE  Due(r, k, view, server')
  BY <1>2, <1>3, <1>4, <1>7, SaysMore
<1>8. ASSUME Due(p, 1, view, server) PROVE Due(r, 1, view, server')
  <2>1. 1 \in Nat \ {0} /\ 1 <= Len(p) + 1
    BY <1>5
  <2> QED BY <1>7, <1>8, <2>1
<1>9. ASSUME Entering PROVE Entering'
  <2>1. /\ view = NoView /\ events_queue = <<>> /\ receiver = "new" /\ sender = "new"
        /\ main = "login" => server.answer = "none" /\ NoLogin(to_server) /\ Due(p, 1, view, server)
        /\ server.answer = "none" => \A i \in 1 .. Len(p) : p[i][1] = "SNAPSHOT"
        /\ server.answer # "none" =>
             /\ NoLogin(to_server)
             /\ \E k \in 2 .. Len(p) + 1 : Answered(p, k, server) /\ Due(p, k, view, server)
    BY <1>1, <1>9 DEF Entering
  <2>2. ASSUME server.answer = "none" PROVE \A i \in 1 .. Len(r) : r[i][1] = "SNAPSHOT"
    <3>1. kind = "SNAPSHOT"
      BY <1>1, <2>2
    <3>2. ASSUME NEW i \in 1 .. Len(r) PROVE r[i][1] = "SNAPSHOT"
      <4>1. i \in 1 .. Len(p) \/ i = Len(p) + 1
        BY <1>5
      <4>2. CASE i \in 1 .. Len(p)
        BY <1>5, <2>1, <2>2, <4>2
      <4>3. CASE i = Len(p) + 1
        BY <1>6, <3>1, <4>3
      <4> QED BY <4>1, <4>2, <4>3
    <3> QED BY <3>2
  <2>3. ASSUME server.answer # "none"
        PROVE  \E k \in 2 .. Len(r) + 1 : Answered(r, k, server') /\ Due(r, k, view, server')
    <3>1. PICK k \in 2 .. Len(p) + 1 : Answered(p, k, server) /\ Due(p, k, view, server)
      BY <2>1, <2>3
    <3>2. /\ k \in Nat \ {0} /\ k <= Len(p) + 1 /\ k \in 2 .. Len(r) + 1 /\ k - 1 \in 1 .. Len(p)
          /\ 1 .. k - 2 \subseteq 1 .. Len(p)
      BY <1>5
    <3>3. Answered(r, k, server')
      BY <1>4, <1>5, <3>1, <3>2 DEF Answered
    <3>4. Due(r, k, view, server')
      BY <1>7, <3>1, <3>2
    <3> QED BY <3>2, <3>3, <3>4
  <2>4. main = "login" => Due(r, 1, view, server')
    BY <1>8, <2>1
  <2> QED BY <1>1, <1>4, <2>1, <2>2, <2>3, <2>4 DEF Entering
<1>10. ASSUME Playing PROVE Playing'
  <2>1. NoLogin(to_server) /\ Due(p, 1, view, server)
    BY <1>1, <1>10 DEF Playing
  <2>2. Due(r, 1, view, server')
    BY <1>8, <2>1
  <2>3. server.answer = "accepted" => view.local_player_id = Me
    BY <1>10 DEF Playing
  <2> QED BY <1>1, <1>4, <2>1, <2>2, <2>3 DEF Playing
<1> QED BY <1>9, <1>10 DEF NothingIsLost

\* A broadcast.
LEMMA BroadcastIsDue ==
  ASSUME GameInv, NothingIsLost, mode = "GAME", conn = "open", NEW i \in DOMAIN Snapshots,
         ServerBroadcasts(i)
  PROVE  NothingIsLost'
<1>1. PICK m : m = Message("SNAPSHOT", i)
  OBVIOUS
<1>2. m.op = "SNAPSHOT" /\ m.arg = i
  BY <1>1 DEF Message
<1>3. /\ to_client' = Append(to_client, m) /\ server' = [server EXCEPT !.snapshot = i]
      /\ mode' = mode /\ main' = main /\ receiver' = receiver /\ sender' = sender /\ view' = view
      /\ events_queue' = events_queue /\ queues_closed' = queues_closed /\ to_server' = to_server
  BY <1>1 DEF ServerBroadcasts, threads, queues, screen
<1>4. Says(m.op, m.arg, server, server')
  BY <1>2, <1>3 DEF Says
<1> QED BY <1>2, <1>3, <1>4, MoreIsDue

\* What one player is told.
LEMMA SentIsDue ==
  ASSUME GameInv, NothingIsLost, mode = "GAME", conn = "open",
         NEW m \in UpdatesOfSlots \cup sendCombatMessage \cup processBroadcastChat
                     \cup processListItems, ServerSends(m)
  PROVE  NothingIsLost'
<1>1. /\ to_client' = Append(to_client, m) /\ server.answer = "accepted"
      /\ mode' = mode /\ main' = main /\ receiver' = receiver /\ sender' = sender /\ view' = view
      /\ events_queue' = events_queue /\ queues_closed' = queues_closed /\ to_server' = to_server
  BY DEF ServerSends, threads, queues, screen
<1>2. PICK kind, x : kind = m.op /\ x = m.arg
  OBVIOUS
<1>3. server' = CASE kind = "INVENTORY_UPDATE" -> [server EXCEPT !.inventory = x]
                  [] kind = "EQUIPMENT_UPDATE" -> [server EXCEPT !.equipment = x]
                  [] kind = "CHAT_MSG" -> [server EXCEPT !.text = x]
                  [] OTHER -> server
  BY <1>2 DEF ServerSends
<1>4. ASSUME NEW opcode, NEW field, m = Message(opcode, field) PROVE kind = opcode /\ x = field
  BY <1>2, <1>4 DEF Message
<1>5. \/ kind \in {"INVENTORY_UPDATE", "EQUIPMENT_UPDATE"} /\ x \in DOMAIN Slots
      \/ kind = "CHAT_MSG"
      \/ kind \in {"TRADER_CATALOG", "BANK_CONTENT"} /\ x \in Nat
  <2>1. CASE m \in UpdatesOfSlots
    <3>1. PICK opcode \in {"INVENTORY_UPDATE", "EQUIPMENT_UPDATE"}, i \in DOMAIN Slots \ {1} :
            m = Message(opcode, i)
      BY <2>1 DEF UpdatesOfSlots
    <3>2. kind = opcode /\ x = i
      BY <1>4, <3>1
    <3> QED BY <3>2
  <2>2. CASE m \in sendCombatMessage \cup processBroadcastChat
    <3>1. PICK text : m = Message("CHAT_MSG", text)
      BY <2>2 DEF sendCombatMessage, processBroadcastChat
    <3> QED BY <1>4, <3>1
  <2>3. CASE m \in processListItems
    <3>1. PICK opcode \in Lists : m = Message(opcode, 1)
      BY <2>3 DEF processListItems
    <3>2. kind = opcode /\ x = 1
      BY <1>4, <3>1
    <3> QED BY <3>2, ClientAssumption
  <2> QED BY <2>1, <2>2, <2>3
<1>6. Says(kind, x, server, server')
  <2>1. CASE kind = "INVENTORY_UPDATE" /\ x \in DOMAIN Slots
    BY <1>3, <2>1 DEF Says
  <2>2. CASE kind = "EQUIPMENT_UPDATE" /\ x \in DOMAIN Slots
    BY <1>3, <2>2 DEF Says
  <2>3. CASE kind = "CHAT_MSG"
    BY <1>3, <2>3 DEF Says
  <2>4. CASE kind \in {"TRADER_CATALOG", "BANK_CONTENT"} /\ x \in Nat
    BY <1>3, <2>4 DEF Says
  <2> QED BY <1>5, <2>1, <2>2, <2>3, <2>4
<1> QED BY <1>1, <1>2, <1>6, MoreIsDue

\* Nothing is shown before the login.
LEMMA NobodyIsShown ==
  /\ IsScreen(NoView) /\ NoView.static_entity_keys = {} /\ DOMAIN NoView.entities = {}
  /\ \A s : s.snapshot = 0 => Shows(NoView, s)
<1>1. PICK v : v = NoView
  OBVIOUS
<1>2. /\ v.entities = <<>> /\ v.static_entity_keys = {} /\ v.console = <<>>
      /\ v.console_scroll_offset = 0
  BY <1>1 DEF NoView
<1>3. DOMAIN v.entities = {}
  BY <1>2
<1>4. Apart(v.entities)
  BY <1>3 DEF Apart
<1>5. max_scroll(v.console) \in Nat
  BY <1>2, ShortOnes, ViewAssumption DEF max_scroll
<1>6. IsSeq(v.console) /\ Len(v.console) <= MAX_CHAT_LOG_SIZE
  BY <1>2, ShortOnes, ViewAssumption
<1>7. v.console_scroll_offset \in 0 .. max_scroll(v.console)
  BY <1>2, <1>5
<1>8. ASSUME NEW s, s.snapshot = 0 PROVE Shows(v, s)
  BY <1>3, <1>8 DEF Shows
<1> QED BY <1>1, <1>2, <1>3, <1>4, <1>6, <1>7, <1>8 DEF IsScreen
\* What a login is answered with is on its way, behind the snapshots that came before.
LEMMA LoginIsDue ==
  ASSUME NEW b, IsSeq(b), \A i \in 1 .. Len(b) : b[i].op = "SNAPSHOT", NEW ok \in BOOLEAN,
         NEW ms, ms = processHandleLogin(ok), NEW c, c = b \o ms, NEW r, r = Told(<<>>, c),
         NEW s, s = [answer |-> IF ok THEN "accepted" ELSE "refused", snapshot |-> 0,
                     inventory |-> 1, equipment |-> 1, text |-> "none"]
  PROVE  \E k \in 2 .. Len(r) + 1 : Answered(r, k, s) /\ Due(r, k, NoView, s)
<1>1. PICK n, h, a, v : n = Len(b) /\ h = Len(ms) /\ a = <<>> /\ v = NoView
  OBVIOUS
<1>2. IsSeq(ms)
  BY AnswersAre DEF IsSeq
<1>3. /\ n \in Nat /\ h \in Nat /\ IsSeq(c) /\ Len(c) = n + h
      /\ \A i \in 1 .. n : c[i] = b[i]
      /\ \A i \in 1 .. h : c[n + i] = ms[i]
  BY <1>1, <1>2, ConcatIs
<1>4. Len(r) = n + h /\ \A i \in 1 .. n + h : r[i] = <<c[i].op, c[i].arg>>
  <2>1. IsSeq(a) /\ Len(a) = 0
    BY <1>1, ShortOnes
  <2>2. Tells(r, a, 0, c, n + h)
    BY <1>1, <1>3, <2>1, ToldIs
  <2>3. 0 + (n + h) = n + h /\ \A i \in 1 .. n + h : 0 + i = i
    BY <1>3
  <2> QED BY <2>2, <2>3 DEF Tells
<1>5. ASSUME NEW i \in 1 .. n PROVE r[i][1] = "SNAPSHOT"
  <2>1. i \in 1 .. n + h
    BY <1>3
  <2>2. r[i] = <<c[i].op, c[i].arg>> /\ c[i] = b[i] /\ b[i].op = "SNAPSHOT"
    BY <1>1, <1>3, <1>4, <2>1
  <2> QED BY <2>2
<1>6. ASSUME NEW i \in 1 .. h, NEW opcode, NEW field, ms[i] = Message(opcode, field)
      PROVE  r[n + i] = <<opcode, field>>
  <2>1. n + i \in 1 .. n + h
    BY <1>3
  <2>2. PICK m : m = ms[i]
    OBVIOUS
  <2>3. m.op = opcode /\ m.arg = field
    BY <1>6, <2>2 DEF Message
  <2>4. r[n + i] = <<m.op, m.arg>>
    BY <1>3, <1>4, <2>1, <2>2
  <2> QED BY <2>3, <2>4
<1>7. s.snapshot = 0 /\ s.inventory = 1 /\ s.equipment = 1 /\ s.text = "none"
  OBVIOUS
<1>8. s.answer = IF ok THEN "accepted" ELSE "refused"
  OBVIOUS
<1>9. /\ IsScreen(v) /\ v.static_entity_keys = {} /\ DOMAIN v.entities = {} /\ Shows(v, s)
  BY <1>1, <1>7, NobodyIsShown
<1>10. PICK k : k = n + 2
  OBVIOUS
<1>11. TextIsDue(r, k, v, s)
  BY <1>7 DEF TextIsDue
<1>12. CASE ok
  <2>1. PICK m1, m2, m3, m4 :
          /\ m1 = Message("LOGIN_RESPONSE", 1) /\ m2 = Message("MAP_DATA", 0)
          /\ m3 = Message("INVENTORY_UPDATE", 1) /\ m4 = Message("EQUIPMENT_UPDATE", 1)
    OBVIOUS
  <2>2. ms = <<m1, m2, m3, m4>>
    BY <1>12, <2>1 DEF processHandleLogin
  <2>3. h = 4 /\ ms[1] = m1 /\ ms[2] = m2 /\ ms[3] = m3 /\ ms[4] = m4
    BY <1>1, <2>2
  <2>4. 1 \in 1 .. h /\ 2 \in 1 .. h /\ 3 \in 1 .. h /\ 4 \in 1 .. h
    BY <2>3
  <2>5. r[n + 1] = <<"LOGIN_RESPONSE", 1>> /\ r[n + 2] = <<"MAP_DATA", 0>>
    BY <1>6, <2>1, <2>3, <2>4
  <2>6. r[n + 3] = <<"INVENTORY_UPDATE", 1>> /\ r[n + 4] = <<"EQUIPMENT_UPDATE", 1>>
    BY <1>6, <2>1, <2>3, <2>4
  <2>7. /\ n + 3 = k + 1 /\ n + 4 = k + 2 /\ Len(r) = k + 2 /\ k \in Nat /\ k >= 2
        /\ k - 1 = n + 1 /\ k - 2 = n
    BY <1>3, <1>4, <1>10, <2>3
  <2>8. /\ r[k] = <<"MAP_DATA", 0>> /\ r[k + 1] = <<"INVENTORY_UPDATE", 1>>
        /\ r[k + 2] = <<"EQUIPMENT_UPDATE", 1>>
    BY <1>10, <2>5, <2>6, <2>7
  <2>9. s.answer = "accepted"
    BY <1>8, <1>12
  <2>10. Answered(r, k, s)
    BY <1>5, <2>5, <2>7, <2>9 DEF Answered
  <2>11. \A i \in k .. Len(r) : i = k \/ i = k + 1 \/ i = k + 2
    BY <2>7
  <2>12. Legal(r, k)
    <3>1. 1 \in DOMAIN Slots
      BY ClientAssumption
    <3>2. Sendable(r[k])
      BY <2>8 DEF Sendable
    <3>3. Sendable(r[k + 1])
      BY <2>8, <3>1 DEF Sendable
    <3>4. Sendable(r[k + 2])
      BY <2>8, <3>1 DEF Sendable
    <3> QED BY <2>11, <3>2, <3>3, <3>4 DEF Legal
  <2>13. MapIsDue(r, k, v)
    <3>1. \A i \in k + 1 .. Len(r) : i = k + 1 \/ i = k + 2
      BY <2>7
    <3>2. Silent(r, k + 1, "MAP_DATA")
      BY <2>8, <3>1 DEF Silent
    <3>3. k <= Len(r)
      BY <2>7
    <3> QED BY <1>9, <2>8, <3>2, <3>3 DEF MapIsDue
  <2>14. SlotsAreDue(r, k, v, s)
    <3>1. k + 1 \in k .. Len(r) /\ k + 2 \in k .. Len(r)
      BY <2>7
    <3>2. \A j \in (k + 1) + 1 .. Len(r) : j = k + 2
      BY <2>7
    <3>3. \A j \in (k + 2) + 1 .. Len(r) : FALSE
      BY <2>7
    <3>4. Newest(r, k, "INVENTORY_UPDATE", 1)
      BY <2>8, <3>1, <3>2 DEF Newest
    <3>5. Newest(r, k, "EQUIPMENT_UPDATE", 1)
      BY <2>8, <3>1, <3>3 DEF Newest
    <3> QED BY <1>7, <3>4, <3>5 DEF SlotsAreDue
  <2>15. WorldIsDue(r, k, v, s)
    <3>1. Silent(r, k, "SNAPSHOT")
      BY <2>8, <2>11 DEF Silent
    <3> QED BY <1>9, <3>1 DEF WorldIsDue
  <2>16. Due(r, k, v, s)
    BY <1>9, <1>11, <2>9, <2>12, <2>13, <2>14, <2>15 DEF Due
  <2>17. k \in 2 .. Len(r) + 1
    BY <2>7
  <2> QED BY <1>1, <2>10, <2>16, <2>17
<1>13. CASE ~ok
  <2>1. PICK m1 : m1 = Message("LOGIN_RESPONSE", 0)
    OBVIOUS
  <2>2. ms = <<m1>>
    BY <1>13, <2>1 DEF processHandleLogin
  <2>3. h = 1 /\ ms[1] = m1
    BY <1>1, <2>2
  <2>4. r[n + 1] = <<"LOGIN_RESPONSE", 0>>
    <3>1. 1 \in 1 .. h
      BY <2>3
    <3> QED BY <1>6, <2>1, <2>3, <3>1
  <2>5. /\ Len(r) = n + 1 /\ k = n + 2 /\ k \in 2 .. Len(r) + 1 /\ k - 1 = n + 1 /\ k - 2 = n
        /\ \A i \in k .. Len(r) : FALSE
    BY <1>3, <1>4, <1>10, <2>3
  <2>6. s.answer = "refused"
    BY <1>8, <1>13
  <2>7. Answered(r, k, s)
    BY <1>5, <2>4, <2>5, <2>6 DEF Answered
  <2>8. Due(r, k, v, s)
    BY <1>9, <2>5, <2>6 DEF Due, Legal, Silent, WorldIsDue
  <2> QED BY <1>1, <2>5, <2>7, <2>8
<1> QED BY <1>12, <1>13

\* A game reads, of a server that is there, the first message as it was written.
LEMMA GameReads ==
  ASSUME GameInv, mode = "GAME", conn = "open", NEW e, Receive(e)
  PROVE  /\ to_client # <<>> /\ to_client' = Tail(to_client) /\ to_server' = to_server
         /\ e.op = Head(to_client).op /\ e.arg = Head(to_client).arg /\ e.more = TRUE
         /\ e.op \in ToClient
<1>1. Control /\ Said
  BY DEF GameInv
<1>2. /\ e \in Receivable /\ to_client' = (IF to_client = <<>> THEN <<>> ELSE Tail(to_client))
      /\ to_server' = to_server
  BY DEF Receive
<1>3. to_client # <<>>
  <2>1. SUFFICES ASSUME to_client = <<>> PROVE FALSE
    OBVIOUS
  <2>2. Receivable = {}
    BY <2>1 DEF Receivable
  <2> QED BY <1>2, <2>2
<1>4. PICK m : m = Head(to_client)
  OBVIOUS
<1>5. IsSeq(to_client) /\ AllSaid(to_client) /\ CutIsLast
  BY <1>1 DEF Said, Control, IsSeq
<1>6. m.op \in ToClient
  BY <1>3, <1>4, <1>5, RestIsSaid
<1>7. m.op \in ReadInStep
  BY <1>6, AllIsReadInStep
<1>8. ~m.cut
  <2>1. 1 \in 1 .. Len(to_client) /\ m = to_client[1]
    BY <1>3, <1>4, <1>5, TailIs
  <2> QED BY <1>5, <2>1, Zenon DEF CutIsLast
<1>9. e = Event(m.op, m.arg, TRUE)
  BY <1>2, <1>3, <1>4, <1>7, <1>8 DEF Receivable
<1>10. e.op = m.op /\ e.arg = m.arg /\ e.more = TRUE
  BY <1>9 DEF Event
<1> QED BY <1>2, <1>3, <1>4, <1>6, <1>10

-----------------------------------------------------------------------------
(***************************************************************************)
(* The steps of the login.                                                 *)
(***************************************************************************)

\* The server answers a login, of a player that waits.
LEMMA AnswerIsDue ==
  ASSUME GameInv, NothingIsLost, mode = "GAME", conn = "open", ServerReads
  PROVE  NothingIsLost'
<1>1. /\ to_server # <<>> /\ to_server' = <<>>
      /\ mode' = mode /\ main' = main /\ receiver' = receiver /\ sender' = sender /\ view' = view
      /\ events_queue' = events_queue /\ queues_closed' = queues_closed
  BY DEF ServerReads, threads, queues, screen
<1>2. PICK kind : kind = Head(to_server).op
  OBVIOUS
<1>3. /\ IsSeq(to_server) /\ IsSeq(to_client)
      /\ \A i \in 1 .. Len(to_server) : to_server[i].op # "SIGNUP"
  BY GameQueues
<1>4. Len(to_server) \in Nat \ {0} /\ Head(to_server) = to_server[1]
  BY <1>1, <1>3, TailIs
<1>5. kind # "SIGNUP" /\ (NoLogin(to_server) => kind # "LOGIN")
  BY <1>2, <1>3, <1>4 DEF NoLogin
<1>6. NoLogin(to_server')
  BY <1>1, ShortOnes DEF NoLogin
<1>7. ASSUME to_client' = to_client /\ server' = server PROVE NothingIsLost'
  <2>1. to_client' = to_client /\ server' = server
    BY <1>7
  <2>2. Pending' = Pending
    BY <1>1, <2>1 DEF Pending
  <2>3. Entering => Entering'
    BY <1>1, <1>6, <2>1, <2>2 DEF Entering
  <2>4. Playing => Playing'
    BY <1>1, <1>6, <2>1, <2>2 DEF Playing
  <2> QED BY <1>1, <2>3, <2>4 DEF NothingIsLost
<1>8. ASSUME ~UNCHANGED <<to_client, server>> PROVE NothingIsLost'
  <2>0. kind = "LOGIN"
    BY <1>2, <1>5, <1>8 DEF ServerReads
  <2>1. PICK ok \in BOOLEAN :
          /\ to_client' = to_client \o processHandleLogin(ok)
          /\ server' = [answer |-> IF ok THEN "accepted" ELSE "refused", snapshot |-> 0,
                        inventory |-> 1, equipment |-> 1, text |-> "none"]
    BY <1>2, <1>8, <2>0 DEF ServerReads
  <2>2. ~NoLogin(to_server)
    BY <1>5, <2>0
  <2>3. main \notin PlayPlaces
    BY <2>2 DEF NothingIsLost, Playing
  <2>4. ASSUME main \in EnterPlaces PROVE ~queues_closed' /\ Entering'
    <3>1. /\ ~queues_closed /\ view = NoView /\ events_queue = <<>> /\ receiver = "new"
          /\ sender = "new" /\ server.answer = "none" /\ main # "login"
          /\ \A i \in 1 .. Len(Pending) : Pending[i][1] = "SNAPSHOT"
      BY <2>2, <2>4 DEF NothingIsLost, Entering
    <3>2. PICK b, ms, p, r, s : /\ b = to_client /\ ms = processHandleLogin(ok) /\ p = Pending
                                /\ r = Pending' /\ s = server'
      OBVIOUS
    <3>3. p = Told(<<>>, b) /\ r = Told(<<>>, b \o ms)
      BY <1>1, <2>1, <3>1, <3>2 DEF Pending
    <3>4. \A i \in 1 .. Len(b) : b[i].op = "SNAPSHOT"
      <4>1. PICK n, a : n = Len(b) /\ a = <<>>
        OBVIOUS
      <4>2. n \in Nat /\ Tells(p, a, 0, b, n)
        BY <1>3, <3>2, <3>3, <4>1, ShortOnes, ToldIs
      <4>3. Len(p) = 0 + n /\ \A i \in 1 .. n : p[0 + i] = <<b[i].op, b[i].arg>>
        BY <4>2 DEF Tells
      <4>4. ASSUME NEW i \in 1 .. n PROVE b[i].op = "SNAPSHOT"
        <5>1. 0 + i = i /\ 0 + n = n
          BY <4>2
        <5>2. p[i] = <<b[i].op, b[i].arg>> /\ i \in 1 .. Len(p)
          BY <4>3, <5>1
        <5>3. p[i][1] = "SNAPSHOT"
          BY <3>1, <3>2, <5>2
        <5> QED BY <5>2, <5>3
      <4> QED BY <4>1, <4>4
    <3>5. s = [answer |-> IF ok THEN "accepted" ELSE "refused", snapshot |-> 0,
               inventory |-> 1, equipment |-> 1, text |-> "none"]
      BY <2>1, <3>2
    <3>6. \E k \in 2 .. Len(r) + 1 : Answered(r, k, s) /\ Due(r, k, NoView, s)
      BY <1>3, <3>2, <3>3, <3>4, <3>5, LoginIsDue
    <3>7. s.answer # "none"
      BY <3>5
    <3> QED BY <1>1, <1>6, <3>1, <3>2, <3>6, <3>7 DEF Entering
  <2> QED BY <1>1, <2>3, <2>4 DEF NothingIsLost
<1> QED BY <1>7, <1>8

\* Who asks to enter has not been answered, and who skips the login never is.
LEMMA EntryIsDue ==
  ASSUME GameInv, NothingIsLost, mode = "GAME", conn = "open", sendLogin \/ SkipLogin
  PROVE  NothingIsLost'
<1>1. main = "login" /\ main \in EnterPlaces /\ main \notin PlayPlaces
  BY DEF sendLogin, SkipLogin, EnterPlaces, PlayPlaces
<1>2. /\ mode' = mode /\ receiver' = receiver /\ sender' = sender /\ view' = view
      /\ server' = server /\ events_queue' = events_queue /\ queues_closed' = queues_closed
  BY DEF sendLogin, SkipLogin, threads, queues, screen, peer
<1>3. ~queues_closed /\ Entering
  BY <1>1 DEF NothingIsLost
<1>4. server.answer = "none" /\ NoLogin(to_server) /\ Due(Pending, 1, view, server)
  BY <1>1, <1>3 DEF Entering
<1>5. CASE sendLogin
  <2>1. main' = "waiting" /\ to_client' = to_client
    BY <1>5 DEF sendLogin, Send, SendThrows
  <2>2. Pending' = Pending
    BY <1>2, <2>1 DEF Pending
  <2>3. Entering'
    BY <1>2, <1>3, <1>4, <2>1, <2>2 DEF Entering
  <2> QED BY <1>2, <1>3, <2>1, <2>3 DEF NothingIsLost, EnterPlaces, PlayPlaces
<1>6. CASE SkipLogin
  <2>1. main' = "starting" /\ to_client' = to_client /\ to_server' = to_server
    BY <1>6 DEF SkipLogin, wire
  <2>2. Pending' = Pending
    BY <1>2, <2>1 DEF Pending
  <2>3. Playing'
    BY <1>2, <1>4, <2>1, <2>2 DEF Playing
  <2> QED BY <1>2, <1>3, <2>1, <2>3 DEF NothingIsLost, EnterPlaces, PlayPlaces
<1> QED BY <1>5, <1>6

\* The loop of the login takes what comes up to the answer, and leaves the rest to the
\* events of the game.
LEMMA LoginIsRead ==
  ASSUME GameInv, NothingIsLost, mode = "GAME", conn = "open", ReceiveLogin
  PROVE  NothingIsLost'
<1>1. PICK e : /\ Receive(e)
               /\ view' = IF e.more THEN handle_login_event(e) ELSE view
               /\ main' = IF e.op = "error" THEN "closing"
                          ELSE IF \/ ~e.more \/ e.op = "LOGIN_RESPONSE"
                                  \/ e.op = "garbage" /\ Head(to_client).op = "LOGIN_RESPONSE"
                               THEN "starting" ELSE "waiting"
  BY DEF ReceiveLogin
<1>2. PICK kind, x : kind = e.op /\ x = e.arg
  OBVIOUS
<1>3. /\ to_client # <<>> /\ to_client' = Tail(to_client) /\ to_server' = to_server
      /\ kind = Head(to_client).op /\ x = Head(to_client).arg /\ e.more = TRUE
      /\ kind # "error" /\ kind # "garbage"
  BY <1>1, <1>2, GameReads DEF ToClient
<1>4. /\ mode' = mode /\ receiver' = receiver /\ sender' = sender /\ server' = server
      /\ events_queue' = events_queue /\ queues_closed' = queues_closed /\ main = "waiting"
  BY DEF ReceiveLogin, threads, queues, peer
<1>5. main' = IF kind = "LOGIN_RESPONSE" THEN "starting" ELSE "waiting"
  BY <1>1, <1>2, <1>3
<1>6. /\ kind = "SNAPSHOT" => view' = view
      /\ kind = "LOGIN_RESPONSE" => view' = IF x = 1 THEN handle_login_success ELSE view
  <2>1. view' = handle_login_event(e)
    BY <1>1, <1>3
  <2> QED BY <1>2, <2>1 DEF handle_login_event
<1>7. ~queues_closed /\ Entering
  BY <1>4 DEF NothingIsLost, EnterPlaces
<1>8. PICK p, r, s : p = Pending /\ r = Pending' /\ s = server
  OBVIOUS
<1>9. Shorter(p, r) /\ p[1] = <<kind, x>>
  <2>1. p = Told(<<>>, to_client) /\ r = Told(<<>>, Tail(to_client))
    BY <1>3, <1>4, <1>7, <1>8 DEF Entering, Pending
  <2> QED BY <1>3, <2>1, GameQueues, ToldRead
<1>10. /\ Len(p) \in Nat \ {0} /\ Len(r) = Len(p) - 1 /\ \A i \in 1 .. Len(r) : r[i] = p[i + 1]
  BY <1>9 DEF Shorter
<1>11. CASE s.answer = "none"
  <2>1. \A i \in 1 .. Len(p) : p[i][1] = "SNAPSHOT"
    BY <1>7, <1>8, <1>11 DEF Entering
  <2>2. kind = "SNAPSHOT"
    <3>1. 1 \in 1 .. Len(p)
      BY <1>10
    <3> QED BY <1>9, <2>1, <3>1
  <2>3. ASSUME NEW i \in 1 .. Len(r) PROVE r[i][1] = "SNAPSHOT"
    <3>1. i + 1 \in 1 .. Len(p)
      BY <1>10
    <3> QED BY <1>10, <2>1, <3>1
  <2>4. view' = view /\ main' = "waiting"
    BY <1>5, <1>6, <2>2
  <2>5. Entering'
    BY <1>4, <1>7, <1>8, <1>11, <2>3, <2>4 DEF Entering
  <2> QED BY <1>4, <1>7, <2>4, <2>5 DEF NothingIsLost, EnterPlaces, PlayPlaces
<1>12. CASE s.answer # "none"
  <2>1. NoLogin(to_server) /\ \E k \in 2 .. Len(p) + 1 : Answered(p, k, s) /\ Due(p, k, view, s)
    BY <1>7, <1>8, <1>12 DEF Entering
  <2>2. PICK k \in 2 .. Len(p) + 1 : Answered(p, k, s) /\ Due(p, k, view, s)
    BY <2>1
  <2>3. /\ p[k - 1] = <<"LOGIN_RESPONSE", IF s.answer = "accepted" THEN 1 ELSE 0>>
        /\ \A i \in 1 .. k - 2 : p[i][1] = "SNAPSHOT"
    BY <2>2 DEF Answered
  <2>4. CASE k = 2
    <3>1. kind = "LOGIN_RESPONSE" /\ x = IF s.answer = "accepted" THEN 1 ELSE 0
      <4>1. k - 1 = 1
        BY <2>4
      <4> QED BY <1>9, <2>3, <4>1
    <3>2. main' = "starting" /\ view' = IF s.answer = "accepted" THEN handle_login_success ELSE view
      BY <1>5, <1>6, <3>1
    <3>3. Due(r, 1, view, s)
      <4>1. 1 \in Nat \ {0} /\ 1 + 1 = k
        BY <2>4
      <4> QED BY <1>9, <2>2, <4>1, DueNearer
    <3>4. /\ Due(r, 1, view', s)
          /\ s.answer = "accepted" => view'.local_player_id = Me
      <4>1. CASE s.answer = "accepted"
        <5>1. PICK w : w = handle_login_success
          OBVIOUS
        <5>2. IsView(view) /\ IsScreen(view)
          BY <3>3 DEF GameInv, Due
        <5>3. Looks(view, w, s) /\ w.local_player_id = Me
          BY <5>1, <5>2, WelcomeLooks
        <5>4. Due(r, 1, w, s)
          BY <3>3, <5>3, DueStays
        <5> QED BY <3>2, <4>1, <5>1, <5>3, <5>4
      <4>2. CASE s.answer # "accepted"
        BY <3>2, <3>3, <4>2
      <4> QED BY <4>1, <4>2
    <3>5. Playing'
      BY <1>3, <1>4, <1>8, <2>1, <3>4 DEF Playing, NoLogin
    <3> QED BY <1>4, <1>7, <3>2, <3>5 DEF NothingIsLost, EnterPlaces, PlayPlaces
  <2>5. CASE k # 2
    <3>1. PICK l : l = k - 1
      OBVIOUS
    <3>2. /\ l \in Nat \ {0} /\ l + 1 = k /\ l \in 2 .. Len(r) + 1 /\ 1 \in 1 .. k - 2
          /\ l - 1 \in 1 .. Len(r) /\ (l - 1) + 1 = k - 1
      BY <1>10, <2>5, <3>1
    <3>3. kind = "SNAPSHOT"
      BY <1>9, <2>3, <3>2
    <3>4. view' = view /\ main' = "waiting"
      BY <1>5, <1>6, <3>3
    <3>5. Due(r, l, view, s)
      BY <1>9, <2>2, <3>2, DueNearer
    <3>6. Answered(r, l, s)
      <4>1. r[l - 1] = p[k - 1]
        BY <1>10, <3>2
      <4>2. ASSUME NEW i \in 1 .. l - 2 PROVE r[i][1] = "SNAPSHOT"
        <5>1. i \in 1 .. Len(r) /\ i + 1 \in 1 .. k - 2
          BY <1>10, <3>2
        <5> QED BY <1>10, <2>3, <5>1
      <4> QED BY <2>3, <4>1, <4>2 DEF Answered
    <3>7. \E j \in 2 .. Len(r) + 1 : Answered(r, j, s) /\ Due(r, j, view, s)
      BY <3>2, <3>5, <3>6
    <3>8. Entering'
      BY <1>3, <1>4, <1>7, <1>8, <1>12, <2>1, <3>4, <3>7 DEF Entering, NoLogin
    <3> QED BY <1>4, <1>7, <3>4, <3>8 DEF NothingIsLost, EnterPlaces, PlayPlaces
  <2> QED BY <2>4, <2>5
<1> QED BY <1>11, <1>12

-----------------------------------------------------------------------------
(***************************************************************************)
(* The steps of the game.                                                  *)
(***************************************************************************)

\* What is shown may change, and what is on its way may move.
LEMMA PlayStays ==
  ASSUME NothingIsLost, mode = "GAME", conn = "open", main \in PlayPlaces, main' \in PlayPlaces,
         mode' = mode, queues_closed' = queues_closed, server' = server,
         NoLogin(to_server'), Due(Pending', 1, view', server),
         view'.local_player_id = view.local_player_id
  PROVE  NothingIsLost'
<1>1. ~queues_closed /\ Playing
  BY DEF NothingIsLost
<1>2. Playing'
  BY <1>1 DEF Playing
<1>3. main' \notin EnterPlaces
  BY DEF EnterPlaces, PlayPlaces
<1> QED BY <1>1, <1>2, <1>3 DEF NothingIsLost

\* Nothing of it changes.
LEMMA PlayGoesOn ==
  ASSUME NothingIsLost, mode = "GAME", conn = "open", main \in PlayPlaces, main' \in PlayPlaces,
         mode' = mode, queues_closed' = queues_closed, server' = server, view' = view,
         to_server' = to_server, to_client' = to_client, events_queue' = events_queue
  PROVE  NothingIsLost'
<1>1. NoLogin(to_server) /\ Due(Pending, 1, view, server)
  BY DEF NothingIsLost, Playing
<1>2. Pending' = Pending
  BY DEF Pending
<1> QED BY <1>1, <1>2, PlayStays

\* The view changes, in what no message says.
LEMMA LooksChange ==
  ASSUME GameInv, NothingIsLost, mode = "GAME", conn = "open",
         main \in PlayPlaces, main' \in PlayPlaces,
         mode' = mode, queues_closed' = queues_closed, server' = server,
         to_server' = to_server, to_client' = to_client, events_queue' = events_queue,
         IsView(view) /\ IsScreen(view) =>
           Looks(view, view', server) /\ view'.local_player_id = view.local_player_id
  PROVE  NothingIsLost'
<1>1. NoLogin(to_server) /\ Due(Pending, 1, view, server)
  BY DEF NothingIsLost, Playing
<1>2. Looks(view, view', server) /\ view'.local_player_id = view.local_player_id
  BY <1>1 DEF GameInv, Due
<1>3. Pending' = Pending
  BY DEF Pending
<1>4. Due(Pending, 1, view', server)
  <2>1. PICK p, v, w, s : p = Pending /\ v = view /\ w = view' /\ s = server
    OBVIOUS
  <2>2. Due(p, 1, w, s)
    BY <1>1, <1>2, <2>1, DueStays
  <2> QED BY <2>1, <2>2
<1> QED BY <1>1, <1>2, <1>3, <1>4, PlayStays

\* A frame is drawn, the console is scrolled, or a line is entered.
LEMMA ScreenIsDue ==
  ASSUME GameInv, NothingIsLost, mode = "GAME", conn = "open", EndFrame \/ Scroll \/ EnterLine
  PROVE  NothingIsLost'
<1>1. main \in PlayPlaces /\ main' \in PlayPlaces
  BY DEF EndFrame, Scroll, EnterLine, Input, PlayPlaces
<1>2. /\ mode' = mode /\ queues_closed' = queues_closed /\ server' = server
      /\ to_server' = to_server /\ to_client' = to_client /\ events_queue' = events_queue
  BY DEF EndFrame, Scroll, EnterLine, Input, queues, wire, peer
<1>3. ASSUME IsView(view), IsScreen(view)
      PROVE  Looks(view, view', server) /\ view'.local_player_id = view.local_player_id
  <2>1. PICK v, w, s : v = view /\ w = view' /\ s = server
    OBVIOUS
  <2>2. CASE EndFrame
    <3>1. PICK arriving : w = update_animations(v, arriving)
      BY <2>1, <2>2 DEF EndFrame
    <3> QED BY <1>3, <2>1, <3>1, FrameLooks
  <2>3. CASE Scroll
    <3>1. PICK delta \in {-1, 1} : w = scroll_console(v, delta)
      BY <2>1, <2>3 DEF Scroll
    <3> QED BY <1>3, <2>1, <3>1, ScrollLooks
  <2>4. CASE EnterLine
    <3>1. w = process_help_command \/ w = view
      BY <2>1, <2>4 DEF EnterLine
    <3>2. CASE w = process_help_command
      BY <1>3, <2>1, <3>2, HelpLooks
    <3>3. CASE w = view
      BY <1>3, <2>1, <3>3, TextsStay DEF Looks
    <3> QED BY <3>1, <3>2, <3>3
  <2> QED BY <2>2, <2>3, <2>4
<1> QED BY <1>1, <1>2, <1>3, LooksChange

\* An event is shown.
LEMMA EventIsDue ==
  ASSUME GameInv, NothingIsLost, mode = "GAME", conn = "open", HandleEvent
  PROVE  NothingIsLost'
<1>1. main \in PlayPlaces /\ main' \in PlayPlaces
  BY DEF HandleEvent, PlayPlaces
<1>2. /\ mode' = mode /\ queues_closed' = queues_closed /\ server' = server
      /\ to_server' = to_server /\ to_client' = to_client
      /\ events_queue # <<>> /\ events_queue' = Tail(events_queue)
  BY DEF HandleEvent, wire, peer
<1>3. /\ NoLogin(to_server) /\ Due(Pending, 1, view, server)
      /\ server.answer = "accepted" => view.local_player_id = Me
  BY <1>1 DEF NothingIsLost, Playing
<1>4. PICK p, r, e, s : p = Pending /\ r = Pending' /\ e = Head(events_queue) /\ s = server
  OBVIOUS
<1>5. Shorter(p, r) /\ p[1] = <<e.op, e.arg>>
  BY <1>2, <1>4, GameQueues, ToldTaken DEF Pending
<1>6. Len(p) \in Nat \ {0}
  BY <1>5 DEF Shorter
<1>7. IsView(view)
  BY DEF GameInv
<1>8. Due(p, 2, view', s) /\ view'.local_player_id = view.local_player_id
  BY <1>3, <1>4, <1>5, <1>6, <1>7, EventIsShown
<1>9. Due(r, 1, view', s)
  <2>1. 1 \in Nat \ {0} /\ 1 + 1 = 2
    OBVIOUS
  <2> QED BY <1>5, <1>8, <2>1, DueNearer
<1> QED BY <1>1, <1>2, <1>3, <1>4, <1>8, <1>9, PlayStays

\* A message becomes an event.
LEMMA ReadIsDue ==
  ASSUME GameInv, NothingIsLost, mode = "GAME", conn = "open", recvEventClient
  PROVE  NothingIsLost'
<1>1. /\ receiver = "running" /\ mode' = mode /\ main' = main /\ queues_closed' = queues_closed
      /\ view' = view /\ server' = server
  BY DEF recvEventClient, screen, peer
<1>2. PICK e : /\ Receive(e)
               /\ events_queue' = IF queues_closed \/ e.op = "error" THEN events_queue
                                  ELSE Append(events_queue, e)
  BY DEF recvEventClient
<1>3. main \notin EnterPlaces
  BY <1>1 DEF NothingIsLost, Entering
<1>4. CASE main \in PlayPlaces
  <2>1. /\ ~queues_closed /\ NoLogin(to_server) /\ Due(Pending, 1, view, server)
    BY <1>4 DEF NothingIsLost, Playing
  <2>2. /\ to_client # <<>> /\ to_client' = Tail(to_client) /\ to_server' = to_server
        /\ e.op = Head(to_client).op /\ e.arg = Head(to_client).arg /\ e.op # "error"
    BY <1>2, GameReads DEF ToClient
  <2>3. events_queue' = Append(events_queue, e)
    BY <1>2, <2>1, <2>2
  <2>4. PICK a, b, c, d : /\ a = events_queue /\ b = to_client /\ c = events_queue'
                          /\ d = to_client'
    OBVIOUS
  <2>5. Same(Told(c, d), Told(a, b))
    <3>1. /\ IsSeq(a) /\ IsSeq(b) /\ b # <<>> /\ e.op = Head(b).op /\ e.arg = Head(b).arg
          /\ c = Append(a, e) /\ d = Tail(b)
      BY <2>2, <2>3, <2>4, GameQueues
    <3> QED BY <3>1, ToldMoves, Zenon
  <2>6. Pending' = Pending
    BY <2>4, <2>5 DEF Pending, Same
  <2> QED BY <1>1, <1>4, <2>1, <2>2, <2>6, PlayStays
<1>5. CASE main \notin PlayPlaces
  BY <1>1, <1>3, <1>5 DEF NothingIsLost
<1> QED BY <1>4, <1>5

\* What a game asks once it plays is no login.
LEMMA AskIsDue ==
  ASSUME GameInv, NothingIsLost, mode = "GAME", conn = "open", sendCmd
  PROVE  NothingIsLost'
<1>1. /\ sender = "running" /\ mode' = mode /\ main' = main /\ queues_closed' = queues_closed
      /\ view' = view /\ server' = server /\ events_queue' = events_queue /\ cmd_queue # <<>>
  BY DEF sendCmd, screen, peer
<1>2. PICK r : r = Head(cmd_queue)
  OBVIOUS
<1>3. to_server' = Append(to_server, r) /\ to_client' = to_client
  BY <1>2 DEF sendCmd, Send, SendThrows
<1>4. r.op # "LOGIN"
  <2>1. IsSeq(cmd_queue) /\ \A i \in 1 .. Len(cmd_queue) : cmd_queue[i].op # "LOGIN"
    BY DEF GameInv, Asks, AllWanted, Wanted, Asked
  <2>2. Len(cmd_queue) \in Nat \ {0} /\ r = cmd_queue[1]
    BY <1>1, <1>2, <2>1, TailIs
  <2> QED BY <2>1, <2>2
<1>5. main \notin EnterPlaces
  BY <1>1 DEF NothingIsLost, Entering
<1>6. CASE main \in PlayPlaces
  <2>1. NoLogin(to_server) /\ Due(Pending, 1, view, server)
    BY <1>6 DEF NothingIsLost, Playing
  <2>2. NoLogin(to_server')
    <3>1. PICK n, u : n = Len(to_server) /\ u = to_server'
      OBVIOUS
    <3>2. /\ n \in Nat /\ Len(u) = n + 1 /\ u[n + 1] = r /\ \A i \in 1 .. n : u[i] = to_server[i]
      BY <1>3, <3>1, GameQueues, AppendIs
    <3>3. ASSUME NEW i \in 1 .. Len(u) PROVE u[i].op # "LOGIN"
      <4>1. i \in 1 .. n \/ i = n + 1
        BY <3>2
      <4> QED BY <1>4, <2>1, <3>1, <3>2, <4>1 DEF NoLogin
    <3> QED BY <3>1, <3>3 DEF NoLogin
  <2>3. Pending' = Pending
    BY <1>1, <1>3 DEF Pending
  <2> QED BY <1>1, <1>6, <2>1, <2>2, <2>3, PlayStays
<1>7. CASE main \notin PlayPlaces
  BY <1>1, <1>5, <1>7 DEF NothingIsLost
<1> QED BY <1>6, <1>7

\* The steps that nothing of this depends on.
LEMMA OthersGoOn ==
  ASSUME NothingIsLost, mode = "GAME", conn = "open",
         \/ UserSteps /\ ~Scroll /\ ~EnterLine
         \/ StartThreads \/ BeginFrame \/ EventsHandled \/ SenderEnds
  PROVE  NothingIsLost'
<1>1. /\ mode' = mode /\ queues_closed' = queues_closed /\ server' = server /\ view' = view
      /\ to_server' = to_server /\ to_client' = to_client /\ events_queue' = events_queue
  BY DEF UserSteps, Quit, SetChatActive, DebugKey, DoubleClick, SelectSlot, ClickEntity,
     ClickNobody, Move, Input, StartThreads, BeginFrame, EventsHandled, SenderEnds, queues,
     screen, wire, peer
<1>2. ASSUME main \in PlayPlaces, main' \in PlayPlaces PROVE NothingIsLost'
  BY <1>1, <1>2, PlayGoesOn
<1>3. ASSUME main' \notin PlayPlaces, main' \notin EnterPlaces PROVE NothingIsLost'
  BY <1>3 DEF NothingIsLost
<1>4. CASE UserSteps
  <2>1. main = "input" /\ main' = main
    BY <1>4 DEF UserSteps, Quit, SetChatActive, DebugKey, DoubleClick, SelectSlot, ClickEntity,
       ClickNobody, Scroll, EnterLine, Move, Input
  <2> QED BY <1>2, <2>1 DEF PlayPlaces
<1>5. CASE StartThreads \/ EventsHandled
  <2>1. main \in {"starting", "events"} /\ main' \in {"loop", "input"}
    BY <1>5 DEF StartThreads, EventsHandled
  <2> QED BY <1>2, <2>1 DEF PlayPlaces
<1>6. CASE BeginFrame
  <2>1. main = "loop" /\ main' \in {"closing", "events"}
    BY <1>6 DEF BeginFrame
  <2> QED BY <1>2, <1>3, <2>1 DEF PlayPlaces, EnterPlaces
<1>7. CASE SenderEnds
  <2>1. sender = "running" /\ main' = main
    BY <1>7 DEF SenderEnds
  <2>2. main \notin EnterPlaces
    BY <2>1 DEF NothingIsLost, Entering
  <2> QED BY <1>2, <1>3, <2>1, <2>2
<1> QED BY <1>4, <1>5, <1>6, <1>7

-----------------------------------------------------------------------------
\* Every step.
LEMMA StepNothingIsLost ==
  ASSUME GameInv, NothingIsLost, Next
  PROVE  NothingIsLost'
<1>1. mode' = mode
  BY ModeStays
<1>2. conn # "open" => conn' # "open"
  BY GoneIsGone DEF GameInv
<1>3. CASE mode # "GAME" \/ conn' # "open"
  BY <1>1, <1>3 DEF NothingIsLost
<1>4. ASSUME mode = "GAME", conn = "open", conn' = "open" PROVE NothingIsLost'
  <2>1. ~ServerGoes /\ ~CloseSocket
    BY <1>4 DEF ServerGoes, CloseSocket
  <2>2. ~MenuAsks /\ ~MenuIsAnswered
    BY <1>4 DEF MenuAsks, MenuIsAnswered, GameInv, Control, GamePlaces
  <2>3. ASSUME ServerSteps PROVE NothingIsLost'
    BY <1>4, <2>1, <2>3, AnswerIsDue, BroadcastIsDue, SentIsDue DEF ServerSteps
  <2>4. ASSUME UserSteps PROVE NothingIsLost'
    BY <1>4, <2>4, ScreenIsDue, OthersGoOn
  <2>5. ASSUME CloseFails \/ CloseQueues \/ Join PROVE NothingIsLost'
    <3>1. main' \in {"failed", "aborted", "joining", "ended"}
      BY <2>5 DEF CloseFails, CloseQueues, Join
    <3> QED BY <3>1 DEF NothingIsLost, EnterPlaces, PlayPlaces
  <2>6. ASSUME MainSteps PROVE NothingIsLost'
    <3>1. \/ sendLogin \/ ReceiveLogin \/ HandleEvent \/ EndFrame
          \/ StartThreads \/ BeginFrame \/ EventsHandled \/ CloseFails \/ CloseQueues \/ Join
      BY <2>1, <2>2, <2>6 DEF MainSteps
    <3> QED BY <1>4, <2>5, <3>1, EntryIsDue, LoginIsRead, EventIsDue, ScreenIsDue, OthersGoOn
  <2>7. ASSUME SenderSteps PROVE NothingIsLost'
    BY <1>4, <2>7, AskIsDue, OthersGoOn DEF SenderSteps
  <2> QED BY <1>4, <2>3, <2>4, <2>6, <2>7, EntryIsDue, ReadIsDue DEF Next
<1> QED BY <1>2, <1>3, <1>4

\* At the start nothing was said.
LEMMA InitNothingIsLost == Init => NothingIsLost
<1> SUFFICES ASSUME Init PROVE NothingIsLost
  OBVIOUS
<1>1. /\ view = NoView /\ events_queue = <<>> /\ to_client = <<>> /\ to_server = <<>>
      /\ receiver = "new" /\ sender = "new" /\ ~queues_closed
      /\ server.answer = "none" /\ server.snapshot = 0
      /\ main \in {"login", "menu"}
  BY DEF Init, run
<1>2. NoLogin(to_server)
  BY <1>1, ShortOnes DEF NoLogin
<1>3. Len(Pending) = 0
  <2>1. PICK a, p : a = <<>> /\ p = Told(a, a)
    OBVIOUS
  <2>2. Tells(p, a, 0, a, 0)
    BY <2>1, ShortOnes, ToldIs
  <2>3. Len(p) = 0 + 0
    BY <2>2 DEF Tells
  <2> QED BY <1>1, <2>1, <2>3 DEF Pending
<1>4. \A i \in 1 .. Len(Pending) : FALSE
  BY <1>3
<1>5. Due(Pending, 1, view, server)
  <2>1. IsScreen(view) /\ view.static_entity_keys = {} /\ Shows(view, server)
    BY <1>1, NobodyIsShown
  <2>2. server.answer # "accepted"
    BY <1>1
  <2> QED BY <1>4, <2>1, <2>2 DEF Due, Legal, Silent, WorldIsDue
<1>6. Entering
  BY <1>1, <1>2, <1>4, <1>5 DEF Entering
<1> QED BY <1>1, <1>6 DEF NothingIsLost, PlayPlaces

\* A client that caught up shows all that the server said last.
LEMMA NothingPendingIsShown ==
  ASSUME GameInv, NothingIsLost, CaughtUp
  PROVE  SessionShown /\ SnapshotShown /\ SoundsHeard /\ ConsoleInBounds
<1>1. main = "input" /\ conn = "open" /\ to_client = <<>> /\ events_queue = <<>>
  BY DEF CaughtUp
<1>2. mode = "GAME"
  BY <1>1 DEF GameInv, Control, MenuPlaces
<1>3. /\ Due(Pending, 1, view, server)
      /\ server.answer = "accepted" => view.local_player_id = Me
  BY <1>1, <1>2 DEF NothingIsLost, Playing, PlayPlaces
<1>4. Len(Pending) = 0
  <2>1. PICK a, p : a = <<>> /\ p = Told(a, a)
    OBVIOUS
  <2>2. Tells(p, a, 0, a, 0)
    BY <2>1, ShortOnes, ToldIs
  <2>3. Len(p) = 0 + 0
    BY <2>2 DEF Tells
  <2> QED BY <1>1, <2>1, <2>3 DEF Pending
<1>5. PICK p, v, s : p = Pending /\ v = view /\ s = server
  OBVIOUS
<1>6. (\A i \in 1 .. Len(p) : FALSE) /\ ~(1 <= Len(p))
  BY <1>4, <1>5
<1>7. \A kind, x : ~Newest(p, 1, kind, x)
  BY <1>6 DEF Newest
<1>8. IsScreen(v) /\ Shows(v, s)
  BY <1>3, <1>5, <1>7 DEF Due, WorldIsDue
<1>9. SessionShown
  <2>1. SUFFICES ASSUME s.answer = "accepted"
        PROVE  /\ v.local_player_id = Me
               /\ v.static_entity_keys = {citizen_entity_key(id) : id \in DOMAIN Citizens}
               /\ v.inventory_slots = Slots[s.inventory]
               /\ equipment_slot_at(v) = DOMAIN Slots[s.equipment]
               /\ \/ s.text \in Spoken \cup {"none"} \cup Range(v.console)
                  \/ Len(v.console) = MAX_CHAT_LOG_SIZE
    BY <1>5 DEF SessionShown
  <2>2. MapIsDue(p, 1, v) /\ SlotsAreDue(p, 1, v, s) /\ TextIsDue(p, 1, v, s)
    BY <1>3, <1>5, <2>1 DEF Due
  <2>3. v.static_entity_keys = MapKeys
    BY <1>6, <2>2 DEF MapIsDue
  <2>4. v.inventory_slots = Slots[s.inventory] /\ equipment_slot_at(v) = DOMAIN Slots[s.equipment]
    BY <1>7, <2>2 DEF SlotsAreDue
  <2>5. \/ s.text \in Spoken \cup {"none"} \cup Range(v.console)
        \/ Len(v.console) = MAX_CHAT_LOG_SIZE
    BY <1>6, <2>2 DEF TextIsDue
  <2> QED BY <1>3, <1>5, <2>1, <2>3, <2>4, <2>5 DEF MapKeys
<1>10. SnapshotShown
  <2>1. CASE s.snapshot = 0
    <3>1. DOMAIN v.entities \ v.static_entity_keys = {}
      BY <1>8, <2>1 DEF Shows
    <3> QED BY <1>5, <2>1, <3>1 DEF SnapshotShown
  <2>2. CASE s.snapshot # 0
    <3>1. Here(v, Snapshots[s.snapshot])
      BY <1>8, <2>2 DEF Shows
    <3> QED BY <1>5, <2>2, <3>1 DEF SnapshotShown, Here
  <2> QED BY <2>1, <2>2
<1>11. SoundsHeard
  <2>1. SUFFICES ASSUME s.answer = "accepted", s.snapshot # 0,
                        Me \in DOMAIN Snapshots[s.snapshot].players
                 PROVE  HeardIs(v.heard, Range(Snapshots[s.snapshot].sound_effects))
    BY <1>5 DEF SoundsHeard, HeardIs
  <2> QED BY <1>8, <2>1 DEF Shows
<1>12. ConsoleInBounds
  BY <1>5, <1>8 DEF ConsoleInBounds, IsScreen
<1> QED BY <1>9, <1>10, <1>11, <1>12

\* However the login, the broadcasts, the answers of the server, the receiver and the
\* frames interleave, nothing the server said is lost or shown out of order: once all
\* of it was handled, the screen shows the last of it, and of the texts those that are
\* the server's own (TheViewCatchesUp says which are not).
THEOREM ViewCorrect == Spec => []TheViewCatchesUp
<1>1. Init => NothingIsLost
  BY InitNothingIsLost
<1>2. GameInv /\ NothingIsLost /\ [Next]_vars => NothingIsLost'
  <2>1. ASSUME GameInv, NothingIsLost, Next PROVE NothingIsLost'
    BY <2>1, StepNothingIsLost
  <2>2. ASSUME NothingIsLost, UNCHANGED vars PROVE NothingIsLost'
    BY <2>2 DEF vars, threads, queues, wire, screen, peer, NothingIsLost, Entering, Playing, Pending
  <2> QED BY <2>1, <2>2
<1>3. GameInv /\ NothingIsLost => TheViewCatchesUp
  BY NothingPendingIsShown DEF TheViewCatchesUp
<1> QED BY <1>1, <1>2, <1>3, GameInvariant, PTL DEF Spec

-----------------------------------------------------------------------------
(***************************************************************************)
(* BlockingQueue, the queues between the threads, of any size and for any  *)
(* threads and values.                                                     *)
(***************************************************************************)

\* A wait set only ever shrinks to {} when its condition may have changed, and
\* only threads that saw the condition false are added to it.
QInv == TypeOK /\ NoPopperSleepsInVain /\ NoPusherSleepsInVain

\* What is left of a queue when its oldest element is taken.
LEMMA TailFacts ==
  ASSUME NEW s \in Seq(Values), s # <<>>
  PROVE  Tail(s) \in Seq(Values) /\ Len(Tail(s)) = Len(s) - 1 /\ Len(s) \in Nat \ {0}
BY EmptySeq, HeadTailProperties

\* A queue with one more element.
LEMMA AppendFacts ==
  ASSUME NEW s \in Seq(Values), NEW v \in Values
  PROVE  /\ Append(s, v) \in Seq(Values) /\ Append(s, v) # <<>>
         /\ Len(Append(s, v)) = Len(s) + 1 /\ Len(s) \in Nat
BY AppendProperties, LenProperties

\* An element that is let in finds room, and leaves nobody asleep on is_not_empty.
LEMMA EnqueueKeeps ==
  ASSUME TypeOK, NoPopperSleepsInVain, ~Full, NEW v \in Values, Enqueue(v)
  PROVE  /\ q' \in Seq(Values) /\ Len(q') <= MaxSize
         /\ waitNotEmpty' \subseteq waitNotEmpty
         /\ waitNotEmpty' = {}
<1>1. Len(q) < MaxSize /\ q \in Seq(Values)
  <2>1. Len(q) \in Nat
    BY AppendFacts DEF TypeOK
  <2>2. QED
    BY <2>1, QueueAssumption DEF TypeOK, Full
<1>2. q' = Append(q, v)
  BY DEF Enqueue
<1>3. QED
  BY <1>1, <1>2, AppendFacts, QueueAssumption
  DEF Enqueue, Empty, NoPopperSleepsInVain

\* An element that is taken leaves nobody asleep on is_not_full.
LEMMA DequeueKeeps ==
  ASSUME TypeOK, NoPusherSleepsInVain, Dequeue
  PROVE  /\ q' \in Seq(Values) /\ Len(q') <= MaxSize
         /\ waitNotFull' \subseteq waitNotFull
         /\ waitNotFull' = {}
<1>1. q \in Seq(Values) /\ q # <<>> /\ Len(q) <= MaxSize
  BY DEF TypeOK, Dequeue, Empty
<1>2. q' = Tail(q)
  BY DEF Dequeue
<1>3. QED
  BY <1>1, <1>2, TailFacts, QueueAssumption DEF Dequeue, NoPusherSleepsInVain, Full

-----------------------------------------------------------------------------
\* The bounds of the queue and both kinds of sleep together: what is said of one
\* wait set is kept only while the queue keeps to its size.
LEMMA QInvHolds == SafeSpec => []QInv
<1> USE QueueAssumption
<1>1. QueueInit => QInv
  <2> SUFFICES ASSUME QueueInit PROVE QInv
    OBVIOUS
  <2>1. q \in Seq(Values) /\ Len(q) = 0
    BY EmptySeq DEF QueueInit
  <2>2. Len(q) <= MaxSize
    BY <2>1
  <2>3. NoPopperSleepsInVain /\ NoPusherSleepsInVain
    BY DEF QueueInit, NoPopperSleepsInVain, NoPusherSleepsInVain
  <2>4. /\ op \in [Threads -> {"none", "push", "pop"}]
        /\ arg \in [Threads -> Values \union {NoValue}]
        /\ \A t \in Threads : op[t] = "none" /\ arg[t] = NoValue
        /\ closed \in BOOLEAN /\ waitNotFull = {} /\ waitNotEmpty = {}
    BY DEF QueueInit
  <2>5. QED
    BY <2>1, <2>2, <2>3, <2>4 DEF QInv, TypeOK
<1>2. QInv /\ [QueueNext]_queue_vars => QInv'
  <2> SUFFICES ASSUME QInv, [QueueNext]_queue_vars PROVE QInv'
    OBVIOUS
  <2> USE DEF QInv
  <2>1. CASE Close
    BY <2>1 DEF Close, TypeOK, NoPopperSleepsInVain, NoPusherSleepsInVain, Full, Empty
  <2>2. ASSUME NEW t \in Threads, NEW v \in Values, PushNow(t, v) PROVE QInv'
    <3>1. ~Full /\ Enqueue(v) /\ waitNotFull' = waitNotFull
          /\ UNCHANGED <<closed, op, arg>>
      BY <2>2 DEF PushNow
    <3>2. waitNotFull = {}
      BY <3>1 DEF NoPusherSleepsInVain
    <3>3. QED
      BY <3>1, <3>2, EnqueueKeeps
      DEF TypeOK, NoPopperSleepsInVain, NoPusherSleepsInVain
  <2>3. ASSUME NEW t \in Threads, NEW v \in Values, PushWaits(t, v) PROVE QInv'
    <3>1. waitNotEmpty = {}
      BY <2>3 DEF PushWaits, NoPopperSleepsInVain, Full, Empty
    <3>2. QED
      BY <2>3, <3>1
      DEF PushWaits, TypeOK, NoPopperSleepsInVain, NoPusherSleepsInVain, Full
  <2>4. ASSUME NEW t \in Threads, PushResumes(t) PROVE QInv'
    <3>1. CASE Full
      <4>1. waitNotEmpty = {}
        BY <3>1 DEF NoPopperSleepsInVain, Full, Empty
      <4>2. QED
        BY <2>4, <3>1, <4>1
        DEF PushResumes, TypeOK, NoPopperSleepsInVain, NoPusherSleepsInVain, Full
    <3>2. CASE ~Full
      <4>1. /\ Enqueue(arg[t]) /\ arg[t] \in Values /\ waitNotFull' = waitNotFull
            /\ op' = [op EXCEPT ![t] = "none"] /\ arg' = [arg EXCEPT ![t] = NoValue]
            /\ closed' = closed
        BY <2>4, <3>2 DEF PushResumes, TypeOK
      <4>2. waitNotFull = {}
        BY <3>2 DEF NoPusherSleepsInVain
      <4>3. QED
        BY <3>2, <4>1, <4>2, EnqueueKeeps
        DEF TypeOK, NoPopperSleepsInVain, NoPusherSleepsInVain
    <3>3. QED
      BY <3>1, <3>2
  <2>5. ASSUME NEW t \in Threads, PopNow(t) PROVE QInv'
    <3>1. Dequeue /\ UNCHANGED <<closed, op, arg, waitNotEmpty>>
      BY <2>5 DEF PopNow
    <3>2. waitNotEmpty = {}
      BY <3>1 DEF Dequeue, NoPopperSleepsInVain
    <3>3. QED
      BY <3>1, <3>2, DequeueKeeps
      DEF TypeOK, NoPopperSleepsInVain, NoPusherSleepsInVain
  <2>6. ASSUME NEW t \in Threads, PopWaits(t) PROVE QInv'
    <3>1. waitNotFull = {}
      BY <2>6 DEF PopWaits, NoPusherSleepsInVain, Full, Empty
    <3>2. QED
      BY <2>6, <3>1
      DEF PopWaits, TypeOK, NoPopperSleepsInVain, NoPusherSleepsInVain, Empty
  <2>7. ASSUME NEW t \in Threads, PopResumes(t) PROVE QInv'
    <3>1. CASE Dequeue /\ op' = [op EXCEPT ![t] = "none"] /\ UNCHANGED <<waitNotEmpty, closed, arg>>
      <4>1. waitNotEmpty = {}
        BY <3>1 DEF Dequeue, NoPopperSleepsInVain
      <4>2. QED
        BY <2>7, <3>1, <4>1, DequeueKeeps
        DEF PopResumes, TypeOK, NoPopperSleepsInVain, NoPusherSleepsInVain
    <3>2. CASE Empty /\ closed /\ op' = [op EXCEPT ![t] = "none"]
               /\ UNCHANGED <<q, waitNotFull, waitNotEmpty, closed, arg>>
      <4>1. waitNotEmpty = {}
        BY <3>2 DEF NoPopperSleepsInVain
      <4>2. QED
        BY <2>7, <3>2, <4>1
        DEF PopResumes, TypeOK, NoPopperSleepsInVain, NoPusherSleepsInVain, Full
    <3>3. CASE Empty /\ ~closed /\ waitNotEmpty' = waitNotEmpty \union {t}
               /\ UNCHANGED <<q, op, waitNotFull, closed, arg>>
      BY <2>7, <3>3
      DEF PopResumes, TypeOK, NoPopperSleepsInVain, NoPusherSleepsInVain, Full, Empty
    <3>4. QED
      BY <2>7, <3>1, <3>2, <3>3 DEF PopResumes
  <2>8. ASSUME NEW t \in Threads, SpuriousWakeup(t) PROVE QInv'
    BY <2>8
    DEF SpuriousWakeup, TypeOK, NoPopperSleepsInVain, NoPusherSleepsInVain, Full, Empty
  <2>9. CASE UNCHANGED queue_vars
    BY <2>9 DEF queue_vars, TypeOK, NoPopperSleepsInVain, NoPusherSleepsInVain, Full, Empty
  <2>10. QED
    BY <2>1, <2>2, <2>3, <2>4, <2>5, <2>6, <2>7, <2>8, <2>9 DEF QueueNext
<1>3. QED
  BY <1>1, <1>2, PTL DEF SafeSpec

\* A thread asleep on is_not_empty means an empty open queue, and one asleep on
\* is_not_full a full queue, although push and pop notify only at those edges
\* and close notifies only the poppers.
THEOREM NoLostWakeup == QueueSpec => []NobodySleepsInVain
<1>1. QInv => NobodySleepsInVain
  BY DEF QInv, NobodySleepsInVain
<1>2. QED
  BY <1>1, QInvHolds, PTL DEF QueueSpec

\* The queue holds at most max_size values, and a thread is in a wait set only
\* inside the call that waits there.
THEOREM QueueTypeCorrect == QueueSpec => []TypeOK
<1>1. QInv => TypeOK
  BY DEF QInv
<1>2. QED
  BY <1>1, QInvHolds, PTL DEF QueueSpec

\* What the contract sees of a step of the queue is a step of the contract: no
\* element is lost, duplicated or reordered, a full queue admits nothing and a
\* blocked call returns only for the reasons the contract gives.
THEOREM StepImplementsContract == SafeSpec => Contract!SafeSpec
<1> USE DEF Contract!cvars
<1>1. QueueInit => Contract!Init
  BY DEF QueueInit, Contract!Init
<1>2. QInv /\ QInv' /\ [QueueNext]_queue_vars => [Contract!Next]_(Contract!cvars)
  <2> SUFFICES ASSUME QInv, QInv', [QueueNext]_queue_vars PROVE [Contract!Next]_(Contract!cvars)
    OBVIOUS
  <2>0. ~Full <=> Len(q) < MaxSize
    <3>1. Len(q) \in Nat /\ Len(q) <= MaxSize
      BY AppendFacts, LenProperties DEF QInv, TypeOK
    <3>2. QED
      BY <3>1, QueueAssumption DEF Full
  <2>1. CASE Close
    BY <2>1 DEF Close, Contract!Next, Contract!Close
  <2>2. ASSUME NEW t \in Threads, NEW v \in Values, PushNow(t, v) \/ PushWaits(t, v)
        PROVE Contract!Next
    <3>1. Contract!Accept(t, v) \/ Contract!BlockPush(t, v)
      BY <2>0, <2>2
      DEF PushNow, PushWaits, Enqueue, Full, Contract!Accept, Contract!BlockPush,
          Contract!Insert
    <3>2. QED
      BY <3>1 DEF Contract!Next
  <2>3. ASSUME NEW t \in Threads, PushResumes(t) PROVE [Contract!Next]_(Contract!cvars)
    <3>1. CASE Full
      BY <2>3, <3>1 DEF PushResumes
    <3>2. CASE ~Full
      <4>1. Contract!FinishPush(t)
        BY <2>0, <2>3, <3>2 DEF PushResumes, Enqueue, Contract!FinishPush, Contract!Insert
      <4>2. QED
        BY <4>1 DEF Contract!Next
    <3>3. QED
      BY <3>1, <3>2
  <2>4. ASSUME NEW t \in Threads, PopNow(t) \/ PopWaits(t) PROVE Contract!Next
    <3>1. Contract!Deliver(t) \/ Contract!BlockPop(t)
      BY <2>4 DEF PopNow, PopWaits, Dequeue, Empty, Contract!Deliver, Contract!BlockPop
    <3>2. QED
      BY <3>1 DEF Contract!Next
  <2>5. ASSUME NEW t \in Threads, PopResumes(t) PROVE [Contract!Next]_(Contract!cvars)
    <3>1. CASE Empty /\ ~closed
      BY <2>5, <3>1 DEF PopResumes, Dequeue
    <3>2. CASE ~(Empty /\ ~closed)
      <4>1. Contract!FinishPop(t)
        BY <2>5, <3>2 DEF PopResumes, Dequeue, Empty, Contract!FinishPop
      <4>2. QED
        BY <4>1 DEF Contract!Next
    <3>3. QED
      BY <3>1, <3>2
  <2>6. ASSUME NEW t \in Threads, SpuriousWakeup(t) PROVE UNCHANGED Contract!cvars
    BY <2>6 DEF SpuriousWakeup
  <2>7. CASE UNCHANGED queue_vars
    BY <2>7 DEF queue_vars
  <2>8. QED
    BY <2>1, <2>2, <2>3, <2>4, <2>5, <2>6, <2>7 DEF QueueNext
<1>3. QED
  BY <1>1, <1>2, QInvHolds, PTL DEF SafeSpec, Contract!SafeSpec
=============================================================================
