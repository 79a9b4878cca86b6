---------------------------- MODULE LinksProofs ----------------------------
(***************************************************************************)
(* Lemmas about Links: what a loop along the links meets is the sequence   *)
(* that the links join, and what becomes of that sequence when an object   *)
(* is put at its end, taken off its front, or linked in or taken out       *)
(* anywhere; and the same for links that go around.  The proofs about the  *)
(* lists of intr.cxx and thread.cxx rest on them.                          *)
(***************************************************************************)
EXTENDS Links, FiniteSetTheorems, SequenceTheorems, WellFoundedInduction, TLAPS

\* The k-th object of w, and none behind the last.
Item(none, w, k) == IF k > Len(w) THEN none ELSE w[k]

\* The links join the objects of w, from first on, and none twice.
Path(link, none, first, w) ==
  /\ first = Item(none, w, 1)
  /\ \A k \in 1 .. Len(w) : link[w[k]] = Item(none, w, k + 1)
  /\ \A j, k \in 1 .. Len(w) : w[j] = w[k] => j = k

\* A set of numbers with a member has a least one.
LEMMA Least ==
  ASSUME NEW R \in SUBSET Nat, R # {}
  PROVE  \E m \in R : \A k \in R : m <= k
<1> DEFINE less == {q \in Nat \X Nat : q[1] < q[2]}
<1>1. IsWellFoundedOn(less, Nat)
  BY NatLessThanWellFounded, Zenon DEF OpToRel
<1>2. \A x, y \in Nat : x < y => <<x, y>> \in less
  OBVIOUS
<1> HIDE DEF less
<1>3. PICK m \in R : \A k \in R : <<k, m>> \notin less
  BY <1>1, WFMin
<1>4. ASSUME NEW k \in R PROVE m <= k
  <2>1. k \in Nat /\ m \in Nat /\ ~(k < m)
    BY <1>2, <1>3
  <2> QED
    BY <2>1
<1> QED
  BY <1>3, <1>4

\* What the loop meets in n turns, from each object, by what it meets in one
\* turn less.
Turns(link, none, N, From) ==
  From = [n \in 0 .. N |->
            [i \in DOMAIN link \cup {none} |->
               IF n = 0 \/ i = none THEN <<>> ELSE <<i>> \o From[n - 1][link[i]]]]

\* The recursion of Linked defines a function.
LEMMA FromExists ==
  ASSUME NEW link, NEW none, NEW N \in Nat
  PROVE  \E From : Turns(link, none, N, From)
<1> DEFINE D == DOMAIN link \cup {none}
           Turn(n, g) == [i \in D |-> IF n = 0 \/ i = none THEN <<>> ELSE <<i>> \o g[link[i]]]
           Is(m, g) == g = [n \in 0 .. m |-> Turn(n, g[n - 1])]
           Bad == {m \in Nat : ~\E g : Is(m, g)}
<1> HIDE DEF D
<1>1. CASE Bad = {}
  <2>1. \E g : Is(N, g)
    BY <1>1
  <2> QED
    BY <2>1 DEF D, Turns
<1>2. CASE Bad # {}
  <2>1. PICK m \in Bad : \A k \in Bad : m <= k
    <3> HIDE DEF Bad
    <3>1. Bad \in SUBSET Nat
      BY DEF Bad
    <3> QED
      BY <1>2, <3>1, Least
  <2>2. m \in Nat /\ ~\E g : Is(m, g)
    BY <2>1
  <2>3. CASE m = 0
    <3> DEFINE f == [n \in 0 .. 0 |-> [i \in D |-> <<>>]]
    <3>1. Turn(0, f[0 - 1]) = [i \in D |-> <<>>]
      OBVIOUS
    <3> HIDE DEF Turn
    <3>2. \A n \in 0 .. 0 : f[n] = Turn(n, f[n - 1])
      BY <3>1
    <3>3. Is(0, f)
      BY <3>2
    <3> QED
      BY <2>2, <2>3, <3>3
  <2>4. CASE m # 0
    <3>1. m - 1 \in Nat /\ ~(m <= m - 1)
      BY <2>2, <2>4
    <3>2. m - 1 \notin Bad
      <4> HIDE DEF Bad
      <4> QED
        BY <2>1, <3>1
    <3>3. PICK g : Is(m - 1, g)
      BY <3>1, <3>2
    <3> DEFINE f == [n \in 0 .. m |-> IF n < m THEN g[n] ELSE Turn(m, g[m - 1])]
    <3>4. \A a, b : Turn(0, a) = Turn(0, b)
      OBVIOUS
    <3> HIDE DEF Turn
    <3>5. \A k \in 0 .. m - 1 : g[k] = Turn(k, g[k - 1])
      BY <3>3
    <3>6. ASSUME NEW n \in 0 .. m PROVE f[n] = Turn(n, f[n - 1])
      <4>1. CASE n = 0
        <5>1. f[n] = g[n]
          BY <2>2, <2>4, <4>1
        <5> QED
          BY <2>2, <2>4, <3>4, <3>5, <4>1, <5>1
      <4>2. CASE n \in 1 .. m - 1
        <5>1. f[n] = g[n] /\ f[n - 1] = g[n - 1]
          BY <2>2, <4>2
        <5> QED
          BY <2>2, <3>5, <4>2, <5>1
      <4>3. CASE n = m
        <5>1. f[m] = Turn(m, g[m - 1]) /\ f[m - 1] = g[m - 1]
          BY <2>2, <2>4
        <5> QED
          BY <4>3, <5>1
      <4> QED
        BY <2>2, <4>1, <4>2, <4>3
    <3>7. Is(m, f)
      BY <3>6
    <3> QED
      BY <2>2, <3>7
  <2> QED
    BY <2>3, <2>4
<1> QED
  BY <1>1, <1>2

\* Turn by turn, what a loop along the links meets.
LEMMA LinkedTurns ==
  ASSUME NEW link, NEW none, NEW first, IsFiniteSet(DOMAIN link)
  PROVE  \E From : /\ Turns(link, none, Cardinality(DOMAIN link), From)
                   /\ Linked(link, none, first) = From[Cardinality(DOMAIN link)][first]
<1> DEFINE L == CHOOSE From : Turns(link, none, Cardinality(DOMAIN link), From)
<1>1. Linked(link, none, first) = L[Cardinality(DOMAIN link)][first]
  BY DEF Linked, Turns
<1>2. Cardinality(DOMAIN link) \in Nat
  BY FS_CardinalityType
<1>3. \E From : Turns(link, none, Cardinality(DOMAIN link), From)
  BY <1>2, FromExists
<1>4. Turns(link, none, Cardinality(DOMAIN link), L)
  BY <1>3
<1> QED
  BY <1>1, <1>4

\* What is on a path is no more than there is.
LEMMA PathShort ==
  ASSUME NEW T, IsFiniteSet(T), NEW w \in Seq(T),
         \A j, k \in 1 .. Len(w) : w[j] = w[k] => j = k
  PROVE  Len(w) <= Cardinality(T)
<1> DEFINE L == Len(w)
<1>1. L \in Nat /\ w \in [1 .. L -> T]
  OBVIOUS
<1> HIDE DEF L
<1>2. w \in Injection(1 .. L, T)
  BY <1>1 DEF Injection, IsInjective, L
<1>3. IsFiniteSet(1 .. L) /\ Cardinality(1 .. L) = L
  BY <1>1, FS_Interval
<1>4. Cardinality(1 .. L) <= Cardinality(T)
  BY <1>2, <1>3, FS_Injection
<1> QED
  BY <1>3, <1>4 DEF L

\* The loop meets the objects of the path, in their order.
LEMMA LinkedIsPath ==
  ASSUME NEW T, IsFiniteSet(T), NEW none, none \notin T,
         NEW link, DOMAIN link = T, NEW first,
         NEW w \in Seq(T), Path(link, none, first, w)
  PROVE  Linked(link, none, first) = w
<1> DEFINE N == Cardinality(T)
           L == Len(w)
<1>1. PICK From : /\ Turns(link, none, N, From)
                  /\ Linked(link, none, first) = From[N][first]
  BY LinkedTurns
<1>2. N \in Nat /\ L \in Nat /\ L <= N
  BY FS_CardinalityType, PathShort DEF Path
<1>3. ASSUME NEW n \in 0 .. N
      PROVE  /\ From[n][none] = <<>>
             /\ \A i \in T : n > 0 => From[n][i] = <<i>> \o From[n - 1][link[i]]
  <2> HIDE DEF N
  <2>1. From[n] = [i \in T \cup {none} |->
                     IF n = 0 \/ i = none THEN <<>> ELSE <<i>> \o From[n - 1][link[i]]]
    BY <1>1 DEF Turns
  <2>2. From[n][none] = <<>>
    BY <2>1
  <2>3. ASSUME NEW i \in T, n > 0 PROVE From[n][i] = <<i>> \o From[n - 1][link[i]]
    <3>1. i # none /\ n # 0
      BY <2>3
    <3> QED
      BY <2>1, <3>1
  <2> QED
    BY <2>2, <2>3
<1> DEFINE Right(n) == \A k \in 1 .. L + 1 :
                         L + 1 - k <= n => From[n][Item(none, w, k)] = SubSeq(w, k, L)
           Bad == {n \in 0 .. N : ~Right(n)}
<1>4. Right(0)
  <2>1. Item(none, w, L + 1) = none /\ SubSeq(w, L + 1, L) = <<>>
    BY <1>2, SubSeqEmpty DEF Item
  <2>2. ASSUME NEW k \in 1 .. L + 1, L + 1 - k <= 0 PROVE k = L + 1
    BY <1>2, <2>2
  <2>3. From[0][none] = <<>>
    BY <1>2, <1>3
  <2> HIDE DEF L
  <2> QED
    BY <2>1, <2>2, <2>3
<1>5. ASSUME NEW n \in 1 .. N, Right(n - 1) PROVE Right(n)
  <2> SUFFICES ASSUME NEW k \in 1 .. L + 1, L + 1 - k <= n
               PROVE  From[n][Item(none, w, k)] = SubSeq(w, k, L)
    OBVIOUS
  <2>1. CASE k = L + 1
    <3>1. Item(none, w, L + 1) = none /\ SubSeq(w, L + 1, L) = <<>>
      BY <1>2, SubSeqEmpty DEF Item
    <3>2. n \in 0 .. N
      BY <1>2
    <3>3. From[n][none] = <<>>
      BY <1>3, <3>2
    <3> QED
      BY <2>1, <3>1, <3>3
  <2>2. CASE k # L + 1
    <3>1. k \in 1 .. L /\ k + 1 \in 1 .. L + 1 /\ L + 1 - (k + 1) <= n - 1
      BY <1>2, <2>2
    <3>2. Item(none, w, k) = w[k] /\ w[k] \in T /\ link[w[k]] = Item(none, w, k + 1)
      BY <1>2, <3>1 DEF Item, Path
    <3>3. From[n][w[k]] = <<w[k]>> \o From[n - 1][link[w[k]]]
      <4>1. n \in 0 .. N /\ n > 0
        BY <1>2
      <4> QED
        BY <1>3, <3>2, <4>1
    <3>4. From[n - 1][Item(none, w, k + 1)] = SubSeq(w, k + 1, L)
      BY <1>5, <3>1
    <3>5. SubSeq(w, k, L) = <<w[k]>> \o SubSeq(w, k + 1, L)
      BY <3>1, SubSeqRecursiveFirst
    <3> QED
      BY <3>2, <3>3, <3>4, <3>5
  <2> QED
    BY <2>1, <2>2
<1>6. Right(N)
  <2> HIDE DEF Right
  <2>1. SUFFICES ASSUME Bad # {} PROVE FALSE
    BY <1>2
  <2>2. PICK m \in Bad : \A k \in Bad : m <= k
    <3> HIDE DEF N
    <3>1. Bad \in SUBSET Nat
      BY <1>2
    <3> HIDE DEF Bad
    <3> QED
      BY <2>1, <3>1, Least
  <2>3. m \in 0 .. N /\ ~Right(m)
    OBVIOUS
  <2>4. m \in 1 .. N
    BY <1>2, <1>4, <2>3
  <2>5. m - 1 \in 0 .. N /\ ~(m <= m - 1)
    BY <1>2, <2>4
  <2>6. m - 1 \notin Bad
    <3> HIDE DEF Bad
    <3> QED
      BY <2>2, <2>5
  <2>7. Right(m - 1)
    BY <2>5, <2>6
  <2> QED
    BY <1>5, <2>3, <2>4, <2>7
<1>7. From[N][Item(none, w, 1)] = SubSeq(w, 1, L)
  <2>1. 1 \in 1 .. L + 1 /\ L + 1 - 1 <= N
    BY <1>2
  <2> QED
    BY <1>6, <2>1
<1>8. SubSeq(w, 1, L) = w
  BY SubSeqFull
<1> QED
  BY <1>1, <1>7, <1>8 DEF Path
-----------------------------------------------------------------------------
(***************************************************************************)
(* What becomes of a path.                                                 *)
(***************************************************************************)
\* An empty path leads nowhere, and only that one does.
LEMMA PathEmpty ==
  ASSUME NEW T, NEW none, none \notin T, NEW link, NEW first, NEW w \in Seq(T),
         Path(link, none, first, w)
  PROVE  /\ first = none <=> w = <<>>
         /\ first # none => first \in T /\ first = w[1] /\ Len(w) >= 1
<1>1. CASE w = <<>>
  BY <1>1 DEF Path, Item
<1>2. CASE w # <<>>
  <2>1. Len(w) >= 1 /\ w[1] \in T
    BY <1>2
  <2> QED
    BY <1>2, <2>1 DEF Path, Item
<1> QED
  BY <1>1, <1>2

\* The path stays when the links on it do.
LEMMA PathSame ==
  ASSUME NEW T, NEW none, NEW link, NEW first, NEW w \in Seq(T),
         Path(link, none, first, w),
         NEW other, \A k \in 1 .. Len(w) : other[w[k]] = link[w[k]]
  PROVE  Path(other, none, first, w)
  BY DEF Path

\* Behind the first object the path is the rest of it.
LEMMA PathTail ==
  ASSUME NEW T, NEW none, NEW link, NEW first, NEW w \in Seq(T), w # <<>>,
         Path(link, none, first, w)
  PROVE  /\ first = Head(w) /\ first \in T
         /\ Path(link, none, link[first], Tail(w))
         /\ \A k \in 1 .. Len(Tail(w)) : Tail(w)[k] # first
<1> DEFINE v == Tail(w)
<1>1. PICK n \in Nat \ {0} : n = Len(w)
  OBVIOUS
<1>2. v \in Seq(T) /\ Len(v) = n - 1 /\ \A k \in 1 .. n - 1 : v[k] = w[k + 1]
  BY <1>1, HeadTailProperties
<1>3. first = w[1] /\ first = Head(w) /\ first \in T
  BY <1>1 DEF Path, Item
<1> HIDE DEF v
<1>4. ASSUME NEW k \in Nat \ {0} PROVE Item(none, v, k) = Item(none, w, k + 1)
  <2>1. k > n - 1 <=> k + 1 > n
    BY <1>1
  <2>2. k <= n - 1 => k \in 1 .. n - 1
    BY <1>1
  <2> QED
    BY <1>1, <1>2, <2>1, <2>2 DEF Item
<1>5. link[first] = Item(none, v, 1)
  <2>1. link[w[1]] = Item(none, w, 1 + 1)
    BY <1>1 DEF Path
  <2>2. 1 \in Nat \ {0}
    OBVIOUS
  <2>3. Item(none, v, 1) = Item(none, w, 1 + 1)
    BY <1>4, <2>2
  <2> QED
    BY <1>3, <2>1, <2>3
<1>6. ASSUME NEW k \in 1 .. Len(v) PROVE link[v[k]] = Item(none, v, k + 1)
  <2>1. k + 1 \in 1 .. Len(w) /\ k \in 1 .. n - 1
    BY <1>1, <1>2
  <2>2. link[w[k + 1]] = Item(none, w, (k + 1) + 1)
    BY <2>1 DEF Path
  <2>3. Item(none, v, k + 1) = Item(none, w, (k + 1) + 1)
    BY <1>4, <2>1
  <2> QED
    BY <1>2, <2>1, <2>2, <2>3
<1>7. ASSUME NEW j \in 1 .. Len(v), NEW k \in 1 .. Len(v), v[j] = v[k] PROVE j = k
  <2>1. j + 1 \in 1 .. Len(w) /\ k + 1 \in 1 .. Len(w) /\ j \in 1 .. n - 1 /\ k \in 1 .. n - 1
    BY <1>1, <1>2
  <2>2. w[j + 1] = w[k + 1]
    BY <1>2, <1>7, <2>1
  <2>3. j + 1 = k + 1
    BY <2>1, <2>2 DEF Path
  <2> QED
    BY <2>1, <2>3
<1>8. ASSUME NEW k \in 1 .. Len(v) PROVE v[k] # first
  <2>1. k + 1 \in 1 .. Len(w) /\ k \in 1 .. n - 1 /\ 1 \in 1 .. Len(w) /\ k + 1 # 1
    BY <1>1, <1>2
  <2>2. w[k + 1] # w[1]
    BY <2>1 DEF Path
  <2> QED
    BY <1>2, <1>3, <2>1, <2>2
<1> QED
  BY <1>3, <1>5, <1>6, <1>7, <1>8 DEF Path, v

\* An object that is on no path is put at the end.
LEMMA PathAppend ==
  ASSUME NEW T, NEW none, none \notin T, NEW link \in [T -> T \cup {none}], NEW first,
         NEW w \in Seq(T), w # <<>>, Path(link, none, first, w),
         NEW i \in T, \A k \in 1 .. Len(w) : w[k] # i, link[i] = none
  PROVE  /\ w[Len(w)] \in T
         /\ Path([link EXCEPT ![w[Len(w)]] = i], none, first, Append(w, i))
<1> DEFINE v == Append(w, i)
           other == [link EXCEPT ![w[Len(w)]] = i]
<1>1. PICK n \in Nat \ {0} : n = Len(w)
  OBVIOUS
<1>2. /\ v \in Seq(T) /\ Len(v) = n + 1 /\ v[n + 1] = i
      /\ \A k \in 1 .. n : v[k] = w[k]
  BY <1>1
<1>3. w[n] \in T /\ other[w[n]] = i /\ \A t \in T : t # w[n] => other[t] = link[t]
  BY <1>1
<1> HIDE DEF v, other
<1>4. first = Item(none, v, 1)
  BY <1>1, <1>2 DEF Path, Item
<1>5. ASSUME NEW k \in 1 .. n + 1 PROVE other[v[k]] = Item(none, v, k + 1)
  <2>1. CASE k = n + 1
    BY <1>1, <1>2, <1>3, <2>1 DEF Item
  <2>2. CASE k = n
    BY <1>1, <1>2, <1>3, <2>2 DEF Item
  <2>3. CASE k \in 1 .. n - 1
    <3>1. k \in 1 .. n /\ k + 1 \in 1 .. n /\ n \in 1 .. n /\ k # n
      BY <1>1, <2>3
    <3>2. w[k] \in T /\ w[k] # w[n] /\ link[w[k]] = Item(none, w, k + 1)
      BY <1>1, <3>1 DEF Path
    <3>3. Item(none, w, k + 1) = w[k + 1] /\ Item(none, v, k + 1) = v[k + 1]
      BY <1>1, <1>2, <3>1 DEF Item
    <3> QED
      BY <1>2, <1>3, <3>1, <3>2, <3>3
  <2> QED
    BY <1>1, <2>1, <2>2, <2>3
<1>6. ASSUME NEW j \in 1 .. n + 1, NEW k \in 1 .. n + 1, v[j] = v[k] PROVE j = k
  <2>1. j \in 1 .. n \/ j = n + 1
    BY <1>1
  <2>2. k \in 1 .. n \/ k = n + 1
    BY <1>1
  <2> QED
    BY <1>1, <1>2, <1>6, <2>1, <2>2 DEF Path
<1>7. Path(other, none, first, v)
  BY <1>2, <1>4, <1>5, <1>6 DEF Path
<1> QED
  BY <1>1, <1>3, <1>7 DEF v, other
-----------------------------------------------------------------------------
(***************************************************************************)
(* Rings: the links lead from each object to the next, and from the last   *)
(* one to the first.                                                       *)
(***************************************************************************)
Ringed(link, w) ==
  /\ \A k \in 1 .. Len(w) : link[w[k]] = w[IF k = Len(w) THEN 1 ELSE k + 1]
  /\ \A j, k \in 1 .. Len(w) : w[j] = w[k] => j = k

\* A function on the first numbers is a sequence.
LEMMA SeqOf ==
  ASSUME NEW T, NEW n \in Nat, NEW f \in [1 .. n -> T]
  PROVE  f \in Seq(T) /\ Len(f) = n
  OBVIOUS

\* v is w with its m-th object as the last one.
Rotation(w, m, v) ==
  /\ Len(v) = Len(w) /\ v[Len(v)] = w[m]
  /\ \A k \in 1 .. Len(w) : v[k] = w[IF m + k <= Len(w) THEN m + k ELSE m + k - Len(w)]
  /\ \A t : (\E k \in 1 .. Len(v) : v[k] = t) <=> (\E k \in 1 .. Len(w) : w[k] = t)

\* v is w without its m-th object.
Without(w, m, v) ==
  /\ Len(v) = Len(w) - 1
  /\ \A k \in 1 .. Len(w) - 1 : v[k] = w[IF k < m THEN k ELSE k + 1]
  /\ \A t : (\E k \in 1 .. Len(v) : v[k] = t)
              <=> t # w[m] /\ (\E k \in 1 .. Len(w) : w[k] = t)

\* The object of a ring before its m-th one.
Before(w, m) == w[IF m = 1 THEN Len(w) ELSE m - 1]

\* A ring may be entered anywhere: with any of its objects as the last.
LEMMA RingRotated ==
  ASSUME NEW T, NEW link, NEW w \in Seq(T), Ringed(link, w), NEW m \in 1 .. Len(w)
  PROVE  \E v \in Seq(T) : Ringed(link, v) /\ Rotation(w, m, v)
<1>1. PICK n \in Nat \ {0} : n = Len(w)
  OBVIOUS
<1> DEFINE at(k) == IF m + k <= n THEN m + k ELSE m + k - n
           v == [k \in 1 .. n |-> w[at(k)]]
<1>2. ASSUME NEW k \in 1 .. n PROVE at(k) \in 1 .. n /\ w[at(k)] \in T
  <2>1. at(k) \in 1 .. n
    BY <1>1
  <2> QED
    BY <1>1, <2>1
<1>3. v \in Seq(T) /\ Len(v) = n
  <2> HIDE DEF at
  <2>1. v \in [1 .. n -> T]
    BY <1>2
  <2> QED
    BY <2>1, SeqOf
<1>4. \A k \in 1 .. n : v[k] = w[at(k)]
  OBVIOUS
<1> HIDE DEF v
<1>5. v[n] = w[m]
  <2>1. at(n) = m /\ n \in 1 .. n
    BY <1>1
  <2> QED
    BY <1>4, <2>1
<1>6. ASSUME NEW k \in 1 .. n PROVE link[v[k]] = v[IF k = n THEN 1 ELSE k + 1]
  <2> DEFINE nxt == IF k = n THEN 1 ELSE k + 1
  <2>1. nxt \in 1 .. n /\ at(nxt) = IF at(k) = n THEN 1 ELSE at(k) + 1
    BY <1>1
  <2>2. at(k) \in 1 .. Len(w)
    BY <1>1, <1>2
  <2> HIDE DEF at, nxt
  <2>3. link[w[at(k)]] = w[IF at(k) = n THEN 1 ELSE at(k) + 1]
    BY <1>1, <2>2 DEF Ringed
  <2>4. link[v[k]] = v[nxt]
    BY <1>4, <2>1, <2>3
  <2> QED
    BY <2>4 DEF nxt
<1>7. ASSUME NEW j \in 1 .. n, NEW k \in 1 .. n, v[j] = v[k] PROVE j = k
  <2>1. w[at(j)] = w[at(k)]
    BY <1>4, <1>7
  <2>2. at(j) = at(k)
    <3> HIDE DEF at
    <3> QED
      BY <1>1, <1>2, <2>1 DEF Ringed
  <2> QED
    BY <1>1, <2>2
<1>8. ASSUME NEW t
      PROVE  (\E k \in 1 .. n : v[k] = t) <=> (\E k \in 1 .. n : w[k] = t)
  <2>1. ASSUME NEW k \in 1 .. n, w[k] = t PROVE \E j \in 1 .. n : v[j] = t
    <3> DEFINE j == IF k > m THEN k - m ELSE k + n - m
    <3>1. j \in 1 .. n /\ at(j) = k
      BY <1>1
    <3>2. v[j] = t
      <4> HIDE DEF at, j
      <4> QED
        BY <1>4, <2>1, <3>1
    <3> QED
      BY <3>1, <3>2
  <2>2. ASSUME NEW k \in 1 .. n, v[k] = t PROVE \E j \in 1 .. n : w[j] = t
    <3> HIDE DEF at
    <3> QED
      BY <1>2, <1>4, <2>2
  <2> QED
    BY <2>1, <2>2
<1> HIDE DEF at
<1>9. Ringed(link, v)
  BY <1>3, <1>6, <1>7 DEF Ringed
<1>10. \A k \in 1 .. Len(w) : v[k] = w[IF m + k <= Len(w) THEN m + k ELSE m + k - Len(w)]
  BY <1>1, <1>4 DEF at
<1>11. Rotation(w, m, v)
  BY <1>1, <1>3, <1>5, <1>8, <1>10 DEF Rotation
<1> QED
  BY <1>3, <1>9, <1>11

\* An object put behind the last one is the last one.
LEMMA RingAppend ==
  ASSUME NEW T, NEW none, NEW link \in [T -> T \cup {none}],
         NEW w \in Seq(T), w # <<>>, Ringed(link, w),
         NEW t \in T, \A k \in 1 .. Len(w) : w[k] # t
  PROVE  Ringed([link EXCEPT ![t] = link[w[Len(w)]], ![w[Len(w)]] = t], Append(w, t))
<1> DEFINE v == Append(w, t)
           other == [link EXCEPT ![t] = link[w[Len(w)]], ![w[Len(w)]] = t]
<1>1. PICK n \in Nat \ {0} : n = Len(w)
  OBVIOUS
<1>2. /\ v \in Seq(T) /\ Len(v) = n + 1 /\ v[n + 1] = t
      /\ \A k \in 1 .. n : v[k] = w[k]
  BY <1>1
<1>3. n \in 1 .. Len(w) /\ w[n] \in T /\ w[n] # t
  BY <1>1
<1>4. /\ other[w[n]] = t /\ other[t] = link[w[n]]
      /\ \A x \in T : x # w[n] /\ x # t => other[x] = link[x]
  BY <1>1, <1>3
<1> HIDE DEF v, other
<1>5. ASSUME NEW k \in 1 .. n + 1 PROVE other[v[k]] = v[IF k = n + 1 THEN 1 ELSE k + 1]
  <2>1. CASE k = n + 1
    <3>1. link[w[n]] = w[1]
      BY <1>1, <1>3 DEF Ringed
    <3> QED
      BY <1>1, <1>2, <1>4, <2>1, <3>1
  <2>2. CASE k = n
    BY <1>1, <1>2, <1>4, <2>2
  <2>3. CASE k \in 1 .. n - 1
    <3>1. k \in 1 .. n /\ k + 1 \in 1 .. n /\ k # n /\ k # n + 1
      BY <1>1, <2>3
    <3>2. w[k] \in T /\ w[k] # w[n] /\ w[k] # t /\ link[w[k]] = w[k + 1]
      BY <1>1, <1>3, <3>1 DEF Ringed
    <3> QED
      BY <1>2, <1>4, <3>1, <3>2
  <2> QED
    BY <1>1, <2>1, <2>2, <2>3
<1>6. ASSUME NEW j \in 1 .. n + 1, NEW k \in 1 .. n + 1, v[j] = v[k] PROVE j = k
  <2>1. j \in 1 .. n \/ j = n + 1
    BY <1>1
  <2>2. k \in 1 .. n \/ k = n + 1
    BY <1>1
  <2> QED
    BY <1>1, <1>2, <1>6, <2>1, <2>2 DEF Ringed
<1>7. Ringed(other, v)
  BY <1>2, <1>5, <1>6 DEF Ringed
<1> QED
  BY <1>1, <1>7 DEF v, other

\* There is one object before each of a ring.
LEMMA RingBefore ==
  ASSUME NEW T, NEW link, NEW w \in Seq(T), Ringed(link, w),
         NEW m \in 1 .. Len(w), NEW j \in 1 .. Len(w), link[w[j]] = w[m]
  PROVE  j = IF m = 1 THEN Len(w) ELSE m - 1
<1>1. PICK n \in Nat \ {0} : n = Len(w)
  OBVIOUS
<1> DEFINE nxt == IF j = n THEN 1 ELSE j + 1
<1>2. nxt \in 1 .. Len(w)
  BY <1>1
<1>3. w[nxt] = w[m]
  BY <1>1 DEF Ringed
<1> HIDE DEF nxt
<1>4. nxt = m
  BY <1>2, <1>3 DEF Ringed
<1> QED
  BY <1>1, <1>4 DEF nxt

\* An object is taken off when the one before it links to the one behind it.
LEMMA RingRemoved ==
  ASSUME NEW T, NEW none, NEW link \in [T -> T \cup {none}],
         NEW w \in Seq(T), Ringed(link, w), NEW m \in 1 .. Len(w) - 1
  PROVE  \E v \in Seq(T) : /\ Ringed([link EXCEPT ![Before(w, m)] = link[w[m]]], v)
                           /\ Without(w, m, v)
<1> DEFINE prev == Before(w, m)
<1>1. PICK n \in Nat \ {0} : n = Len(w)
  OBVIOUS
<1> DEFINE at(k) == IF k < m THEN k ELSE k + 1
           v == [k \in 1 .. n - 1 |-> w[at(k)]]
           b == IF m = 1 THEN n ELSE m - 1
           other == [link EXCEPT ![prev] = link[w[m]]]
<1>2. ASSUME NEW k \in 1 .. n - 1 PROVE at(k) \in 1 .. n /\ at(k) # m /\ w[at(k)] \in T
  <2>1. at(k) \in 1 .. n /\ at(k) # m
    BY <1>1
  <2> QED
    BY <1>1, <2>1
<1>3. v \in Seq(T) /\ Len(v) = n - 1
  <2> HIDE DEF at
  <2>1. v \in [1 .. n - 1 -> T] /\ n - 1 \in Nat
    BY <1>1, <1>2
  <2> QED
    BY <2>1, SeqOf
<1>4. \A k \in 1 .. n - 1 : v[k] = w[at(k)]
  OBVIOUS
<1>5. b \in 1 .. n /\ prev = w[b] /\ prev \in T /\ m \in 1 .. n /\ b # m
  BY <1>1 DEF Before
<1>6. other[prev] = link[w[m]] /\ \A x \in T : x # prev => other[x] = link[x]
  BY <1>5
<1> HIDE DEF v, other, prev
<1>7. link[w[m]] = w[m + 1]
  BY <1>1, <1>5 DEF Ringed
<1>8. ASSUME NEW k \in 1 .. n - 1 PROVE other[v[k]] = v[IF k = n - 1 THEN 1 ELSE k + 1]
  <2> DEFINE nxt == IF k = n - 1 THEN 1 ELSE k + 1
  <2>1. nxt \in 1 .. n - 1
    BY <1>1
  <2>2. CASE at(k) = b
    <3>1. at(nxt) = m + 1
      BY <1>1, <2>2
    <3> HIDE DEF at, b, nxt
    <3>2. other[v[k]] = v[nxt]
      BY <1>4, <1>5, <1>6, <1>7, <2>1, <2>2, <3>1
    <3> QED
      BY <3>2 DEF nxt
  <2>3. CASE at(k) # b
    <3>1. at(nxt) = IF at(k) = n THEN 1 ELSE at(k) + 1
      BY <1>1, <2>3
    <3> HIDE DEF at, b, nxt
    <3>2. w[at(k)] # prev /\ w[at(k)] \in T
      BY <1>1, <1>2, <1>5, <2>3 DEF Ringed
    <3>3. link[w[at(k)]] = w[IF at(k) = n THEN 1 ELSE at(k) + 1]
      BY <1>1, <1>2 DEF Ringed
    <3>4. other[v[k]] = v[nxt]
      BY <1>4, <1>6, <2>1, <3>1, <3>2, <3>3
    <3> QED
      BY <3>4 DEF nxt
  <2> QED
    BY <2>2, <2>3
<1>9. ASSUME NEW j \in 1 .. n - 1, NEW k \in 1 .. n - 1, v[j] = v[k] PROVE j = k
  <2>1. w[at(j)] = w[at(k)]
    BY <1>4, <1>9
  <2>2. at(j) = at(k)
    <3> HIDE DEF at
    <3> QED
      BY <1>1, <1>2, <2>1 DEF Ringed
  <2> QED
    BY <1>1, <2>2
<1>10. ASSUME NEW t
       PROVE  (\E k \in 1 .. n - 1 : v[k] = t) <=> t # w[m] /\ (\E k \in 1 .. n : w[k] = t)
  <2>1. ASSUME NEW k \in 1 .. n, w[k] = t, t # w[m] PROVE \E j \in 1 .. n - 1 : v[j] = t
    <3> DEFINE j == IF k < m THEN k ELSE k - 1
    <3>1. k # m
      BY <2>1
    <3>2. j \in 1 .. n - 1 /\ at(j) = k
      BY <1>1, <3>1
    <3>3. v[j] = t
      <4> HIDE DEF at, j
      <4> QED
        BY <1>4, <2>1, <3>2
    <3> QED
      BY <3>2, <3>3
  <2>2. ASSUME NEW k \in 1 .. n - 1, v[k] = t PROVE t # w[m] /\ \E j \in 1 .. n : w[j] = t
    <3> HIDE DEF at
    <3>1. at(k) \in 1 .. n /\ at(k) # m /\ w[at(k)] = t
      BY <1>2, <1>4, <2>2
    <3>2. w[at(k)] # w[m]
      BY <1>1, <1>5, <3>1 DEF Ringed
    <3> QED
      BY <3>1, <3>2
  <2> QED
    BY <2>1, <2>2
<1>11. Ringed(other, v)
  BY <1>3, <1>8, <1>9 DEF Ringed
<1>12. \A k \in 1 .. Len(w) - 1 : v[k] = w[IF k < m THEN k ELSE k + 1]
  BY <1>1, <1>4
<1> HIDE DEF at
<1>13. Without(w, m, v)
  BY <1>1, <1>3, <1>10, <1>12 DEF Without
<1>14. Ringed([link EXCEPT ![Before(w, m)] = link[w[m]]], v)
  BY <1>11 DEF other, prev
<1> QED
  BY <1>3, <1>13, <1>14
-----------------------------------------------------------------------------
(***************************************************************************)
(* An object is put into a path, or taken out of it, anywhere.             *)
(***************************************************************************)
\* v is w with i behind its k-th object.
With(w, k, i, v) ==
  /\ Len(v) = Len(w) + 1
  /\ \A j \in 1 .. Len(w) + 1 : v[j] = IF j <= k THEN w[j] ELSE IF j = k + 1 THEN i ELSE w[j - 1]
  /\ \A t : (\E j \in 1 .. Len(v) : v[j] = t) <=> t = i \/ (\E j \in 1 .. Len(w) : w[j] = t)

\* The object before gets the new one as its link, or the new one is the first.
PutsIn(link, none, first, w, k, i, other, head) ==
  /\ other[i] = Item(none, w, k + 1)
  /\ \A j \in 1 .. Len(w) : other[w[j]] = IF j = k THEN i ELSE link[w[j]]
  /\ head = IF k = 0 THEN i ELSE first

\* After those stores the path is the one with the new object.
LEMMA PathWith ==
  ASSUME NEW T, NEW none, NEW link, NEW first, NEW w \in Seq(T), Path(link, none, first, w),
         NEW k \in 0 .. Len(w), NEW i \in T, \A j \in 1 .. Len(w) : w[j] # i,
         NEW other, NEW head, PutsIn(link, none, first, w, k, i, other, head)
  PROVE  \E v \in Seq(T) : With(w, k, i, v) /\ Path(other, none, head, v)
<1>0. /\ other[i] = Item(none, w, k + 1)
      /\ \A j \in 1 .. Len(w) : other[w[j]] = IF j = k THEN i ELSE link[w[j]]
      /\ head = IF k = 0 THEN i ELSE first
  BY DEF PutsIn
<1> USE <1>0
<1>1. PICK n \in Nat : n = Len(w)
  OBVIOUS
<1> DEFINE v == [j \in 1 .. n + 1 |->
                   IF j <= k THEN w[j] ELSE IF j = k + 1 THEN i ELSE w[j - 1]]
<1>2. v \in Seq(T) /\ Len(v) = n + 1
  <2>1. ASSUME NEW j \in 1 .. n + 1
        PROVE  (IF j <= k THEN w[j] ELSE IF j = k + 1 THEN i ELSE w[j - 1]) \in T
    BY <1>1
  <2>2. v \in [1 .. n + 1 -> T] /\ n + 1 \in Nat
    BY <1>1, <2>1
  <2> HIDE DEF v
  <2> QED
    BY <2>2, SeqOf
<1>3. /\ \A j \in 1 .. k : v[j] = w[j]
      /\ v[k + 1] = i
      /\ \A j \in k + 1 .. n : v[j + 1] = w[j]
  BY <1>1
<1>4. \A j \in 1 .. n + 1 : v[j] = IF j <= k THEN w[j] ELSE IF j = k + 1 THEN i ELSE w[j - 1]
  BY <1>1
<1> HIDE DEF v
<1>5. \A t : (\E j \in 1 .. n + 1 : v[j] = t) <=> t = i \/ (\E j \in 1 .. n : w[j] = t)
  <2>1. ASSUME NEW j \in 1 .. n + 1 PROVE v[j] = i \/ \E l \in 1 .. n : w[l] = v[j]
    <3>1. j \in 1 .. k \/ j = k + 1 \/ (j - 1 \in k + 1 .. n /\ (j - 1) + 1 = j)
      BY <1>1
    <3>2. CASE j \in 1 .. k
      <4>1. j \in 1 .. n
        BY <1>1, <3>2
      <4> QED
        BY <1>3, <3>2, <4>1
    <3>3. CASE j - 1 \in k + 1 .. n /\ (j - 1) + 1 = j
      <4>1. j - 1 \in 1 .. n
        BY <1>1, <3>3
      <4>2. v[(j - 1) + 1] = w[j - 1]
        BY <1>3, <3>3
      <4> QED
        BY <3>3, <4>1, <4>2
    <3> QED
      BY <1>3, <3>1, <3>2, <3>3
  <2>2. ASSUME NEW l \in 1 .. n PROVE \E j \in 1 .. n + 1 : v[j] = w[l]
    <3>1. l \in 1 .. k \/ l \in k + 1 .. n
      BY <1>1
    <3>2. l \in 1 .. n + 1 /\ l + 1 \in 1 .. n + 1
      BY <1>1
    <3> QED
      BY <1>3, <3>1, <3>2
  <2>3. \E j \in 1 .. n + 1 : v[j] = i
    BY <1>1, <1>3
  <2> TAKE t
  <2>4. ASSUME NEW j \in 1 .. n + 1, v[j] = t PROVE t = i \/ \E l \in 1 .. n : w[l] = t
    BY <2>1, <2>4
  <2>5. ASSUME t = i \/ \E l \in 1 .. n : w[l] = t PROVE \E j \in 1 .. n + 1 : v[j] = t
    BY <2>2, <2>3, <2>5
  <2> QED
    BY <2>4, <2>5
<1>6. With(w, k, i, v)
  BY <1>1, <1>2, <1>4, <1>5 DEF With
<1>7. head = Item(none, v, 1)
  <2>1. Item(none, v, 1) = v[1]
    BY <1>1, <1>2 DEF Item
  <2>2. CASE k = 0
    BY <1>3, <2>1, <2>2
  <2>3. CASE k # 0
    <3>1. 1 \in 1 .. k /\ ~(1 > Len(w))
      BY <1>1, <2>3
    <3>2. first = w[1]
      BY <3>1 DEF Path, Item
    <3> QED
      BY <1>3, <2>1, <2>3, <3>1, <3>2
  <2> QED
    BY <2>2, <2>3
<1>8. ASSUME NEW j \in 1 .. n + 1 PROVE other[v[j]] = Item(none, v, j + 1)
  <2>1. CASE j < k
    <3>1. j \in 1 .. k /\ j + 1 \in 1 .. k /\ j \in 1 .. Len(w) /\ ~(j + 1 > Len(w))
          /\ ~(j + 1 > n + 1) /\ j # k
      BY <1>1, <2>1
    <3>2. other[w[j]] = w[j + 1]
      BY <3>1 DEF Path, Item
    <3> QED
      BY <1>2, <1>3, <3>1, <3>2 DEF Item
  <2>2. CASE j = k
    <3>1. j \in 1 .. k /\ j \in 1 .. Len(w) /\ ~(j + 1 > n + 1)
      BY <1>1, <2>2
    <3> QED
      BY <1>2, <1>3, <2>2, <3>1 DEF Item
  <2>3. CASE j = k + 1
    <3>1. Item(none, v, k + 2) = Item(none, w, k + 1)
      <4>1. CASE k = n
        BY <1>1, <1>2, <4>1 DEF Item
      <4>2. CASE k # n
        <5>1. k + 1 \in k + 1 .. n /\ ~(k + 1 > n) /\ ~(k + 2 > n + 1) /\ (k + 1) + 1 = k + 2
          BY <1>1, <4>2
        <5> QED
          BY <1>1, <1>2, <1>3, <5>1 DEF Item
      <4> QED
        BY <4>1, <4>2
    <3>2. j + 1 = k + 2
      BY <2>3
    <3> QED
      BY <1>3, <2>3, <3>1, <3>2
  <2>4. CASE j > k + 1
    <3>1. PICK l \in 1 .. n : l = j - 1
      BY <1>1, <2>4
    <3>2. l \in k + 1 .. n /\ l + 1 = j /\ l # k /\ l \in 1 .. Len(w)
      BY <1>1, <2>4, <3>1
    <3>3. v[j] = w[l] /\ other[w[l]] = Item(none, w, j)
      BY <1>3, <3>2 DEF Path
    <3>4. Item(none, w, j) = Item(none, v, j + 1)
      <4>1. CASE j > n
        BY <1>1, <1>2, <4>1 DEF Item
      <4>2. CASE ~(j > n)
        <5>1. j \in k + 1 .. n /\ ~(j + 1 > n + 1)
          BY <1>1, <2>4, <4>2
        <5> QED
          BY <1>1, <1>2, <1>3, <4>2, <5>1 DEF Item
      <4> QED
        BY <4>1, <4>2
    <3> QED
      BY <3>3, <3>4
  <2> QED
    BY <1>1, <2>1, <2>2, <2>3, <2>4
<1>9. ASSUME NEW j \in 1 .. n + 1, NEW l \in 1 .. n + 1, v[j] = v[l] PROVE j = l
  <2> DEFINE old(m) == IF m <= k THEN m ELSE m - 1
  <2>1. \A m \in 1 .. n + 1 : m # k + 1 => v[m] = w[old(m)] /\ old(m) \in 1 .. n
    BY <1>1, <1>4
  <2>2. CASE j = k + 1 \/ l = k + 1
    <3> HIDE DEF old
    <3> QED
      BY <1>1, <1>3, <1>9, <2>1, <2>2
  <2>3. CASE j # k + 1 /\ l # k + 1
    <3>1. old(j) = old(l)
      <4> HIDE DEF old
      <4> QED
        BY <1>1, <1>9, <2>1, <2>3 DEF Path
    <3> QED
      BY <1>1, <2>3, <3>1
  <2> QED
    BY <2>2, <2>3
<1>10. Path(other, none, head, v)
  BY <1>2, <1>7, <1>8, <1>9 DEF Path
<1> QED
  BY <1>2, <1>6, <1>10

\* The object before gets the link of the one taken out, or that is the first.
TakesOut(link, first, w, m, other, head) ==
  /\ \A j \in 1 .. Len(w) :
       j # m => other[w[j]] = IF j + 1 = m THEN link[w[m]] ELSE link[w[j]]
  /\ head = IF m = 1 THEN link[w[m]] ELSE first

\* After those stores the path is the one without the object.
LEMMA PathWithout ==
  ASSUME NEW T, NEW none, NEW link, NEW first, NEW w \in Seq(T), Path(link, none, first, w),
         NEW m \in 1 .. Len(w),
         NEW other, NEW head, TakesOut(link, first, w, m, other, head)
  PROVE  \E v \in Seq(T) : Without(w, m, v) /\ Path(other, none, head, v)
<1>0. /\ \A j \in 1 .. Len(w) :
           j # m => other[w[j]] = IF j + 1 = m THEN link[w[m]] ELSE link[w[j]]
      /\ head = IF m = 1 THEN link[w[m]] ELSE first
  BY DEF TakesOut
<1> USE <1>0
<1>1. PICK n \in Nat \ {0} : n = Len(w)
  OBVIOUS
<1> DEFINE old(k) == IF k < m THEN k ELSE k + 1
           v == [k \in 1 .. n - 1 |-> w[old(k)]]
<1>2. ASSUME NEW k \in 1 .. n - 1 PROVE old(k) \in 1 .. n /\ old(k) # m /\ w[old(k)] \in T
  <2>1. old(k) \in 1 .. n /\ old(k) # m
    BY <1>1
  <2> QED
    BY <1>1, <2>1
<1>3. v \in Seq(T) /\ Len(v) = n - 1
  <2> HIDE DEF old
  <2>1. v \in [1 .. n - 1 -> T] /\ n - 1 \in Nat
    BY <1>1, <1>2
  <2> QED
    BY <2>1, SeqOf
<1>4. \A k \in 1 .. n - 1 : v[k] = w[old(k)]
  OBVIOUS
<1> HIDE DEF v
<1>5. link[w[m]] = Item(none, w, m + 1)
  BY DEF Path
<1>6. Item(none, w, m + 1) = Item(none, v, m)
  <2>1. CASE m = n
    BY <1>1, <1>3, <2>1 DEF Item
  <2>2. CASE m # n
    <3>1. m \in 1 .. n - 1 /\ old(m) = m + 1 /\ ~(m + 1 > n) /\ ~(m > n - 1)
      BY <1>1, <2>2
    <3> HIDE DEF old
    <3> QED
      BY <1>1, <1>3, <1>4, <3>1 DEF Item
  <2> QED
    BY <2>1, <2>2
<1>7. head = Item(none, v, 1)
  <2>1. CASE m = 1
    BY <1>5, <1>6, <2>1
  <2>2. CASE m # 1
    <3>1. 1 \in 1 .. n - 1 /\ old(1) = 1 /\ ~(1 > n) /\ ~(1 > n - 1)
      BY <1>1, <2>2
    <3> HIDE DEF old
    <3>2. v[1] = w[1]
      BY <1>4, <3>1
    <3>3. Item(none, v, 1) = v[1] /\ Item(none, w, 1) = w[1]
      BY <1>1, <1>3, <3>1 DEF Item
    <3>4. first = Item(none, w, 1)
      BY DEF Path
    <3> QED
      BY <2>2, <3>2, <3>3, <3>4
  <2> QED
    BY <2>1, <2>2
<1>8. ASSUME NEW k \in 1 .. n - 1 PROVE other[v[k]] = Item(none, v, k + 1)
  <2>1. CASE k + 1 < m
    <3>1. /\ old(k) = k /\ k \in 1 .. Len(w) /\ k # m /\ k + 1 # m
          /\ k + 1 \in 1 .. n - 1 /\ old(k + 1) = k + 1 /\ ~(k + 1 > n - 1) /\ ~(k + 1 > n)
      BY <1>1, <2>1
    <3> HIDE DEF old
    <3>2. other[w[k]] = w[k + 1]
      BY <1>1, <3>1 DEF Path, Item
    <3> QED
      BY <1>3, <1>4, <3>1, <3>2 DEF Item
  <2>2. CASE k + 1 = m
    <3>1. old(k) = k /\ k \in 1 .. Len(w) /\ k # m
      BY <1>1, <2>2
    <3> HIDE DEF old
    <3>2. other[w[k]] = link[w[m]]
      BY <2>2, <3>1
    <3> QED
      BY <1>4, <1>5, <1>6, <2>2, <3>1, <3>2
  <2>3. CASE k + 1 > m
    <3>1. old(k) = k + 1 /\ k + 1 \in 1 .. Len(w) /\ k + 1 # m /\ (k + 1) + 1 # m
      BY <1>1, <2>3
    <3>2. Item(none, w, (k + 1) + 1) = Item(none, v, k + 1)
      <4>1. CASE k = n - 1
        BY <1>1, <1>3, <4>1 DEF Item
      <4>2. CASE k # n - 1
        <5>1. /\ k + 1 \in 1 .. n - 1 /\ old(k + 1) = (k + 1) + 1
              /\ ~((k + 1) + 1 > n) /\ ~(k + 1 > n - 1)
          BY <1>1, <2>3, <4>2
        <5> HIDE DEF old
        <5> QED
          BY <1>1, <1>3, <1>4, <5>1 DEF Item
      <4> QED
        BY <4>1, <4>2
    <3> HIDE DEF old
    <3>3. other[w[k + 1]] = Item(none, w, (k + 1) + 1)
      BY <3>1 DEF Path
    <3> QED
      BY <1>4, <3>1, <3>2, <3>3
  <2> QED
    BY <1>1, <2>1, <2>2, <2>3
<1>9. ASSUME NEW j \in 1 .. n - 1, NEW k \in 1 .. n - 1, v[j] = v[k] PROVE j = k
  <2>1. old(j) = old(k)
    <3> HIDE DEF old
    <3>1. \A i, l \in 1 .. n : w[i] = w[l] => i = l
      BY <1>1 DEF Path
    <3>2. w[old(j)] = w[old(k)]
      BY <1>4, <1>9
    <3> QED
      BY <1>2, <3>1, <3>2
  <2> QED
    BY <1>1, <2>1
<1>10. ASSUME NEW t
       PROVE  (\E k \in 1 .. n - 1 : v[k] = t) <=> t # w[m] /\ (\E k \in 1 .. n : w[k] = t)
  <2>1. ASSUME NEW k \in 1 .. n, w[k] = t, t # w[m] PROVE \E j \in 1 .. n - 1 : v[j] = t
    <3> DEFINE j == IF k < m THEN k ELSE k - 1
    <3>1. k # m
      BY <2>1
    <3>2. j \in 1 .. n - 1 /\ old(j) = k
      BY <1>1, <3>1
    <3>3. v[j] = t
      <4> HIDE DEF old, j
      <4> QED
        BY <1>4, <2>1, <3>2
    <3> QED
      BY <3>2, <3>3
  <2>2. ASSUME NEW k \in 1 .. n - 1, v[k] = t PROVE t # w[m] /\ \E j \in 1 .. n : w[j] = t
    <3> HIDE DEF old
    <3>1. old(k) \in 1 .. n /\ old(k) # m /\ w[old(k)] = t
      BY <1>2, <1>4, <2>2
    <3>2. w[old(k)] # w[m]
      BY <1>1, <3>1 DEF Path
    <3> QED
      BY <3>1, <3>2
  <2> QED
    BY <2>1, <2>2
<1>11. Path(other, none, head, v)
  BY <1>3, <1>7, <1>8, <1>9 DEF Path
<1>12. \A k \in 1 .. Len(w) - 1 : v[k] = w[IF k < m THEN k ELSE k + 1]
  BY <1>1, <1>4
<1> HIDE DEF old
<1>13. Without(w, m, v)
  BY <1>1, <1>3, <1>10, <1>12 DEF Without
<1> QED
  BY <1>3, <1>11, <1>13
=============================================================================
