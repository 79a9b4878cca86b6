-------------------------- MODULE ThreadListProofs --------------------------
(***************************************************************************)
(* Proofs about ThreadList, for any threads, callers and ids: the links    *)
(* stay one ring of the threads on the list, whoever creates, resumes and  *)
(* deletes threads at the same time, and what an enumeration shows of      *)
(* them.                                                                   *)
(***************************************************************************)
EXTENDS ThreadList, LinksProofs

TypeOK ==
  /\ thread_list \in Thread
  /\ list_next \in [Thread -> Thread \cup {NULL}]
  /\ unique_id \in [Thread -> Id]
  /\ next_unique_id \in Id
  /\ life \in [Thread -> {"none", "live", "exited"}]
  /\ pc \in [Caller -> {"out", "write", "add", "zero"}]
  /\ target \in [Caller -> Thread]
  /\ drawn \in [Caller -> Id]
  /\ cursor \in Thread \cup {NULL}
  /\ cursor_id \in Id
  /\ shown \in [Thread -> 0 .. 2]
  /\ start \in SUBSET Thread
  /\ disturbed \in SUBSET {"order", "id", "overlap"}

\* Nobody works on the thread object of another caller, none is alive while
\* its constructor or its destructor runs, and the idle thread always is.
OneCallerEach ==
  /\ \A c, d \in Caller : ~At(c, "out") /\ ~At(d, "out") /\ target[c] = target[d] => c = d
  /\ \A c \in Caller : ~At(c, "out") => life[target[c]] # "live"
  /\ \A c \in Caller : At(c, "zero") => life[target[c]] = "exited"
  /\ life[Idle] = "live"

\* The threads on the list, from the head on.
Order(e) ==
  /\ e # <<>>
  /\ e[Len(e)] = thread_list
  /\ Ringed(list_next, e)
  /\ \A t \in Thread : t \in Listed <=> \E k \in 1 .. Len(e) : e[k] = t

(***************************************************************************)
(* An enumeration that nothing has disturbed is at the k-th thread of the  *)
(* list: those that were there from its beginning have been shown up to    *)
(* that one, and none behind it.                                           *)
(***************************************************************************)
ShownUpTo(e, k) ==
  /\ cursor = e[k]
  /\ unique_id[cursor] = cursor_id
  /\ start \subseteq Listed
  /\ \A j \in 1 .. Len(e) : e[j] \in start => shown[e[j]] = IF j <= k THEN 1 ELSE 0

Undisturbed(e) ==
  /\ cursor = NULL => disturbed = {}
  /\ cursor # NULL /\ "order" \notin disturbed => \E k \in 1 .. Len(e) : ShownUpTo(e, k)

(***************************************************************************)
(* The thread shown last is on the list as long as it has the id it was    *)
(* shown with, or it was just taken off and its link still leads to one    *)
(* that is.                                                                *)
(***************************************************************************)
StillThere ==
  cursor # NULL /\ disturbed \cap {"overlap", "id"} = {}
  /\ cursor_id # 0 /\ unique_id[cursor] = cursor_id
    => \/ cursor \in Listed
       \/ /\ \E c \in Caller : At(c, "zero") /\ target[c] = cursor
          /\ cursor # thread_list
          /\ list_next[cursor] \in Listed

IInv ==
  /\ TypeOK
  /\ OneCallerEach
  /\ StillThere
  /\ \E e \in Seq(Thread) : Order(e) /\ Undisturbed(e)
-----------------------------------------------------------------------------
(***************************************************************************)
(* The list.                                                               *)
(***************************************************************************)
\* The loop from thread_list on meets the last thread and then the others.
LEMMA RingIs ==
  ASSUME TypeOK, NEW e \in Seq(Thread), Order(e)
  PROVE  \E r \in Seq(Thread) :
           /\ Ring = r /\ Len(r) = Len(e) /\ r[1] = e[Len(e)]
           /\ \A k \in 1 .. Len(e) - 1 : r[k + 1] = e[k]
<1>1. PICK n \in Nat \ {0} : n = Len(e)
  BY DEF Order
<1> DEFINE link == [t \in Thread |-> IF list_next[t] = thread_list THEN NULL ELSE list_next[t]]
           at(k) == IF k = 1 THEN n ELSE k - 1
           r == [k \in 1 .. n |-> e[at(k)]]
<1>2. ASSUME NEW k \in 1 .. n PROVE at(k) \in 1 .. n /\ e[at(k)] \in Thread
  <2>1. at(k) \in 1 .. n
    BY <1>1
  <2> QED
    BY <1>1, <2>1
<1>3. r \in Seq(Thread) /\ Len(r) = n
  <2> HIDE DEF at
  <2>1. r \in [1 .. n -> Thread]
    BY <1>2
  <2> QED
    BY <2>1, SeqOf
<1>4. \A k \in 1 .. n : r[k] = e[at(k)]
  OBVIOUS
<1> HIDE DEF r
<1>5. \A t \in Thread : link[t] = IF list_next[t] = thread_list THEN NULL ELSE list_next[t]
  OBVIOUS
<1>6. DOMAIN link = Thread
  OBVIOUS
<1> HIDE DEF link
<1>7. r[1] = e[n] /\ r[1] = thread_list /\ 1 \in 1 .. n /\ n \in 1 .. Len(e)
  BY <1>1, <1>4 DEF Order
<1>8. ASSUME NEW k \in 1 .. n PROVE link[r[k]] = Item(NULL, r, k + 1)
  <2> DEFINE m == at(k)
             nxt == IF m = Len(e) THEN 1 ELSE m + 1
  <2>1. m \in 1 .. Len(e) /\ nxt \in 1 .. Len(e) /\ (nxt = n <=> k = n)
    BY <1>1
  <2>2. k < n => at(k + 1) = nxt /\ k + 1 \in 1 .. n
    BY <1>1
  <2>3. list_next[e[m]] = e[nxt] /\ e[m] \in Thread
    BY <2>1 DEF Order, Ringed
  <2> HIDE DEF m, nxt
  <2>4. r[k] = e[m]
    BY <1>4 DEF m
  <2>5. CASE k = n
    <3>1. link[r[k]] = NULL
      BY <1>1, <1>5, <1>7, <2>1, <2>3, <2>4, <2>5
    <3> QED
      BY <1>1, <1>3, <2>5, <3>1 DEF Item
  <2>6. CASE k # n
    <3>1. e[nxt] # e[n]
      BY <1>1, <1>7, <2>1, <2>6 DEF Order, Ringed
    <3>2. link[r[k]] = e[nxt]
      BY <1>5, <1>7, <2>3, <2>4, <3>1
    <3>3. r[k + 1] = e[nxt] /\ ~(k + 1 > n)
      BY <1>4, <2>2, <2>6
    <3> QED
      BY <1>3, <3>2, <3>3 DEF Item
  <2> QED
    BY <2>5, <2>6
<1>9. ASSUME NEW j \in 1 .. n, NEW k \in 1 .. n, r[j] = r[k] PROVE j = k
  <2>1. at(j) = at(k)
    <3> HIDE DEF at
    <3> QED
      BY <1>1, <1>2, <1>4, <1>9 DEF Order, Ringed
  <2> QED
    BY <1>1, <2>1
<1>10. Path(link, NULL, thread_list, r)
  <2>1. thread_list = Item(NULL, r, 1)
    BY <1>1, <1>3, <1>7 DEF Item
  <2> QED
    BY <1>3, <1>8, <1>9, <2>1 DEF Path
<1>11. Linked(link, NULL, thread_list) = r
  BY <1>3, <1>6, <1>10, ListAssumption, LinkedIsPath
<1>12. Ring = r
  BY <1>11 DEF Ring, link
<1>13. \A k \in 1 .. n - 1 : r[k + 1] = e[k]
  <2> TAKE k \in 1 .. n - 1
  <2>1. k + 1 \in 1 .. n /\ at(k + 1) = k
    BY <1>1
  <2> HIDE DEF at
  <2> QED
    BY <1>4, <2>1
<1> QED
  BY <1>1, <1>3, <1>7, <1>12, <1>13

\* The loop meets the threads on the list.
LEMMA MembersListed ==
  ASSUME TypeOK, NEW e \in Seq(Thread), Order(e)
  PROVE  Members = Listed
<1>1. PICK r \in Seq(Thread) :
         /\ Ring = r /\ Len(r) = Len(e) /\ r[1] = e[Len(e)]
         /\ \A k \in 1 .. Len(e) - 1 : r[k + 1] = e[k]
  BY RingIs
<1>2. PICK n \in Nat \ {0} : n = Len(e)
  BY DEF Order
<1>3. Members = {r[k] : k \in 1 .. n}
  BY <1>1, <1>2 DEF Members, Range
<1>4. ASSUME NEW k \in 1 .. n PROVE r[k] \in Listed
  <2>1. CASE k = 1
    BY <1>1, <1>2, <2>1 DEF Order
  <2>2. CASE k # 1
    <3>1. k - 1 \in 1 .. Len(e) - 1 /\ (k - 1) + 1 = k /\ k - 1 \in 1 .. Len(e)
      BY <1>2, <2>2
    <3>2. r[k] = e[k - 1]
      BY <1>1, <3>1
    <3> QED
      BY <3>1, <3>2 DEF Order
  <2> QED
    BY <2>1, <2>2
<1>5. ASSUME NEW t \in Listed PROVE t \in Members
  <2>1. PICK k \in 1 .. Len(e) : e[k] = t
    BY DEF Order, Listed
  <2>2. CASE k = n
    BY <1>1, <1>2, <1>3, <2>1, <2>2
  <2>3. CASE k # n
    <3>1. k \in 1 .. Len(e) - 1 /\ k + 1 \in 1 .. n
      BY <1>2, <2>3
    <3>2. r[k + 1] = t
      BY <1>1, <2>1, <3>1
    <3> QED
      BY <1>3, <3>1, <3>2
  <2> QED
    BY <2>2, <2>3
<1> QED
  BY <1>3, <1>4, <1>5

\* A thread that is not on the list is put at its end.
LEMMA AddNew ==
  ASSUME TypeOK, NEW e \in Seq(Thread), Order(e), NEW t \in Thread, t \notin Listed,
         add_to_list(t), Listed' = Listed \cup {t}
  PROVE  /\ Append(e, t) \in Seq(Thread) /\ Order(Append(e, t))'
         /\ thread_list' = t
         /\ \A x \in Thread : x \notin {t, thread_list} => list_next'[x] = list_next[x]
<1> DEFINE v == Append(e, t)
<1>1. PICK n \in Nat \ {0} : n = Len(e)
  BY DEF Order
<1>2. /\ v \in Seq(Thread) /\ Len(v) = n + 1 /\ v[n + 1] = t
      /\ \A k \in 1 .. n : v[k] = e[k]
  BY <1>1
<1>3. t \notin Members
  BY MembersListed
<1>4. /\ thread_list' = t
      /\ list_next' = [list_next EXCEPT ![t] = list_next[thread_list], ![thread_list] = t]
  BY <1>3 DEF add_to_list
<1>5. \A k \in 1 .. Len(e) : e[k] # t
  BY DEF Order
<1>6. thread_list = e[Len(e)]
  BY DEF Order
<1>7. Ringed(list_next', v)
  <2>1. list_next \in [Thread -> Thread \cup {NULL}] /\ Ringed(list_next, e) /\ e # <<>>
    BY DEF TypeOK, Order
  <2>2. Ringed([list_next EXCEPT ![t] = list_next[e[Len(e)]], ![e[Len(e)]] = t], v)
    BY <1>5, <2>1, RingAppend
  <2> QED
    BY <1>4, <1>6, <2>2
<1> HIDE DEF v
<1>8. ASSUME NEW x \in Thread PROVE x \in Listed' <=> \E k \in 1 .. Len(v) : v[k] = x
  <2>1. x \in Listed' <=> x = t \/ \E k \in 1 .. n : e[k] = x
    BY <1>1 DEF Order
  <2>2. ASSUME NEW k \in 1 .. Len(v), v[k] = x PROVE x = t \/ \E j \in 1 .. n : e[j] = x
    <3>1. k = n + 1 \/ k \in 1 .. n
      BY <1>1, <1>2
    <3> QED
      BY <1>2, <2>2, <3>1
  <2>3. n + 1 \in 1 .. Len(v) /\ \A k \in 1 .. n : k \in 1 .. Len(v)
    BY <1>1, <1>2
  <2> QED
    BY <1>2, <2>1, <2>2, <2>3
<1>9. v # <<>> /\ v[Len(v)] = t
  BY <1>1, <1>2
<1>10. Order(v)'
  BY <1>4, <1>7, <1>8, <1>9 DEF Order
<1>11. \A x \in Thread : x \notin {t, thread_list} => list_next'[x] = list_next[x]
  BY <1>4 DEF TypeOK
<1> QED
  BY <1>2, <1>4, <1>10, <1>11 DEF v

\* A thread that is on the list becomes the last one by where the list begins.
LEMMA AddAgainRotates ==
  ASSUME TypeOK, NEW e \in Seq(Thread), Order(e), NEW t \in Thread, t \in Listed,
         add_to_list(t), Listed' = Listed
  PROVE  /\ \E v \in Seq(Thread) : Order(v)'
         /\ thread_list' = t /\ list_next' = list_next
<1>1. thread_list' = t /\ list_next' = list_next
  BY MembersListed DEF add_to_list
<1>2. PICK m \in 1 .. Len(e) : e[m] = t
  BY DEF Order
<1>3. PICK v \in Seq(Thread) : Ringed(list_next, v) /\ Rotation(e, m, v)
  BY RingRotated DEF Order
<1>4. v # <<>>
  BY <1>2, <1>3 DEF Rotation
<1>5. Order(v)'
  BY <1>1, <1>2, <1>3, <1>4 DEF Order, Rotation
<1> QED
  BY <1>1, <1>5

\* A thread is taken off: the others stay in their order, unless it was the
\* last one, when the first becomes the last.  Its own link still leads to
\* one of them.
LEMMA RemoveListed ==
  ASSUME TypeOK, NEW e \in Seq(Thread), Order(e), NEW m \in 1 .. Len(e), Len(e) >= 2,
         remove_from_list(e[m]), Listed' = Listed \ {e[m]}
  PROVE  /\ \E v \in Seq(Thread) :
              Order(v)' /\ (m < Len(e) => Without(e, m, v))
         /\ list_next'[e[m]] = list_next[e[m]] /\ list_next[e[m]] \in Listed'
         /\ thread_list' # e[m]
         /\ m < Len(e) => thread_list' = thread_list
<1> DEFINE t == e[m]
           b == IF m = 1 THEN Len(e) ELSE m - 1
           nxt == IF m = Len(e) THEN 1 ELSE m + 1
           prev == Before(e, m)
<1>1. PICK n \in Nat : n = Len(e) /\ n >= 2
  OBVIOUS
<1>2. /\ b \in 1 .. n /\ nxt \in 1 .. n /\ b # m /\ nxt # m
      /\ t \in Thread /\ e[b] \in Thread /\ e[nxt] \in Thread /\ prev = e[b]
  BY <1>1 DEF Before
<1>3. list_next[e[b]] = t /\ list_next[t] = e[nxt]
  BY <1>1, <1>2 DEF Order, Ringed
<1>4. t \in Listed /\ prev \in Listed /\ e[nxt] \in Listed
  BY <1>1, <1>2 DEF Order
<1>5. ASSUME NEW p \in Members, list_next[p] = t PROVE p = prev
  <2>1. p \in Listed
    BY MembersListed
  <2>2. PICK j \in 1 .. Len(e) : e[j] = p
    BY <2>1 DEF Order, Listed
  <2>3. j = b
    BY <1>5, <2>2, RingBefore DEF Order
  <2> QED
    BY <1>2, <2>2, <2>3
<1>6. prev \in Members /\ t \in Members
  BY <1>4, MembersListed
<1>7. (CHOOSE p \in Members : list_next[p] = t) = prev
  BY <1>2, <1>3, <1>5, <1>6
<1>8. /\ list_next' = [list_next EXCEPT ![prev] = list_next[t]]
      /\ thread_list' = IF thread_list = t THEN list_next[t] ELSE thread_list
  BY <1>6, <1>7 DEF remove_from_list
<1> HIDE DEF b, nxt, prev
<1>9. list_next'[t] = list_next[t] /\ list_next[t] \in Listed' /\ prev # t
  <2>1. prev # t /\ e[nxt] # t
    BY <1>1, <1>2 DEF Order, Ringed
  <2> QED
    BY <1>2, <1>3, <1>4, <1>8, <2>1 DEF TypeOK
<1>10. thread_list = e[n]
  BY <1>1 DEF Order
<1>11. CASE m < Len(e)
  <2>1. m \in 1 .. Len(e) - 1
    BY <1>1, <1>11
  <2>2. PICK v \in Seq(Thread) :
          Ringed([list_next EXCEPT ![Before(e, m)] = list_next[e[m]]], v) /\ Without(e, m, v)
    <3>1. list_next \in [Thread -> Thread \cup {NULL}] /\ Ringed(list_next, e)
      BY DEF TypeOK, Order
    <3> QED
      BY <2>1, <3>1, RingRemoved
  <2>3. thread_list # t
    BY <1>1, <1>10, <1>11 DEF Order, Ringed
  <2>4. thread_list' = thread_list
    BY <1>8, <2>3
  <2>5. v[Len(v)] = thread_list /\ v # <<>>
    <3>1. n - 1 \in 1 .. Len(e) - 1 /\ ~(n - 1 < m) /\ (n - 1) + 1 = n
      BY <1>1, <1>11
    <3>2. v[n - 1] = e[n]
      BY <2>2, <3>1 DEF Without
    <3> QED
      BY <1>1, <1>10, <2>2, <3>1, <3>2 DEF Without
  <2>6. Order(v)'
    BY <1>8, <2>2, <2>4, <2>5 DEF Order, Without, prev
  <2> QED
    BY <1>9, <2>2, <2>3, <2>4, <2>6
<1>12. CASE ~(m < Len(e))
  <2>1. m = n
    BY <1>1, <1>12
  <2>2. PICK w \in Seq(Thread) : Ringed(list_next, w) /\ Rotation(e, 1, w)
    <3>1. 1 \in 1 .. Len(e) /\ Ringed(list_next, e)
      BY <1>1 DEF Order
    <3> QED
      BY <3>1, RingRotated
  <2>3. n - 1 \in 1 .. Len(w) - 1 /\ n - 1 \in 1 .. n /\ 1 + (n - 1) = n
    BY <1>1, <2>2 DEF Rotation
  <2>4. w[n - 1] = t
    BY <1>1, <2>1, <2>2, <2>3 DEF Rotation
  <2>5. prev = Before(w, n - 1)
    <3>1. CASE n = 2
      BY <1>1, <1>2, <2>1, <2>2, <3>1 DEF b, Before, Rotation
    <3>2. CASE n # 2
      <4>1. n - 2 \in 1 .. Len(e) /\ 1 + (n - 2) = n - 1 /\ n - 1 <= Len(e)
        BY <1>1, <3>2
      <4>2. w[n - 2] = e[n - 1]
        BY <2>2, <4>1 DEF Rotation
      <4>3. b = n - 1 /\ (n - 1) - 1 = n - 2 /\ n - 1 # 1
        BY <1>1, <2>1, <3>2 DEF b
      <4> QED
        BY <1>2, <4>2, <4>3 DEF Before
    <3> QED
      BY <3>1, <3>2
  <2>6. PICK v \in Seq(Thread) :
          /\ Ringed([list_next EXCEPT ![Before(w, n - 1)] = list_next[w[n - 1]]], v)
          /\ Without(w, n - 1, v)
    <3>1. list_next \in [Thread -> Thread \cup {NULL}]
      BY DEF TypeOK
    <3> QED
      BY <2>2, <2>3, <3>1, RingRemoved
  <2>7. thread_list' = e[1] /\ e[1] # t
    <3>1. nxt = 1
      BY <1>1, <2>1 DEF nxt
    <3>2. e[nxt] # t
      BY <1>1, <1>2 DEF Order, Ringed
    <3> QED
      BY <1>2, <1>3, <1>8, <1>10, <2>1, <3>1, <3>2
  <2>8. v[Len(v)] = e[1] /\ v # <<>>
    <3>1. n - 1 \in 1 .. Len(w) - 1 /\ ~(n - 1 < n - 1) /\ (n - 1) + 1 = n
      BY <1>1, <2>2 DEF Rotation
    <3>2. v[n - 1] = w[n]
      BY <2>6, <3>1 DEF Without
    <3> QED
      BY <1>1, <2>2, <2>6, <3>1, <3>2 DEF Rotation, Without
  <2>9. Order(v)'
    <3>1. \A x : (\E k \in 1 .. Len(v) : v[k] = x) <=> x # t /\ \E k \in 1 .. Len(e) : e[k] = x
      BY <2>2, <2>4, <2>6 DEF Rotation, Without
    <3> QED
      BY <1>8, <2>4, <2>5, <2>6, <2>7, <2>8, <3>1 DEF Order
  <2> QED
    BY <1>1, <1>9, <1>12, <2>2, <2>6, <2>7, <2>9
<1> QED
  BY <1>11, <1>12
-----------------------------------------------------------------------------
(***************************************************************************)
(* The induction: what does not touch the list or the enumeration leaves   *)
(* them as they are.                                                       *)
(***************************************************************************)
\* The list stays the same.
LEMMA SameList ==
  ASSUME NEW e, Order(e), UNCHANGED <<thread_list, list_next>>, Listed' = Listed
  PROVE  Order(e)'
  BY DEF Order

\* What was shown stays right.
LEMMA SameShown ==
  ASSUME NEW e, Undisturbed(e), UNCHANGED <<enumeration, unique_id>>, Listed' = Listed
  PROVE  Undisturbed(e)'
<1>1. UNCHANGED <<cursor, cursor_id, shown, start, disturbed>>
  BY DEF enumeration
<1>2. \A k : ShownUpTo(e, k)' <=> ShownUpTo(e, k)
  BY <1>1 DEF ShownUpTo
<1> QED
  BY <1>1, <1>2 DEF Undisturbed

\* The thread shown last stays where it is.
LEMMA SameThere ==
  ASSUME StillThere, UNCHANGED <<enumeration, unique_id, thread_list, list_next>>,
         Listed' = Listed,
         \A d \in Caller : At(d, "zero") => At(d, "zero")' /\ target'[d] = target[d]
  PROVE  StillThere'
<1>1. UNCHANGED <<cursor, cursor_id, shown, start, disturbed>>
  BY DEF enumeration
<1> QED
  BY <1>1 DEF StillThere

\* A thread that is alive, or that has exited and nobody deletes, is listed.
LEMMA ListedIs ==
  ASSUME TypeOK, NEW t \in Thread
  PROVE  t \in Listed <=> life[t] # "none" /\ \A c \in Caller : At(c, "zero") => target[c] # t
  BY DEF Listed

\* At the start there is the idle thread.
LEMMA InitIInv == Init => IInv
<1> SUFFICES ASSUME Init PROVE IInv
  OBVIOUS
<1> USE ListAssumption, IdAssumption
<1>1. TypeOK
  BY DEF Init, TypeOK, Id, Unseen
<1>2. OneCallerEach /\ StillThere
  BY DEF Init, OneCallerEach, At, StillThere
<1>3. Listed = {Idle}
  BY DEF Init, Listed, At
<1>4. PICK e \in Seq(Thread) : e = <<Idle>>
  <2>1. <<Idle>> \in Seq(Thread)
    OBVIOUS
  <2> QED
    BY <2>1
<1>5. Len(e) = 1 /\ e[1] = Idle /\ e # <<>>
  BY <1>4
<1>6. Order(e)
  BY <1>3, <1>5 DEF Init, Order, Ringed
<1>7. Undisturbed(e)
  BY DEF Init, Undisturbed
<1> QED
  BY <1>1, <1>2, <1>4, <1>6, <1>7 DEF IInv

\* A constructor begins: it has its id, and no list has changed.
LEMMA ReadIdInv ==
  ASSUME IInv, NEW c \in Caller, NEW t \in Thread, ReadId(c, t)
  PROVE  IInv'
<1>1. PICK e \in Seq(Thread) : Order(e) /\ Undisturbed(e)
  BY DEF IInv
<1>2. TypeOK'
  BY DEF IInv, TypeOK, ReadId, At, enumeration
<1>3. /\ pc[c] = "out" /\ pc' = [pc EXCEPT ![c] = "write"] /\ target' = [target EXCEPT ![c] = t]
      /\ life' = life /\ life[t] # "live" /\ ~Busy(t)
      /\ UNCHANGED <<thread_list, list_next, unique_id, enumeration>>
  BY DEF ReadId, At
<1>4. \A d \in Caller : (At(d, "zero")' <=> At(d, "zero"))
                        /\ (At(d, "zero") => target'[d] = target[d])
  BY <1>3 DEF At, IInv, TypeOK
<1>5. Listed' = Listed
  BY <1>3, <1>4 DEF Listed
<1>6. OneCallerEach'
  <2>1. ASSUME NEW a \in Caller, NEW b \in Caller, ~At(a, "out")', ~At(b, "out")',
               target'[a] = target'[b], a # b
        PROVE  FALSE
    BY <1>3, <2>1 DEF At, Busy, IInv, TypeOK, OneCallerEach
  <2>2. ASSUME NEW a \in Caller
        PROVE  /\ ~At(a, "out")' => life'[target'[a]] # "live"
               /\ At(a, "zero")' => life'[target'[a]] = "exited"
    BY <1>3, <1>4, <2>2 DEF At, IInv, TypeOK, OneCallerEach
  <2>3. life'[Idle] = "live"
    BY <1>3 DEF IInv, OneCallerEach
  <2> QED
    BY <2>1, <2>2, <2>3 DEF OneCallerEach
<1>7. StillThere'
  BY <1>3, <1>4, <1>5, SameThere DEF IInv
<1>8. Order(e)' /\ Undisturbed(e)'
  BY <1>1, <1>3, <1>5, SameList, SameShown
<1> QED
  BY <1>2, <1>6, <1>7, <1>8 DEF IInv

\* A thread exits: it is still on the list.
LEMMA ExitInv ==
  ASSUME IInv, NEW t \in Thread, Exit(t)
  PROVE  IInv'
<1>1. PICK e \in Seq(Thread) : Order(e) /\ Undisturbed(e)
  BY DEF IInv
<1>2. TypeOK'
  BY DEF IInv, TypeOK, Exit, callers, enumeration
<1>3. /\ UNCHANGED <<pc, target>> /\ life[t] = "live" /\ t # Idle
      /\ life' = [life EXCEPT ![t] = "exited"]
      /\ UNCHANGED <<thread_list, list_next, unique_id, enumeration>>
  BY DEF Exit, callers
<1>4. \A a : \A d \in Caller : At(d, a)' <=> At(d, a)
  BY <1>3 DEF At
<1>5. Listed' = Listed
  BY <1>3, <1>4 DEF Listed, IInv, TypeOK
<1>6. OneCallerEach'
  BY <1>3, <1>4, ListAssumption DEF IInv, TypeOK, OneCallerEach
<1>7. StillThere'
  BY <1>3, <1>4, <1>5, SameThere DEF IInv
<1>8. Order(e)' /\ Undisturbed(e)'
  BY <1>1, <1>3, <1>5, SameList, SameShown
<1> QED
  BY <1>2, <1>6, <1>7, <1>8 DEF IInv

\* A constructor writes its id: that of a thread shown last is another one now.
LEMMA WriteIdInv ==
  ASSUME IInv, NEW c \in Caller, WriteId(c)
  PROVE  IInv'
<1>1. PICK e \in Seq(Thread) : Order(e) /\ Undisturbed(e)
  BY DEF IInv
<1> DEFINE t == target[c]
           how == IF t = cursor THEN {"order", "id"} ELSE {}
<1>2. /\ pc[c] = "write" /\ pc' = [pc EXCEPT ![c] = "add"]
      /\ UNCHANGED <<thread_list, list_next, life, target, drawn>>
      /\ unique_id' = [unique_id EXCEPT ![t] = drawn[c]]
      /\ next_unique_id' = (drawn[c] + 1) % IdSize
      /\ UNCHANGED <<cursor, cursor_id, shown, start>>
      /\ disturbed' = IF cursor = NULL THEN {} ELSE disturbed \cup how
  BY DEF WriteId, At, Disturb
<1>3. TypeOK'
  <2>1. drawn[c] \in Nat /\ next_unique_id' \in Id
    BY <1>2, IdAssumption DEF IInv, TypeOK, Id
  <2> QED
    BY <1>2, <2>1 DEF IInv, TypeOK
<1>4. /\ t \in Thread
      /\ \A x \in Thread : x # t => unique_id'[x] = unique_id[x]
      /\ \A d \in Caller : At(d, "zero")' <=> At(d, "zero")
      /\ \A d \in Caller : At(d, "out")' <=> At(d, "out")
  BY <1>2 DEF At, IInv, TypeOK
<1>5. Listed' = Listed
  BY <1>2, <1>4 DEF Listed
<1>6. OneCallerEach'
  BY <1>2, <1>4 DEF IInv, OneCallerEach
<1>7. StillThere'
  <2>1. CASE cursor = NULL
    BY <1>2, <2>1 DEF StillThere
  <2>2. CASE t = cursor /\ cursor # NULL
    BY <1>2, <2>2 DEF StillThere
  <2>3. CASE t # cursor /\ cursor # NULL
    <3>1. cursor \in Thread /\ unique_id'[cursor] = unique_id[cursor] /\ disturbed' = disturbed
      BY <1>2, <1>4, <2>3 DEF IInv, TypeOK
    <3> QED
      BY <1>2, <1>4, <1>5, <3>1 DEF IInv, StillThere
  <2> QED
    BY <2>1, <2>2, <2>3
<1>8. Order(e)'
  BY <1>1, <1>2, <1>5, SameList
<1>9. Undisturbed(e)'
  <2>1. CASE cursor = NULL
    BY <1>2, <2>1 DEF Undisturbed
  <2>2. CASE t = cursor /\ cursor # NULL
    BY <1>2, <2>2 DEF Undisturbed
  <2>3. CASE t # cursor /\ cursor # NULL
    <3>1. cursor \in Thread /\ unique_id'[cursor] = unique_id[cursor] /\ disturbed' = disturbed
      BY <1>2, <1>4, <2>3 DEF IInv, TypeOK
    <3>2. \A k : ShownUpTo(e, k)' <=> ShownUpTo(e, k)
      BY <1>2, <1>5, <3>1 DEF ShownUpTo
    <3> QED
      BY <1>1, <1>2, <3>1, <3>2 DEF Undisturbed
  <2> QED
    BY <2>1, <2>2, <2>3
<1> QED
  BY <1>3, <1>6, <1>7, <1>8, <1>9 DEF IInv

\* A destructor ends: its thread has no id any more.
LEMMA ZeroIdInv ==
  ASSUME IInv, NEW c \in Caller, ZeroId(c)
  PROVE  IInv'
<1>1. PICK e \in Seq(Thread) : Order(e) /\ Undisturbed(e)
  BY DEF IInv
<1> DEFINE t == target[c]
<1>2. /\ pc[c] = "zero" /\ pc' = [pc EXCEPT ![c] = "out"]
      /\ target' = [target EXCEPT ![c] = Idle] /\ drawn' = [drawn EXCEPT ![c] = 0]
      /\ life' = [life EXCEPT ![t] = "none"] /\ unique_id' = [unique_id EXCEPT ![t] = 0]
      /\ UNCHANGED <<thread_list, list_next, next_unique_id, enumeration>>
  BY DEF ZeroId, At, Return
<1>3. UNCHANGED <<cursor, cursor_id, shown, start, disturbed>>
  BY <1>2 DEF enumeration
<1>4. 0 \in Id /\ Idle \in Thread
  BY IdAssumption, ListAssumption DEF Id
<1>5. TypeOK'
  BY <1>2, <1>3, <1>4 DEF IInv, TypeOK
<1>6. /\ t \in Thread /\ t \notin Listed /\ t # Idle
      /\ \A x \in Thread : x # t => unique_id'[x] = unique_id[x] /\ life'[x] = life[x]
      /\ unique_id'[t] = 0 /\ life'[t] = "none"
  BY <1>2 DEF At, IInv, TypeOK, Listed, OneCallerEach
<1>7. \A d \in Caller : d # c => pc'[d] = pc[d] /\ target'[d] = target[d]
  BY <1>2 DEF IInv, TypeOK
<1>8. pc'[c] = "out"
  BY <1>2 DEF IInv, TypeOK
<1>9. Listed' = Listed
  <2>1. ASSUME NEW x \in Thread, x # t PROVE x \in Listed' <=> x \in Listed
    <3>1. \A d \in Caller : At(d, "zero")' /\ target'[d] = x <=> At(d, "zero") /\ target[d] = x
      BY <1>7, <1>8, <2>1 DEF At
    <3>2. life'[x] = life[x]
      BY <1>6, <2>1
    <3> QED
      BY <3>1, <3>2 DEF Listed
  <2>2. t \notin Listed'
    BY <1>6 DEF Listed
  <2>3. \A x : (x \in Listed => x \in Thread) /\ (x \in Listed' => x \in Thread)
    BY DEF Listed
  <2>4. t \notin Listed
    BY <1>6
  <2> HIDE DEF t
  <2>5. \A x : x \in Listed' <=> x \in Listed
    BY <2>1, <2>2, <2>3, <2>4
  <2> QED
    BY <2>5, <2>3 DEF Listed
<1>10. OneCallerEach'
  <2>1. ASSUME NEW a \in Caller, ~At(a, "out")'
        PROVE  /\ ~At(a, "out") /\ target'[a] = target[a] /\ target[a] # t
               /\ target[a] \in Thread /\ pc'[a] = pc[a]
    <3>1. a # c
      BY <1>8, <2>1 DEF At
    <3> QED
      BY <1>2, <1>7, <2>1, <3>1 DEF At, IInv, TypeOK, OneCallerEach
  <2>2. \A a, b \in Caller : ~At(a, "out")' /\ ~At(b, "out")' /\ target'[a] = target'[b] => a = b
    BY <2>1 DEF IInv, OneCallerEach
  <2>3. ASSUME NEW a \in Caller, ~At(a, "out")' PROVE life'[target'[a]] = life[target[a]]
    BY <1>6, <2>1, <2>3
  <2>4. \A a \in Caller : ~At(a, "out")' => life'[target'[a]] # "live"
    BY <2>1, <2>3 DEF IInv, OneCallerEach
  <2>5. ASSUME NEW a \in Caller, At(a, "zero")' PROVE life'[target'[a]] = "exited"
    <3>1. ~At(a, "out")'
      BY <2>5 DEF At
    <3> QED
      BY <2>1, <2>3, <2>5, <3>1 DEF IInv, OneCallerEach, At
  <2>6. life'[Idle] = "live"
    BY <1>4, <1>6 DEF IInv, OneCallerEach
  <2> QED
    BY <2>2, <2>4, <2>5, <2>6 DEF OneCallerEach
<1>11. StillThere'
  <2>1. CASE cursor = NULL \/ cursor = t
    BY <1>3, <1>6, <2>1 DEF StillThere
  <2>2. CASE cursor # NULL /\ cursor # t
    <3>1. cursor \in Thread /\ unique_id'[cursor] = unique_id[cursor]
      BY <1>6, <2>2 DEF IInv, TypeOK
    <3>2. \A d \in Caller : At(d, "zero") /\ target[d] = cursor
                              => At(d, "zero")' /\ target'[d] = cursor
      BY <1>2, <1>7, <2>2 DEF At
    <3> QED
      BY <1>2, <1>3, <1>9, <3>1, <3>2 DEF IInv, StillThere
  <2> QED
    BY <2>1, <2>2
<1>12. Order(e)'
  BY <1>1, <1>2, <1>9, SameList
<1>13. Undisturbed(e)'
  <2>1. ASSUME NEW k \in 1 .. Len(e), ShownUpTo(e, k) PROVE ShownUpTo(e, k)'
    <3>1. e[k] \in Listed /\ e[k] \in Thread
      BY <1>1 DEF Order
    <3>2. unique_id'[cursor] = unique_id[cursor]
      BY <1>6, <2>1, <3>1 DEF ShownUpTo
    <3> QED
      BY <1>3, <1>9, <2>1, <3>2 DEF ShownUpTo
  <2> QED
    BY <1>1, <1>3, <2>1 DEF Undisturbed
<1> QED
  BY <1>5, <1>10, <1>11, <1>12, <1>13 DEF IInv

\* The constructor puts its thread at the end, or the thread was there and
\* becomes the last one.
LEMMA AddToListInv ==
  ASSUME IInv, NEW c \in Caller, AddToList(c)
  PROVE  IInv'
<1>1. PICK e \in Seq(Thread) : Order(e) /\ Undisturbed(e)
  BY DEF IInv
<1>0. PICK t \in Thread : t = target[c]
  BY DEF IInv, TypeOK
<1> DEFINE how == IF life[t] = "exited" THEN {"order"} ELSE {}
<1>2. /\ pc[c] = "add" /\ pc' = [pc EXCEPT ![c] = "out"]
      /\ target' = [target EXCEPT ![c] = Idle] /\ drawn' = [drawn EXCEPT ![c] = 0]
      /\ life' = [life EXCEPT ![t] = "live"] /\ add_to_list(t)
      /\ UNCHANGED <<unique_id, next_unique_id, cursor, cursor_id, shown, start>>
      /\ disturbed' = IF cursor = NULL THEN {} ELSE disturbed \cup how
  BY <1>0 DEF AddToList, At, Return, Disturb
<1>3. /\ t \in Thread /\ life[t] \in {"none", "exited"} /\ life'[t] = "live"
      /\ \A x \in Thread : x # t => life'[x] = life[x]
      /\ \A d \in Caller : At(d, "zero") => target[d] # t
  BY <1>0, <1>2 DEF At, IInv, TypeOK, OneCallerEach
<1>4. /\ \A d \in Caller : d # c => pc'[d] = pc[d] /\ target'[d] = target[d]
      /\ pc'[c] = "out"
  BY <1>2 DEF IInv, TypeOK
<1>5. \A d \in Caller : /\ At(d, "zero")' <=> At(d, "zero")
                        /\ At(d, "zero") => target'[d] = target[d]
  BY <1>2, <1>4 DEF At
<1>6. /\ \A x \in Thread : x # t => (x \in Listed' <=> x \in Listed)
      /\ t \in Listed' /\ (t \in Listed <=> life[t] = "exited")
  BY <1>3, <1>5 DEF Listed
<1>7. \A x : (x \in Listed => x \in Thread) /\ (x \in Listed' => x \in Thread)
  BY DEF Listed
<1>8. 0 \in Id /\ Idle \in Thread
  BY IdAssumption, ListAssumption DEF Id
<1>9. OneCallerEach'
  <2>1. ASSUME NEW a \in Caller, ~At(a, "out")'
        PROVE  /\ ~At(a, "out") /\ target'[a] = target[a] /\ target[a] # t
               /\ target[a] \in Thread /\ pc'[a] = pc[a] /\ life'[target'[a]] = life[target[a]]
    <3>1. a # c
      BY <1>4, <2>1 DEF At
    <3>2. /\ ~At(a, "out") /\ target'[a] = target[a] /\ pc'[a] = pc[a]
          /\ target[a] \in Thread
      BY <1>4, <2>1, <3>1 DEF At, IInv, TypeOK
    <3>3. target[a] # t
      BY <1>0, <1>2, <3>1, <3>2 DEF At, IInv, OneCallerEach
    <3> QED
      BY <1>3, <3>2, <3>3
  <2>2. \A a, b \in Caller : ~At(a, "out")' /\ ~At(b, "out")' /\ target'[a] = target'[b] => a = b
    BY <2>1 DEF IInv, OneCallerEach
  <2>3. \A a \in Caller : ~At(a, "out")' => life'[target'[a]] # "live"
    BY <2>1 DEF IInv, OneCallerEach
  <2>4. ASSUME NEW a \in Caller, At(a, "zero")' PROVE life'[target'[a]] = "exited"
    <3>1. ~At(a, "out")'
      BY <2>4 DEF At
    <3> QED
      BY <2>1, <2>4, <3>1 DEF IInv, OneCallerEach, At
  <2>5. life'[Idle] = "live"
    BY <1>3, <1>8 DEF IInv, OneCallerEach
  <2> QED
    BY <2>2, <2>3, <2>4, <2>5 DEF OneCallerEach
<1>10. ASSUME thread_list' \in Thread, list_next' \in [Thread -> Thread \cup {NULL}]
       PROVE  TypeOK'
  <2>1. disturbed' \in SUBSET {"order", "id", "overlap"}
    BY <1>2 DEF IInv, TypeOK
  <2> QED
    BY <1>2, <1>8, <1>10, <2>1 DEF IInv, TypeOK
<1>11. ASSUME thread_list' = t,
              \A x \in Thread : x \notin {t, thread_list} => list_next'[x] = list_next[x]
       PROVE  StillThere'
  <2>1. CASE cursor = NULL
    BY <1>2, <2>1 DEF StillThere
  <2>2. CASE cursor # NULL /\ cursor \in Listed
    <3>1. cursor \in Listed'
      BY <1>6, <1>7, <2>2
    <3> QED
      BY <1>2, <3>1 DEF StillThere
  <2>3. CASE cursor # NULL /\ cursor \notin Listed
    <3>1. SUFFICES ASSUME disturbed' \cap {"overlap", "id"} = {}, cursor_id # 0,
                          unique_id[cursor] = cursor_id
                   PROVE  /\ \E d \in Caller : At(d, "zero")' /\ target'[d] = cursor
                          /\ cursor # thread_list'
                          /\ list_next'[cursor] \in Listed'
      BY <1>2 DEF StillThere
    <3>2. disturbed \cap {"overlap", "id"} = {}
      BY <1>2, <2>3, <3>1
    <3>3. PICK d \in Caller : At(d, "zero") /\ target[d] = cursor
      BY <2>3, <3>1, <3>2 DEF IInv, StillThere
    <3>4. cursor # thread_list /\ list_next[cursor] \in Listed
      BY <2>3, <3>1, <3>2 DEF IInv, StillThere
    <3>5. cursor # t /\ cursor \in Thread
      BY <1>3, <2>3, <3>3 DEF IInv, TypeOK
    <3>6. list_next'[cursor] = list_next[cursor]
      BY <1>11, <3>4, <3>5
    <3>7. list_next[cursor] \in Listed'
      BY <1>6, <1>7, <3>4
    <3> QED
      BY <1>5, <1>11, <3>3, <3>5, <3>6, <3>7
  <2> QED
    BY <2>1, <2>2, <2>3
<1>12. CASE life[t] = "none"
  <2>1. t \notin Listed
    BY <1>6, <1>12
  <2>2. Listed' = Listed \cup {t}
    BY <1>3, <1>6, <1>7
  <2> DEFINE v == Append(e, t)
  <2>3. /\ v \in Seq(Thread) /\ Order(v)' /\ thread_list' = t
        /\ \A x \in Thread : x \notin {t, thread_list} => list_next'[x] = list_next[x]
    <3>1. add_to_list(t) /\ TypeOK /\ t \in Thread
      BY <1>2, <1>3 DEF IInv
    <3> QED
      BY <1>1, <2>1, <2>2, <3>1, AddNew
  <2>4. StillThere'
    BY <1>11, <2>3
  <2>5. PICK n \in Nat \ {0} : n = Len(e)
    BY <1>1 DEF Order
  <2>6. Len(v) = n + 1 /\ v[n + 1] = t /\ \A j \in 1 .. n : v[j] = e[j]
    BY <1>1, <1>3, <2>5
  <2> HIDE DEF v
  <2>7. ASSUME NEW k \in 1 .. Len(e), ShownUpTo(e, k) PROVE ShownUpTo(v, k)'
    <3>1. start \subseteq Listed' /\ t \notin start
      BY <2>1, <2>2, <2>7 DEF ShownUpTo
    <3>2. cursor = v[k]
      BY <2>5, <2>6, <2>7 DEF ShownUpTo
    <3>3. ASSUME NEW j \in 1 .. Len(v), v[j] \in start PROVE shown[v[j]] = IF j <= k THEN 1 ELSE 0
      <4>1. j # n + 1
        BY <2>6, <3>1, <3>3
      <4>2. j \in 1 .. Len(e)
        BY <2>5, <2>6, <4>1
      <4> QED
        BY <2>5, <2>6, <2>7, <3>3, <4>2 DEF ShownUpTo
    <3>4. UNCHANGED <<unique_id, cursor, cursor_id, shown, start>>
      BY <1>2
    <3>5. unique_id[cursor] = cursor_id
      BY <2>7 DEF ShownUpTo
    <3> QED
      BY <3>1, <3>2, <3>3, <3>4, <3>5 DEF ShownUpTo
  <2>8. \A k \in 1 .. Len(e) : k \in 1 .. Len(v)
    BY <2>5, <2>6
  <2>9. Undisturbed(v)'
    <3>1. cursor # NULL => disturbed' = disturbed
      BY <1>2, <1>12
    <3>2. cursor' = cursor /\ (cursor = NULL => disturbed' = {})
      BY <1>2
    <3> QED
      BY <1>1, <2>7, <2>8, <3>1, <3>2 DEF Undisturbed
  <2>10. list_next' \in [Thread -> Thread \cup {NULL}]
    <3>1. add_to_list(t) /\ thread_list \in Thread /\ list_next \in [Thread -> Thread \cup {NULL}]
      BY <1>2 DEF IInv, TypeOK
    <3>2. list_next' = list_next
          \/ list_next' = [list_next EXCEPT ![t] = list_next[thread_list], ![thread_list] = t]
      BY <3>1 DEF add_to_list
    <3> QED
      BY <1>3, <3>1, <3>2
  <2> QED
    BY <1>3, <1>9, <1>10, <2>3, <2>4, <2>9, <2>10 DEF IInv
<1>13. CASE life[t] = "exited"
  <2>1. t \in Listed
    BY <1>6, <1>13
  <2>2. Listed' = Listed
    <3>1. \A x : x \in Listed' <=> x \in Listed
      BY <1>6, <1>7, <2>1
    <3> QED
      BY <1>7, <3>1 DEF Listed
  <2>3. /\ \E v \in Seq(Thread) : Order(v)'
        /\ thread_list' = t /\ list_next' = list_next
    BY <1>1, <1>2, <1>3, <2>1, <2>2, AddAgainRotates DEF IInv
  <2>4. PICK v \in Seq(Thread) : Order(v)'
    BY <2>3
  <2>5. Undisturbed(v)'
    BY <1>2, <1>13 DEF Undisturbed
  <2>6. StillThere'
    BY <1>11, <2>3
  <2>7. TypeOK'
    BY <1>3, <1>10, <2>3 DEF IInv, TypeOK
  <2> QED
    BY <1>9, <2>4, <2>5, <2>6, <2>7 DEF IInv
<1> QED
  BY <1>3, <1>12, <1>13

\* The idle thread is always listed, so that no other one is alone.
LEMMA IdleListed ==
  ASSUME IInv, NEW e \in Seq(Thread), Order(e), NEW m \in 1 .. Len(e), e[m] # Idle
  PROVE  Len(e) >= 2
<1>1. Idle \in Listed
  BY ListAssumption DEF IInv, TypeOK, OneCallerEach, Listed
<1>2. PICK j \in 1 .. Len(e) : e[j] = Idle
  BY <1>1, ListAssumption DEF Order
<1> QED
  BY <1>2

\* A destructor takes its thread off: what is shown behind it moves up by one.
LEMMA DeleteInv ==
  ASSUME IInv, NEW c \in Caller, NEW t \in Thread, Delete(c, t)
  PROVE  IInv'
<1>1. PICK e \in Seq(Thread) : Order(e) /\ Undisturbed(e)
  BY DEF IInv
<1> DEFINE how == (IF t \in {thread_list, cursor} THEN {"order"} ELSE {})
                  \cup (IF \E d \in Caller : At(d, "zero") THEN {"overlap"} ELSE {})
<1>2. /\ pc[c] = "out" /\ pc' = [pc EXCEPT ![c] = "zero"]
      /\ target' = [target EXCEPT ![c] = t] /\ life' = [life EXCEPT ![t] = "exited"]
      /\ UNCHANGED <<unique_id, next_unique_id, drawn, cursor, cursor_id, shown>>
      /\ remove_from_list(t) /\ ~Busy(t) /\ t # Idle /\ life[t] # "none"
      /\ start' = start \ {t}
  BY DEF Delete, At
<1>3. disturbed' = IF cursor = NULL THEN {} ELSE disturbed \cup how
  BY DEF Delete
<1>4. /\ \A d \in Caller : d # c => pc'[d] = pc[d] /\ target'[d] = target[d]
      /\ pc'[c] = "zero" /\ target'[c] = t
  BY <1>2 DEF IInv, TypeOK
<1>5. /\ life'[t] = "exited"
      /\ \A x \in Thread : x # t => life'[x] = life[x]
      /\ \A d \in Caller : ~At(d, "out") => target[d] # t
  BY <1>2 DEF IInv, TypeOK, Busy
<1>6. \A x : (x \in Listed => x \in Thread) /\ (x \in Listed' => x \in Thread)
  BY DEF Listed
<1>7. t \in Listed /\ t \notin Listed'
  <2>1. t \in Listed
    BY <1>2, <1>5 DEF Listed, At
  <2>2. t \notin Listed'
    BY <1>4 DEF Listed, At
  <2> QED
    BY <2>1, <2>2
<1>8. Listed' = Listed \ {t}
  <2>1. ASSUME NEW x \in Thread, x # t PROVE x \in Listed' <=> x \in Listed
    <3>1. \A d \in Caller : At(d, "zero")' /\ target'[d] = x <=> At(d, "zero") /\ target[d] = x
      BY <1>2, <1>4, <2>1 DEF At
    <3>2. life'[x] = life[x]
      BY <1>5, <2>1
    <3> QED
      BY <3>1, <3>2 DEF Listed
  <2>2. \A x : x \in Listed' <=> x \in Listed \ {t}
    BY <1>6, <1>7, <2>1
  <2> QED
    BY <2>2, <1>6 DEF Listed
<1>9. PICK m \in 1 .. Len(e) : e[m] = t
  BY <1>1, <1>7 DEF Order
<1>10. /\ \E v \in Seq(Thread) : Order(v)' /\ (m < Len(e) => Without(e, m, v))
       /\ list_next'[t] = list_next[t] /\ list_next[t] \in Listed'
       /\ thread_list' # t
       /\ m < Len(e) => thread_list' = thread_list
  <2>1. Len(e) >= 2
    BY <1>1, <1>2, <1>9, IdleListed
  <2>2. remove_from_list(e[m]) /\ Listed' = Listed \ {e[m]} /\ TypeOK
    BY <1>2, <1>8, <1>9 DEF IInv
  <2> QED
    BY <1>1, <1>9, <2>1, <2>2, RemoveListed
<1>11. PICK v \in Seq(Thread) : Order(v)' /\ (m < Len(e) => Without(e, m, v))
  BY <1>10
<1>12. OneCallerEach'
  <2>1. ASSUME NEW a \in Caller, ~At(a, "out")', a # c
        PROVE  /\ ~At(a, "out") /\ target'[a] = target[a] /\ target[a] # t
               /\ target[a] \in Thread /\ pc'[a] = pc[a] /\ life'[target'[a]] = life[target[a]]
    <3>1. /\ ~At(a, "out") /\ target'[a] = target[a] /\ pc'[a] = pc[a]
          /\ target[a] \in Thread
      BY <1>4, <2>1 DEF At, IInv, TypeOK
    <3> QED
      BY <1>5, <3>1
  <2>2. \A a, b \in Caller : ~At(a, "out")' /\ ~At(b, "out")' /\ target'[a] = target'[b] => a = b
    <3>1. SUFFICES ASSUME NEW a \in Caller, NEW b \in Caller, ~At(a, "out")', ~At(b, "out")',
                          target'[a] = target'[b], a # b
                   PROVE  FALSE
      OBVIOUS
    <3>2. a # c /\ b # c
      BY <1>4, <2>1, <3>1
    <3> QED
      BY <2>1, <3>1, <3>2 DEF IInv, OneCallerEach
  <2>3. \A a \in Caller : ~At(a, "out")' => life'[target'[a]] # "live"
    BY <1>4, <1>5, <2>1 DEF IInv, OneCallerEach
  <2>4. ASSUME NEW a \in Caller, At(a, "zero")' PROVE life'[target'[a]] = "exited"
    <3>1. ~At(a, "out")'
      BY <2>4 DEF At
    <3>2. CASE a = c
      BY <1>4, <1>5, <3>2
    <3>3. CASE a # c
      BY <2>1, <2>4, <3>1, <3>3 DEF IInv, OneCallerEach, At
    <3> QED
      BY <3>2, <3>3
  <2>5. life'[Idle] = "live"
    BY <1>2, <1>5, ListAssumption DEF IInv, OneCallerEach
  <2> QED
    BY <2>2, <2>3, <2>4, <2>5 DEF OneCallerEach
<1>13. TypeOK'
  <2>1. thread_list' \in Thread /\ list_next' \in [Thread -> Thread \cup {NULL}]
    <3>1. list_next[t] \in Thread
      BY <1>6, <1>10
    <3>2. /\ thread_list' \in {thread_list, list_next[t]}
          /\ \/ list_next' = list_next
             \/ \E p : list_next' = [list_next EXCEPT ![p] = list_next[t]]
      BY <1>2 DEF remove_from_list
    <3> QED
      BY <3>1, <3>2 DEF IInv, TypeOK
  <2>2. disturbed' \in SUBSET {"order", "id", "overlap"}
    BY <1>3 DEF IInv, TypeOK
  <2> QED
    BY <1>2, <2>1, <2>2 DEF IInv, TypeOK
<1>14. StillThere'
  <2>1. SUFFICES ASSUME cursor # NULL, disturbed' \cap {"overlap", "id"} = {}, cursor_id # 0,
                        unique_id[cursor] = cursor_id
                 PROVE  \/ cursor \in Listed'
                        \/ /\ \E d \in Caller : At(d, "zero")' /\ target'[d] = cursor
                           /\ cursor # thread_list'
                           /\ list_next'[cursor] \in Listed'
    BY <1>2 DEF StillThere
  <2>2. disturbed \cap {"overlap", "id"} = {} /\ ~\E d \in Caller : At(d, "zero")
    BY <1>3, <2>1
  <2>3. cursor \in Listed
    BY <2>1, <2>2 DEF IInv, StillThere
  <2>4. CASE cursor = t
    BY <1>4, <1>10, <2>4 DEF At
  <2>5. CASE cursor # t
    BY <1>8, <2>3, <2>5
  <2> QED
    BY <2>4, <2>5
<1>15. Undisturbed(v)'
  <2>1. SUFFICES ASSUME cursor # NULL, "order" \notin disturbed'
                 PROVE  \E k \in 1 .. Len(v) : ShownUpTo(v, k)'
    BY <1>2, <1>3 DEF Undisturbed
  <2>2. "order" \notin disturbed /\ t # thread_list /\ t # cursor
    BY <1>3, <2>1
  <2>3. PICK k \in 1 .. Len(e) : ShownUpTo(e, k)
    BY <1>1, <2>1, <2>2 DEF Undisturbed
  <2>4. k # m /\ m # Len(e)
    BY <1>1, <1>9, <2>2, <2>3 DEF Order, ShownUpTo
  <2>5. PICK n \in Nat \ {0} : n = Len(e)
    BY <1>1 DEF Order
  <2>6. /\ m < Len(e) /\ Len(v) = n - 1
        /\ \A j \in 1 .. n - 1 : v[j] = e[IF j < m THEN j ELSE j + 1]
    BY <1>11, <2>4, <2>5 DEF Without
  <2> DEFINE i(j) == IF j < m THEN j ELSE j + 1
             q == IF k < m THEN k ELSE k - 1
  <2>7. q \in 1 .. n - 1 /\ i(q) = k
    BY <2>4, <2>5, <2>6
  <2>8. cursor = v[q]
    <3> HIDE DEF q
    <3> QED
      BY <2>3, <2>6, <2>7 DEF ShownUpTo
  <2>9. start' \subseteq Listed'
    BY <1>2, <1>8, <2>3 DEF ShownUpTo
  <2>10. ASSUME NEW j \in 1 .. Len(v), v[j] \in start'
         PROVE  shown[v[j]] = IF j <= q THEN 1 ELSE 0
    <3>1. i(j) \in 1 .. Len(e) /\ (i(j) <= k <=> j <= q)
      BY <2>4, <2>5, <2>6
    <3>2. v[j] = e[i(j)]
      BY <2>6
    <3>3. v[j] \in start
      BY <1>2, <2>10
    <3> HIDE DEF i, q
    <3> QED
      BY <2>3, <3>1, <3>2, <3>3 DEF ShownUpTo
  <2>11. UNCHANGED <<unique_id, cursor, cursor_id, shown>> /\ unique_id[cursor] = cursor_id
    BY <1>2, <2>3 DEF ShownUpTo
  <2> HIDE DEF q
  <2>12. ShownUpTo(v, q)'
    BY <2>8, <2>9, <2>10, <2>11 DEF ShownUpTo
  <2> QED
    BY <2>6, <2>7, <2>12
<1> QED
  BY <1>11, <1>12, <1>13, <1>14, <1>15 DEF IInv
-----------------------------------------------------------------------------
(***************************************************************************)
(* The enumeration.                                                        *)
(***************************************************************************)
\* Behind a thread of the list comes the next one, and nothing behind the last.
LEMMA NextOfList ==
  ASSUME TypeOK, NEW e \in Seq(Thread), Order(e), NEW k \in 1 .. Len(e)
  PROVE  /\ k = Len(e) => get_list_next(e[k]) = NULL
         /\ k < Len(e) => /\ get_list_next(e[k]) = e[k + 1] /\ e[k + 1] \in Thread
                          /\ k + 1 \in 1 .. Len(e)
         /\ list_next[e[k]] \in Listed
<1>1. PICK n \in Nat \ {0} : n = Len(e)
  BY DEF Order
<1> DEFINE nxt == IF k = Len(e) THEN 1 ELSE k + 1
<1>2. nxt \in 1 .. Len(e) /\ (k < Len(e) => nxt = k + 1 /\ k # Len(e))
  BY <1>1
<1>3. list_next[e[k]] = e[nxt] /\ e[k] \in Thread /\ e[nxt] \in Thread
  BY <1>2 DEF Order, Ringed
<1> HIDE DEF nxt
<1>4. list_next[e[k]] \in Listed
  BY <1>2, <1>3 DEF Order
<1>5. e[k] = thread_list <=> k = Len(e)
  BY <1>1 DEF Order, Ringed
<1> QED
  BY <1>2, <1>3, <1>4, <1>5 DEF get_list_next

\* cyg_thread_get_next begins with the head of the list.
LEMMA GetFirstInv ==
  ASSUME IInv, GetFirst
  PROVE  IInv'
<1>1. PICK e \in Seq(Thread) : Order(e) /\ Undisturbed(e)
  BY DEF IInv
<1>2. PICK n \in Nat \ {0} : n = Len(e)
  BY <1>1 DEF Order
<1>3. get_list_head = e[1] /\ 1 \in 1 .. Len(e) /\ n \in 1 .. Len(e) /\ e[1] \in Thread
  BY <1>1, <1>2 DEF Order, Ringed, get_list_head
<1>4. /\ cursor' = e[1] /\ cursor_id' = unique_id[e[1]]
      /\ shown' = [Unseen EXCEPT ![e[1]] = 1] /\ start' = Listed /\ disturbed' = disturbed
      /\ UNCHANGED <<thread_list, list_next, unique_id, next_unique_id, life, callers>>
  BY <1>3 DEF GetFirst
<1>5. UNCHANGED <<pc, target, drawn>>
  BY <1>4 DEF callers
<1>6. Listed \subseteq Thread /\ Listed' = Listed
  BY <1>4, <1>5 DEF Listed, At
<1>7. shown' \in [Thread -> 0 .. 2] /\ \A t \in Thread : shown'[t] = IF t = e[1] THEN 1 ELSE 0
  BY <1>3, <1>4 DEF Unseen
<1>8. TypeOK'
  BY <1>3, <1>4, <1>5, <1>6, <1>7 DEF IInv, TypeOK
<1>9. OneCallerEach'
  BY <1>4, <1>5 DEF IInv, OneCallerEach, At
<1>10. StillThere'
  BY <1>1, <1>3, <1>4, <1>6 DEF StillThere, Order
<1>11. Order(e)'
  BY <1>1, <1>4, <1>6, SameList
<1>12. ShownUpTo(e, 1)'
  <2>1. ASSUME NEW j \in 1 .. Len(e) PROVE shown'[e[j]] = IF j <= 1 THEN 1 ELSE 0
    <3>1. e[j] = e[1] <=> j = 1
      BY <1>1, <1>3 DEF Order, Ringed
    <3> QED
      BY <1>2, <1>7, <3>1
  <2> QED
    BY <1>4, <1>6, <2>1 DEF ShownUpTo
<1>13. Undisturbed(e)'
  BY <1>1, <1>3, <1>4, <1>12, ListAssumption DEF Undisturbed
<1> QED
  BY <1>8, <1>9, <1>10, <1>11, <1>13 DEF IInv

\* The thread shown next is on the list, unless the id was no help.
LEMMA NextListed ==
  ASSUME IInv, cursor # NULL, disturbed \cap {"overlap", "id"} = {}, cursor_id # 0,
         unique_id[cursor] = cursor_id, get_list_next(cursor) # NULL
  PROVE  get_list_next(cursor) \in Listed
<1>1. PICK e \in Seq(Thread) : Order(e) /\ Undisturbed(e)
  BY DEF IInv
<1>2. get_list_next(cursor) = list_next[cursor]
  BY DEF get_list_next
<1>3. CASE cursor \in Listed
  <2>1. PICK k \in 1 .. Len(e) : e[k] = cursor
    BY <1>1, <1>3 DEF Order, Listed
  <2>2. list_next[e[k]] \in Listed
    BY <1>1, NextOfList DEF IInv
  <2> QED
    BY <1>2, <2>1, <2>2
<1>4. CASE cursor \notin Listed
  BY <1>2, <1>4 DEF IInv, StillThere
<1> QED
  BY <1>3, <1>4

\* cyg_thread_get_next goes on to the next thread, or ends.
LEMMA GetNextInv ==
  ASSUME IInv, GetNext
  PROVE  IInv'
<1>1. PICK e \in Seq(Thread) : Order(e) /\ Undisturbed(e)
  BY DEF IInv
<1> DEFINE nx == get_list_next(cursor)
<1>2. /\ cursor # NULL /\ cursor \in Thread
      /\ UNCHANGED <<thread_list, list_next, unique_id, next_unique_id, life, callers>>
  BY DEF GetNext, IInv, TypeOK
<1>3. UNCHANGED <<pc, target, drawn>>
  BY <1>2 DEF callers
<1>4. Listed' = Listed
  BY <1>2, <1>3 DEF Listed, At
<1>5. OneCallerEach'
  BY <1>2, <1>3 DEF IInv, OneCallerEach, At
<1>6. Order(e)'
  BY <1>1, <1>2, <1>4, SameList
<1>7. CASE unique_id[cursor] = cursor_id /\ nx # NULL
  <2>1. /\ cursor' = nx /\ cursor_id' = unique_id[nx] /\ start' = start
        /\ shown' = [shown EXCEPT ![nx] = IF shown[nx] = 0 THEN 1 ELSE 2]
        /\ disturbed' = disturbed \cup IF cursor_id = 0 THEN {"id"} ELSE {}
    BY <1>7 DEF GetNext, Show
  <2>2. nx \in Thread
    BY <1>2, <1>7 DEF get_list_next, IInv, TypeOK
  <2> HIDE DEF nx
  <2>3. TypeOK'
    <3>1. shown' \in [Thread -> 0 .. 2]
      <4>1. (IF shown[nx] = 0 THEN 1 ELSE 2) \in 0 .. 2 /\ shown \in [Thread -> 0 .. 2]
        BY DEF IInv, TypeOK
      <4> QED
        BY <2>1, <2>2, <4>1
    <3>2. cursor' \in Thread /\ cursor_id' \in Id
      BY <2>1, <2>2 DEF IInv, TypeOK
    <3>3. disturbed' \in SUBSET {"order", "id", "overlap"}
      BY <2>1 DEF IInv, TypeOK
    <3> QED
      BY <1>2, <1>3, <2>1, <3>1, <3>2, <3>3 DEF IInv, TypeOK
  <2>4. StillThere'
    <3>1. SUFFICES ASSUME disturbed' \cap {"overlap", "id"} = {}
                   PROVE  cursor' \in Listed'
      BY DEF StillThere
    <3>2. disturbed \cap {"overlap", "id"} = {} /\ cursor_id # 0
      BY <2>1, <3>1
    <3> QED
      BY <1>2, <1>4, <1>7, <2>1, <3>2, NextListed DEF nx
  <2>5. Undisturbed(e)'
    <3>1. SUFFICES ASSUME "order" \notin disturbed'
                   PROVE  \E k \in 1 .. Len(e) : ShownUpTo(e, k)'
      BY <1>7, <2>1 DEF Undisturbed
    <3>2. PICK k \in 1 .. Len(e) : ShownUpTo(e, k)
      BY <1>1, <1>2, <2>1, <3>1 DEF Undisturbed
    <3>3. k < Len(e) /\ nx = e[k + 1] /\ k + 1 \in 1 .. Len(e)
      <4>1. cursor = e[k]
        BY <3>2 DEF ShownUpTo
      <4>2. k # Len(e)
        BY <1>1, <1>7, <4>1, NextOfList DEF IInv, nx
      <4>3. k < Len(e)
        BY <4>2
      <4> QED
        BY <1>1, <4>1, <4>3, NextOfList DEF IInv, nx
    <3>4. ASSUME NEW j \in 1 .. Len(e), e[j] \in start
          PROVE  shown'[e[j]] = IF j <= k + 1 THEN 1 ELSE 0
      <4>1. shown[e[j]] = IF j <= k THEN 1 ELSE 0
        BY <3>2, <3>4 DEF ShownUpTo
      <4>2. e[j] \in Thread /\ (e[j] = nx <=> j = k + 1)
        BY <1>1, <3>3 DEF Order, Ringed
      <4>3. CASE j = k + 1
        BY <2>1, <2>2, <4>1, <4>2, <4>3 DEF IInv, TypeOK
      <4>4. CASE j # k + 1
        <5>1. shown'[e[j]] = shown[e[j]]
          BY <2>1, <4>2, <4>4 DEF IInv, TypeOK
        <5> QED
          BY <4>1, <4>4, <5>1
      <4> QED
        BY <4>3, <4>4
    <3>5. start' \subseteq Listed' /\ cursor' = e[k + 1] /\ unique_id'[cursor'] = cursor_id'
      BY <1>2, <1>4, <2>1, <3>2, <3>3 DEF ShownUpTo
    <3>6. ShownUpTo(e, k + 1)'
      BY <2>1, <3>4, <3>5 DEF ShownUpTo
    <3> QED
      BY <3>3, <3>6
  <2> QED
    BY <1>5, <1>6, <2>3, <2>4, <2>5 DEF IInv
<1>8. CASE ~(unique_id[cursor] = cursor_id /\ nx # NULL)
  <2>1. /\ cursor' = NULL /\ cursor_id' = 0 /\ shown' = Unseen /\ start' = {} /\ disturbed' = {}
    BY <1>8 DEF GetNext, End
  <2>2. 0 \in Id /\ Unseen \in [Thread -> 0 .. 2]
    BY IdAssumption DEF Id, Unseen
  <2>3. TypeOK'
    BY <1>2, <1>3, <2>1, <2>2 DEF IInv, TypeOK
  <2>4. StillThere' /\ Undisturbed(e)'
    BY <2>1 DEF StillThere, Undisturbed
  <2> QED
    BY <1>5, <1>6, <2>3, <2>4 DEF IInv
<1> QED
  BY <1>7, <1>8

\* No step spoils the list or the enumeration.
LEMMA NextIInv ==
  ASSUME IInv, [Next]_vars
  PROVE  IInv'
<1>1. ASSUME NEW c \in Caller, NEW t \in Thread, ReadId(c, t) PROVE IInv'
  BY <1>1, ReadIdInv
<1>2. ASSUME NEW c \in Caller, NEW t \in Thread, Delete(c, t) PROVE IInv'
  BY <1>2, DeleteInv
<1>3. ASSUME NEW c \in Caller, WriteId(c) PROVE IInv'
  BY <1>3, WriteIdInv
<1>4. ASSUME NEW c \in Caller, AddToList(c) PROVE IInv'
  BY <1>4, AddToListInv
<1>5. ASSUME NEW c \in Caller, ZeroId(c) PROVE IInv'
  BY <1>5, ZeroIdInv
<1>6. ASSUME NEW t \in Thread, Exit(t) PROVE IInv'
  BY <1>6, ExitInv
<1>7. CASE GetFirst
  BY <1>7, GetFirstInv
<1>8. CASE GetNext
  BY <1>8, GetNextInv
<1>9. CASE UNCHANGED vars
  <2>1. /\ UNCHANGED <<thread_list, list_next, unique_id, next_unique_id, life>>
        /\ UNCHANGED <<pc, target, drawn>>
        /\ UNCHANGED <<cursor, cursor_id, shown, start, disturbed>>
    BY <1>9 DEF vars, callers, enumeration
  <2>2. Listed' = Listed
    BY <2>1 DEF Listed, At
  <2>3. TypeOK'
    BY <2>1 DEF IInv, TypeOK
  <2>4. OneCallerEach'
    BY <2>1 DEF IInv, OneCallerEach, At
  <2>5. StillThere'
    BY <2>1, <2>2, SameThere DEF IInv, At, enumeration
  <2>6. PICK e \in Seq(Thread) : Order(e) /\ Undisturbed(e)
    BY DEF IInv
  <2>7. Order(e)' /\ Undisturbed(e)'
    BY <2>1, <2>2, <2>6, SameList, SameShown DEF enumeration
  <2> QED
    BY <2>3, <2>4, <2>5, <2>7 DEF IInv
<1> QED
  BY <1>1, <1>2, <1>3, <1>4, <1>5, <1>6, <1>7, <1>8, <1>9 DEF Next

\* The induction over a behaviour.
LEMMA SpecIInv == Spec => []IInv
<1>1. IInv /\ [Next]_vars => IInv'
  BY NextIInv
<1> QED
  BY InitIInv, <1>1, PTL DEF Spec
-----------------------------------------------------------------------------
(***************************************************************************)
(* The properties.                                                         *)
(***************************************************************************)
\* A search meets the threads of the list in their order.
LEMMA WalkIs ==
  ASSUME TypeOK, NEW e \in Seq(Thread), Order(e)
  PROVE  /\ Tail(Ring) \o <<thread_list>> = e
         /\ list_next[Ring[Len(Ring)]] = thread_list
<1>1. PICK r \in Seq(Thread) :
         /\ Ring = r /\ Len(r) = Len(e) /\ r[1] = e[Len(e)]
         /\ \A k \in 1 .. Len(e) - 1 : r[k + 1] = e[k]
  BY RingIs
<1>2. PICK n \in Nat \ {0} : n = Len(e)
  BY DEF Order
<1>3. thread_list = e[n] /\ thread_list \in Thread
  BY <1>2 DEF Order, TypeOK
<1>4. list_next[r[n]] = thread_list
  <2>1. CASE n = 1
    BY <1>1, <1>2, <1>3, <2>1 DEF Order, Ringed
  <2>2. CASE n # 1
    <3>1. n - 1 \in 1 .. Len(e) - 1 /\ (n - 1) + 1 = n /\ n - 1 # Len(e) /\ n - 1 \in 1 .. Len(e)
      BY <1>2, <2>2
    <3>2. r[n] = e[n - 1]
      BY <1>1, <3>1
    <3> QED
      BY <1>3, <3>1, <3>2 DEF Order, Ringed
  <2> QED
    BY <2>1, <2>2
<1>5. /\ Tail(r) \in Seq(Thread) /\ Len(Tail(r)) = n - 1
      /\ \A k \in 1 .. n - 1 : Tail(r)[k] = r[k + 1]
  BY <1>1, <1>2
<1> DEFINE s == Tail(r)
           w == s \o <<thread_list>>
<1> HIDE DEF s
<1>6. /\ w \in Seq(Thread) /\ Len(w) = n /\ w[n] = thread_list
      /\ \A k \in 1 .. n - 1 : w[k] = s[k]
  BY <1>3, <1>5 DEF s
<1> HIDE DEF w
<1>7. \A k \in 1 .. n : w[k] = e[k]
  <2> TAKE k \in 1 .. n
  <2>1. CASE k = n
    BY <1>3, <1>6, <2>1
  <2>2. CASE k # n
    <3>1. k \in 1 .. n - 1 /\ k \in 1 .. Len(e) - 1
      BY <1>2, <2>2
    <3>2. w[k] = s[k] /\ s[k] = r[k + 1] /\ r[k + 1] = e[k]
      BY <1>1, <1>5, <1>6, <3>1 DEF s
    <3> QED
      BY <3>2
  <2> QED
    BY <2>1, <2>2
<1>8. w = e
  BY <1>2, <1>6, <1>7
<1> QED
  BY <1>1, <1>2, <1>4, <1>8 DEF s, w

\* A search for the id of a listed thread finds one that has it.
LEMMA FindRight ==
  ASSUME TypeOK, NEW e \in Seq(Thread), Order(e), NEW t \in Listed
  PROVE  unique_id[cyg_thread_find(unique_id[t])] = unique_id[t]
<1> DEFINE id == unique_id[t]
           hits == {i \in 1 .. Len(e) : unique_id[e[i]] = id}
           first == CHOOSE i \in hits : \A j \in hits : i <= j
<1>1. PICK k \in 1 .. Len(e) : e[k] = t
  BY DEF Order, Listed
<1>2. k \in hits /\ hits \in SUBSET Nat
  BY <1>1
<1> HIDE DEF hits
<1>3. \E i \in hits : \A j \in hits : i <= j
  <2> HIDE DEF first
  <2>1. hits # {}
    BY <1>2
  <2> QED
    BY <1>2, <2>1, Least, Zenon
<1>4. first \in hits
  BY <1>3
<1>5. cyg_thread_find(id) = e[first]
  <2>1. Tail(Ring) \o <<thread_list>> = e
    BY WalkIs
  <2>2. hits # {}
    BY <1>2
  <2> QED
    BY <2>1, <2>2, Zenon DEF cyg_thread_find, hits
<1> HIDE DEF first
<1>6. unique_id[e[first]] = id
  BY <1>4 DEF hits
<1> QED
  BY <1>5, <1>6

\* What the induction says of a state.
LEMMA IInvRing == IInv => RingExact
<1> SUFFICES ASSUME IInv PROVE RingExact
  OBVIOUS
<1>1. PICK e \in Seq(Thread) : Order(e)
  BY DEF IInv
<1>2. TypeOK
  BY DEF IInv
<1>3. Members = Listed
  BY <1>1, <1>2, MembersListed
<1>4. list_next[Ring[Len(Ring)]] = thread_list
  BY <1>1, <1>2, WalkIs
<1>5. \A t \in Listed : unique_id[cyg_thread_find(unique_id[t])] = unique_id[t]
  BY <1>1, <1>2, FindRight
<1> QED
  BY <1>3, <1>4, <1>5 DEF RingExact

\* The links always lead round exactly the threads on the list and back, and a
\* search for an id that a listed thread has finds one with that id, whoever
\* creates, resumes and deletes threads at the same time (kapi.cxx:369).
THEOREM AlwaysRingExact == Spec => []RingExact
  BY SpecIInv, IInvRing, PTL

\* Only cyg_thread_get_next moves the cursor.
LEMMA CursorMoves ==
  ASSUME [Next]_vars, cursor # NULL, cursor' # cursor
  PROVE  GetNext
<1>1. ASSUME NEW c \in Caller, NEW t \in Thread, ReadId(c, t) PROVE cursor' = cursor
  BY <1>1 DEF ReadId, enumeration
<1>2. ASSUME NEW c \in Caller, NEW t \in Thread, Delete(c, t) PROVE cursor' = cursor
  BY <1>2 DEF Delete
<1>3. ASSUME NEW c \in Caller, WriteId(c) \/ AddToList(c) \/ ZeroId(c) PROVE cursor' = cursor
  BY <1>3 DEF WriteId, AddToList, ZeroId, Disturb, enumeration
<1>4. ~GetFirst
  BY DEF GetFirst
<1>5. ASSUME NEW t \in Thread, Exit(t) PROVE cursor' = cursor
  BY <1>5 DEF Exit, enumeration
<1>6. UNCHANGED vars => cursor' = cursor
  BY DEF vars, enumeration
<1> QED
  BY <1>1, <1>2, <1>3, <1>4, <1>5, <1>6 DEF Next

\* An enumeration that ends undisturbed has come to the end of the list.
LEMMA EndRight ==
  ASSUME IInv, [Next]_vars, cursor # NULL, cursor' = NULL, "order" \notin disturbed
  PROVE  \A t \in start : shown[t] = 1
<1>1. PICK e \in Seq(Thread) : Order(e) /\ Undisturbed(e)
  BY DEF IInv
<1>2. GetNext
  BY CursorMoves
<1>3. PICK k \in 1 .. Len(e) : ShownUpTo(e, k)
  BY <1>1 DEF Undisturbed
<1>4. cursor = e[k] /\ unique_id[cursor] = cursor_id
  BY <1>3 DEF ShownUpTo
<1>5. get_list_next(cursor) = NULL
  BY <1>2, <1>4 DEF GetNext, Show
<1>6. k = Len(e)
  <2>1. ~(k < Len(e))
    BY <1>1, <1>4, <1>5, NextOfList, ListAssumption DEF IInv
  <2> QED
    BY <2>1
<1> TAKE t \in start
<1>7. t \in Listed /\ t \in Thread
  BY <1>3 DEF ShownUpTo, Listed
<1>8. PICK j \in 1 .. Len(e) : e[j] = t
  BY <1>1, <1>7 DEF Order
<1>9. j <= k
  BY <1>6
<1> QED
  BY <1>3, <1>8, <1>9 DEF ShownUpTo

\* An enumeration shows every thread that was listed all the time, once, though
\* others are created and deleted between its calls (kapi.cxx:342).
THEOREM AlwaysEnumerationRight == Spec => EnumerationRight
<1>1. IInv /\ [Next]_vars
        => [cursor # NULL /\ cursor' = NULL /\ "order" \notin disturbed
              => \A t \in start : shown[t] = 1]_vars
  BY EndRight
<1> QED
  BY SpecIInv, <1>1, PTL DEF Spec, EnumerationRight

\* A call shows a thread that is listed, or it has shown one before that was
\* created anew or had no id, or two deletions overlapped.
LEMMA ShowsListed ==
  ASSUME IInv, [Next]_vars, cursor # NULL, cursor' \notin {NULL, cursor}
  PROVE  cursor' \in Listed \/ disturbed' \cap {"overlap", "id"} # {}
<1>1. GetNext
  BY CursorMoves
<1>2. /\ unique_id[cursor] = cursor_id /\ get_list_next(cursor) # NULL
      /\ cursor' = get_list_next(cursor)
      /\ disturbed' = disturbed \cup IF cursor_id = 0 THEN {"id"} ELSE {}
  BY <1>1 DEF GetNext, Show, End
<1>3. CASE disturbed' \cap {"overlap", "id"} = {}
  <2>1. disturbed \cap {"overlap", "id"} = {} /\ cursor_id # 0
    BY <1>2, <1>3
  <2> QED
    BY <1>2, <2>1, NextListed
<1> QED
  BY <1>3

\* The thread a call shows is on the list, unless the id could not tell
\* (kapi.cxx:347).
THEOREM AlwaysShownAlive == Spec => ShownAlive
<1>1. IInv /\ [Next]_vars
        => [cursor # NULL /\ cursor' \notin {NULL, cursor}
              => cursor' \in Listed \/ disturbed' \cap {"overlap", "id"} # {}]_vars
  BY ShowsListed
<1> QED
  BY SpecIInv, <1>1, PTL DEF Spec, ShownAlive
=============================================================================
