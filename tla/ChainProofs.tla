----------------------------- MODULE ChainProofs -----------------------------
(***************************************************************************)
(* Proofs about Dsr and Chain, for any objects, vectors and chains: the    *)
(* pointers of the list of DSRs stay those of a list, whatever is posted   *)
(* while DSRs run, so that the assertions of intr.cxx hold and the list    *)
(* implements a queue; the ISRs do nothing to that list but post, so that  *)
(* this holds with chains too; no ISR is missed while its chain changes;   *)
(* and interrupts stay disabled from the first disable_interrupts to the   *)
(* last enable_interrupts.                                                 *)
(***************************************************************************)
EXTENDS Chain, LinksProofs


(***************************************************************************)
(* The inductive invariant says of two lists, the one at dsr_list and the  *)
(* one at next, what can be said of each link alone: a link only joins     *)
(* posted interrupts, no interrupt is linked to twice, and the list posts  *)
(* are added to, the interrupts of the set L, is apart from the list       *)
(* taken.  That the tail is in L is what makes it safe to add behind it    *)
(* while the other list is being worked off.                               *)
(***************************************************************************)
OnlyPosted ==
  /\ dsr_list # NULL => dsr_count[dsr_list] > 0
  /\ next # NULL => dsr_count[next] > 0
  /\ \A i \in Interrupt : next_dsr[i] # NULL => dsr_count[i] > 0 /\ dsr_count[next_dsr[i]] > 0

LinkedOnce ==
  /\ dsr_list # NULL => dsr_list # next
  /\ \A i \in Interrupt : next_dsr[i] # NULL =>
       /\ next_dsr[i] # dsr_list
       /\ next_dsr[i] # next
       /\ \A j \in Interrupt : next_dsr[i] = next_dsr[j] => i = j

\* L is closed under the links in both directions and has the head and the
\* tail, if any, the tail being without a link.
Apart(L) ==
  /\ dsr_list # NULL => dsr_list \in L
  /\ dsr_list_tail # NULL => /\ dsr_list_tail \in L
                             /\ dsr_count[dsr_list_tail] > 0
                             /\ next_dsr[dsr_list_tail] = NULL
  /\ dsr_list = NULL => L = {}
  /\ next \notin L
  /\ \A i \in Interrupt : next_dsr[i] # NULL => (i \in L <=> next_dsr[i] \in L)

IInv ==
  /\ TypeOK
  /\ TailMatchesHead
  /\ CalledWithPosts
  /\ pc = "idle" => next = NULL
  /\ OnlyPosted
  /\ LinkedOnce
  /\ \E L \in SUBSET Interrupt : Apart(L)
-----------------------------------------------------------------------------
\* The lists are empty at the start.
LEMMA InitIInv == Init => IInv
<1> SUFFICES ASSUME Init PROVE IInv
  OBVIOUS
<1>1. TypeOK /\ TailMatchesHead /\ CalledWithPosts /\ (pc = "idle" => next = NULL)
  BY DEF Init, TypeOK, Pointer, TailMatchesHead, CalledWithPosts
<1>2. OnlyPosted /\ LinkedOnce
  BY DEF Init, OnlyPosted, LinkedOnce
<1>3. Apart({})
  BY NullAssumption DEF Init, Apart
<1> QED
  BY <1>1, <1>2, <1>3 DEF IInv

\* Taking an interrupt nothing links to, the head of its list, leaves the
\* links a list, and the interrupts of L too when it is not in L.
LEMMA TakeKeeps ==
  ASSUME TypeOK, OnlyPosted, LinkedOnce, NEW i \in Interrupt, Take(i),
         dsr_count[i] > 0,
         next = NULL \/ next = i,
         \A j \in Interrupt : next_dsr[j] # i,
         dsr_list' = NULL \/ (dsr_list' = dsr_list /\ dsr_list # i)
  PROVE  OnlyPosted' /\ LinkedOnce'
<1>1. /\ next_dsr' \in [Interrupt -> Pointer] /\ next_dsr'[i] = NULL
      /\ \A j \in Interrupt \ {i} : next_dsr'[j] = next_dsr[j]
      /\ dsr_count'[i] = 0
      /\ \A j \in Interrupt \ {i} : dsr_count'[j] = dsr_count[j]
      /\ next' = next_dsr[i]
  BY DEF Take, TypeOK, Pointer
<1>2. next' # i /\ next' \in Pointer
  BY <1>1 DEF TypeOK
<1>3. OnlyPosted'
  BY <1>1, <1>2 DEF OnlyPosted, TypeOK, Pointer
<1>4. LinkedOnce'
  BY <1>1, <1>2 DEF LinkedOnce, TypeOK, Pointer
<1> QED
  BY <1>3, <1>4

\* Every step preserves the invariant.
LEMMA NextIInv == IInv /\ [Next]_vars => IInv'
<1> SUFFICES ASSUME IInv, [Next]_vars PROVE IInv'
  OBVIOUS
<1> USE NullAssumption
<1>1. PICK L \in SUBSET Interrupt : Apart(L)
  BY DEF IInv
<1>2. CASE call_pending_DSRs
  <2>1. /\ dsr_list \in Interrupt /\ dsr_count[dsr_list] > 0
        /\ Take(dsr_list) /\ dsr_list' = NULL /\ next = NULL
        /\ \A j \in Interrupt : next_dsr[j] # dsr_list
    BY <1>2 DEF call_pending_DSRs, IInv, TypeOK, Pointer, OnlyPosted, LinkedOnce
  <2>2. OnlyPosted' /\ LinkedOnce'
    BY <2>1, TakeKeeps DEF IInv
  <2>3. TypeOK' /\ TailMatchesHead' /\ CalledWithPosts'
    BY <1>2, <2>1 DEF call_pending_DSRs, Take, IInv, TypeOK, Pointer, TailMatchesHead,
                      CalledWithPosts
  <2>4. Apart({})'
    BY <1>2, <2>1 DEF call_pending_DSRs, Apart
  <2> QED
    BY <1>2, <2>2, <2>3, <2>4 DEF call_pending_DSRs, IInv
<1>3. CASE DsrReturns
  <2>1. CASE next = NULL
    <3>1. UNCHANGED <<dsr_list, dsr_list_tail, next_dsr, dsr_count, intr, next, count>>
          /\ pc' = "idle"
      BY <1>3, <2>1 DEF DsrReturns
    <3> QED
      BY <1>1, <2>1, <3>1 DEF IInv, TypeOK, TailMatchesHead, CalledWithPosts, OnlyPosted,
                              LinkedOnce, Apart
  <2>2. CASE next # NULL
    <3>1. /\ next \in Interrupt /\ dsr_count[next] > 0 /\ Take(next)
          /\ dsr_list' = dsr_list /\ dsr_list_tail' = dsr_list_tail /\ pc' = "dsr"
          /\ dsr_list # next
          /\ \A j \in Interrupt : next_dsr[j] # next
      BY <1>3, <2>2 DEF DsrReturns, IInv, TypeOK, Pointer, OnlyPosted, LinkedOnce
    <3>2. OnlyPosted' /\ LinkedOnce'
      BY <3>1, TakeKeeps DEF IInv
    <3>3. TypeOK' /\ TailMatchesHead' /\ CalledWithPosts'
      BY <3>1 DEF Take, IInv, TypeOK, Pointer, TailMatchesHead, CalledWithPosts
    <3>4. Apart(L)'
      BY <1>1, <3>1 DEF Take, Apart, IInv, TypeOK, Pointer
    <3> QED
      BY <3>1, <3>2, <3>3, <3>4 DEF IInv
  <2> QED
    BY <2>1, <2>2
<1>4. ASSUME NEW i \in Interrupt, post_dsr(i) PROVE IInv'
  <2>1. CASE dsr_count[i] > 0
    <3>1. /\ UNCHANGED <<dsr_list, dsr_list_tail, next_dsr, intr, next, count, pc>>
          /\ dsr_count' \in [Interrupt -> Nat]
          /\ \A j \in Interrupt : dsr_count[j] > 0 => dsr_count'[j] > 0
      BY <1>4, <2>1 DEF post_dsr, IInv, TypeOK
    <3>2. TypeOK' /\ TailMatchesHead' /\ CalledWithPosts' /\ (pc' = "idle" => next' = NULL)
      BY <3>1 DEF IInv, TypeOK, TailMatchesHead, CalledWithPosts
    <3>3. OnlyPosted' /\ LinkedOnce'
      BY <3>1 DEF IInv, TypeOK, Pointer, OnlyPosted, LinkedOnce
    <3>4. Apart(L)'
      BY <1>1, <3>1 DEF IInv, TypeOK, Pointer, Apart
    <3> QED
      BY <3>2, <3>3, <3>4 DEF IInv
  <2>2. CASE ~(dsr_count[i] > 0)
    <3>1. /\ dsr_list # i /\ next # i /\ next_dsr[i] = NULL
          /\ dsr_list_tail # i
          /\ \A j \in Interrupt : next_dsr[j] # i
      BY <1>1, <2>2 DEF IInv, OnlyPosted, Apart, TypeOK, Pointer
    <3>2. /\ dsr_list_tail' = i /\ UNCHANGED <<intr, next, count, pc>>
          /\ dsr_count' \in [Interrupt -> Nat] /\ dsr_count'[i] > 0
          /\ \A j \in Interrupt \ {i} : dsr_count'[j] = dsr_count[j]
      BY <1>4, <2>2 DEF post_dsr, IInv, TypeOK
    <3>3. CASE dsr_list_tail = NULL
      <4>1. dsr_list = NULL /\ dsr_list' = i /\ next_dsr' = next_dsr
        BY <1>4, <2>2, <3>3 DEF post_dsr, IInv, TailMatchesHead
      <4>2. TypeOK' /\ TailMatchesHead' /\ CalledWithPosts' /\ (pc' = "idle" => next' = NULL)
        BY <3>2, <4>1 DEF IInv, TypeOK, Pointer, TailMatchesHead, CalledWithPosts
      <4>3. OnlyPosted' /\ LinkedOnce'
        BY <3>1, <3>2, <4>1 DEF IInv, TypeOK, Pointer, OnlyPosted, LinkedOnce
      <4>4. Apart({i})'
        BY <1>1, <3>1, <3>2, <4>1 DEF IInv, TypeOK, Pointer, Apart
      <4> QED
        BY <4>2, <4>3, <4>4 DEF IInv
    <3>4. CASE dsr_list_tail # NULL
      <4>1. /\ dsr_list # NULL /\ dsr_list' = dsr_list
            /\ dsr_list_tail \in Interrupt
            /\ dsr_count[dsr_list_tail] > 0
            /\ next_dsr[dsr_list_tail] = NULL
            /\ next_dsr' = [next_dsr EXCEPT ![dsr_list_tail] = i]
        BY <1>1, <1>4, <2>2, <3>4 DEF post_dsr, IInv, TypeOK, Pointer, TailMatchesHead, Apart
      <4>2. TypeOK' /\ TailMatchesHead' /\ CalledWithPosts' /\ (pc' = "idle" => next' = NULL)
        BY <3>2, <4>1 DEF IInv, TypeOK, Pointer, TailMatchesHead, CalledWithPosts
      <4>3. OnlyPosted' /\ LinkedOnce'
        BY <3>1, <3>2, <4>1 DEF IInv, TypeOK, Pointer, OnlyPosted, LinkedOnce
      <4>4. Apart(L \cup {i})'
        BY <1>1, <3>1, <3>2, <3>4, <4>1 DEF IInv, TypeOK, Pointer, Apart
      <4> QED
        BY <4>2, <4>3, <4>4 DEF IInv
    <3> QED
      BY <3>3, <3>4
  <2> QED
    BY <2>1, <2>2
<1>5. CASE UNCHANGED vars
  BY <1>1, <1>5 DEF vars, IInv, TypeOK, TailMatchesHead, CalledWithPosts, OnlyPosted,
                    LinkedOnce, Apart
<1> QED
  BY <1>2, <1>3, <1>4, <1>5 DEF Next

\* The invariant holds in every state.
LEMMA SpecIInv == Spec => []IInv
  BY InitIInv, NextIInv, PTL DEF Spec
-----------------------------------------------------------------------------
\* Type correctness of the interrupt objects' links and counts.
THEOREM TypeCorrect == Spec => []TypeOK
<1>1. IInv => TypeOK
  BY DEF IInv
<1> QED
  BY <1>1, SpecIInv, PTL

\* The assertions of post_dsr (intr.cxx:291-298) never fail: the tail is NULL
\* exactly when the list is empty.
THEOREM TailAlwaysMatchesHead == Spec => []TailMatchesHead
<1>1. IInv => TailMatchesHead
  BY DEF IInv
<1> QED
  BY <1>1, SpecIInv, PTL

\* The assertion of call_pending_DSRs_inner (intr.cxx:193) never fails: an
\* interrupt taken off the list has posts to be called with, however many
\* arrive while the DSRs before it run.
THEOREM AlwaysCalledWithPosts == Spec => []CalledWithPosts
<1>1. IInv => CalledWithPosts
  BY DEF IInv
<1> QED
  BY <1>1, SpecIInv, PTL
-----------------------------------------------------------------------------
(***************************************************************************)
(* The list implements the queue of DsrQueue.  The invariant names the     *)
(* interrupts of the part taken off the list, in order, and those of the   *)
(* list: together they are the interrupts posted, each once.               *)
(***************************************************************************)
OnLists(taken, listed) ==
  /\ Path(next_dsr, NULL, next, taken)
  /\ Path(next_dsr, NULL, dsr_list, listed)
  /\ \A j \in 1 .. Len(taken) : \A k \in 1 .. Len(listed) : taken[j] # listed[k]
  /\ listed # <<>> => dsr_list_tail = listed[Len(listed)]
  /\ \A i \in Interrupt :
       dsr_count[i] > 0 <=> \/ \E k \in 1 .. Len(taken) : taken[k] = i
                            \/ \E k \in 1 .. Len(listed) : listed[k] = i

QInv == IInv /\ \E taken, listed \in Seq(Interrupt) : OnLists(taken, listed)

\* Waiting, for given links.
Joined(link, first, head, label) ==
  (IF label = "dsr" THEN Linked(link, NULL, first) ELSE <<>>) \o Linked(link, NULL, head)

\* What the loops along the links meet is what is on the lists.
LEMMA LoopsMeet ==
  ASSUME NEW link, NEW first, NEW head, NEW label,
         NEW taken \in Seq(Interrupt), NEW listed \in Seq(Interrupt),
         DOMAIN link = Interrupt, label = "dsr" \/ first = NULL,
         Path(link, NULL, first, taken), Path(link, NULL, head, listed)
  PROVE  Joined(link, first, head, label) = taken \o listed
<1>1. Linked(link, NULL, first) = taken /\ Linked(link, NULL, head) = listed
  BY NullAssumption, LinkedIsPath
<1>2. CASE label = "dsr"
  BY <1>1, <1>2 DEF Joined
<1>3. CASE label # "dsr"
  <2>1. taken = <<>>
    BY <1>3, NullAssumption, PathEmpty
  <2> QED
    BY <1>1, <1>3, <2>1 DEF Joined
<1> QED
  BY <1>2, <1>3

\* Taking the first interrupt of a list leaves the rest of it.
LEMMA TakeFirst ==
  ASSUME IInv, NEW i \in Interrupt, Take(i),
         NEW s \in Seq(Interrupt), s # <<>>, Path(next_dsr, NULL, i, s)
  PROVE  /\ Path(next_dsr', NULL, next', Tail(s)) /\ Tail(s) \in Seq(Interrupt)
         /\ Head(s) = i
<1>1. /\ Path(next_dsr, NULL, next_dsr[i], Tail(s)) /\ Head(s) = i
      /\ \A k \in 1 .. Len(Tail(s)) : Tail(s)[k] # i
  BY PathTail
<1>2. Tail(s) \in Seq(Interrupt)
  OBVIOUS
<1>3. \A k \in 1 .. Len(Tail(s)) : next_dsr'[Tail(s)[k]] = next_dsr[Tail(s)[k]]
  <2> TAKE k \in 1 .. Len(Tail(s))
  <2>1. Tail(s)[k] \in Interrupt /\ Tail(s)[k] # i
    BY <1>1, <1>2, ElementOfSeq
  <2> QED
    BY <2>1 DEF Take, IInv, TypeOK
<1>4. Path(next_dsr', NULL, next_dsr[i], Tail(s))
  BY <1>1, <1>2, <1>3, PathSame
<1> QED
  BY <1>1, <1>2, <1>4 DEF Take

\* At the start both are empty.
LEMMA InitQueue == Init => QInv /\ Queue!Init
<1> SUFFICES ASSUME Init PROVE QInv /\ Queue!Init
  OBVIOUS
<1>1. IInv
  BY InitIInv
<1>2. <<>> \in Seq(Interrupt) /\ Len(<<>>) = 0
  OBVIOUS
<1>3. Path(next_dsr, NULL, NULL, <<>>)
  BY <1>2 DEF Path, Item
<1>4. OnLists(<<>>, <<>>)
  BY <1>2, <1>3 DEF Init, OnLists
<1>5. DOMAIN next_dsr = Interrupt /\ dsr_list = NULL /\ next = NULL /\ pc = "idle"
  BY DEF Init
<1>6. ASSUME NEW s \in Seq(Interrupt), s = <<>> PROVE Waiting = s \o s
  <2>1. Path(next_dsr, NULL, next, s) /\ Path(next_dsr, NULL, dsr_list, s)
    BY <1>3, <1>5, <1>6
  <2>2. pc = "dsr" \/ next = NULL
    BY <1>5
  <2>3. Joined(next_dsr, next, dsr_list, pc) = s \o s
    <3>1. DOMAIN next_dsr = Interrupt
      BY <1>5
    <3> QED
      BY <2>1, <2>2, <3>1, LoopsMeet
  <2> QED
    BY <2>3 DEF Waiting, Joined
<1>7. Waiting = <<>>
  <2>1. PICK s \in Seq(Interrupt) : s = <<>>
    BY <1>2
  <2>2. s \o s = <<>>
    BY <2>1
  <2> QED
    BY <1>6, <2>1, <2>2
<1>8. Queue!Init
  BY <1>7 DEF Queue!Init, Init, Running
<1> QED
  BY <1>1, <1>2, <1>4, <1>8 DEF QInv

\* The first of the interrupts on the two lists, and the others.
LEMMA FirstOnLists ==
  ASSUME NEW s \in Seq(Interrupt), NEW t \in Seq(Interrupt), s # <<>>
  PROVE  s \o t # <<>> /\ Head(s \o t) = Head(s) /\ Tail(s \o t) = Tail(s) \o t
<1>1. s \o t # <<>>
  BY ConcatProperties
<1>2. Head(s \o t) = Head(s)
  OBVIOUS
<1>3. Tail(s \o t) = Tail(s) \o t
  OBVIOUS
<1> QED
  BY <1>1, <1>2, <1>3

\* What the queue of DsrQueue is before and after a step.
LEMMA QueueIs ==
  ASSUME IInv, NEW taken \in Seq(Interrupt), NEW listed \in Seq(Interrupt),
         OnLists(taken, listed), IInv',
         NEW taken2 \in Seq(Interrupt), NEW listed2 \in Seq(Interrupt),
         OnLists(taken2, listed2)'
  PROVE  Waiting = taken \o listed /\ Waiting' = taken2 \o listed2
<1>1. DOMAIN next_dsr = Interrupt /\ (pc = "dsr" \/ next = NULL)
  BY DEF IInv, TypeOK
<1>2. DOMAIN next_dsr' = Interrupt /\ (pc' = "dsr" \/ next' = NULL)
  BY DEF IInv, TypeOK
<1>3. Joined(next_dsr, next, dsr_list, pc) = taken \o listed
  <2>1. Path(next_dsr, NULL, next, taken) /\ Path(next_dsr, NULL, dsr_list, listed)
    BY DEF OnLists
  <2> QED
    BY <1>1, <2>1, LoopsMeet
<1>4. /\ Path(next_dsr', NULL, next', taken2)
      /\ Path(next_dsr', NULL, dsr_list', listed2)
  BY DEF OnLists
<1>5. Joined(next_dsr', next', dsr_list', pc') = taken2 \o listed2
  BY <1>2, <1>4, LoopsMeet
<1> QED
  BY <1>3, <1>5 DEF Waiting, Joined

\* A post is a post of the queue.
LEMMA PostQueue ==
  ASSUME QInv, IInv', NEW i \in Interrupt, post_dsr(i)
  PROVE  QInv' /\ Queue!Post(i)
<1>1. PICK taken \in Seq(Interrupt), listed \in Seq(Interrupt) : OnLists(taken, listed)
  BY DEF QInv
<1> USE NullAssumption
<1>2. /\ dsr_count[i] < MaxPosts /\ dsr_count' = [dsr_count EXCEPT ![i] = @ + 1]
      /\ UNCHANGED <<intr, next, count, pc>> /\ Running' = Running
      /\ dsr_count \in [Interrupt -> Nat]
  BY DEF post_dsr, Running, QInv, IInv, TypeOK
<1>3. CASE dsr_count[i] > 0
  <2>1. UNCHANGED <<dsr_list, dsr_list_tail, next_dsr>>
    BY <1>3 DEF post_dsr
  <2>2. \A j \in Interrupt : dsr_count'[j] > 0 <=> dsr_count[j] > 0
    BY <1>2, <1>3
  <2>3. OnLists(taken, listed)'
    <3>1. next' = next /\ next_dsr' = next_dsr /\ dsr_list' = dsr_list
          /\ dsr_list_tail' = dsr_list_tail
      BY <1>2, <2>1
    <3> QED
      BY <1>1, <2>2, <3>1 DEF OnLists
  <2>4. Waiting = taken \o listed /\ Waiting' = taken \o listed
    BY <1>1, <2>3, QueueIs DEF QInv
  <2> QED
    BY <1>2, <1>3, <2>3, <2>4 DEF QInv, Queue!Post
<1>4. CASE ~(dsr_count[i] > 0)
  <2> DEFINE longer == Append(listed, i)
  <2>1. PICK n \in Nat : n = Len(listed)
    OBVIOUS
  <2>2. /\ longer \in Seq(Interrupt) /\ Len(longer) = n + 1 /\ longer[n + 1] = i
        /\ \A k \in 1 .. n : longer[k] = listed[k]
    BY <2>1
  <2>3. next_dsr[i] = NULL /\ next_dsr \in [Interrupt -> Interrupt \cup {NULL}]
    BY <1>4 DEF QInv, IInv, TypeOK, Pointer, OnlyPosted
  <2>4. \A k \in 1 .. Len(taken) : taken[k] # i /\ taken[k] \in Interrupt
    BY <1>1, <1>4 DEF OnLists
  <2>5. \A k \in 1 .. Len(listed) : listed[k] # i /\ listed[k] \in Interrupt
    BY <1>1, <1>4 DEF OnLists
  <2>6. dsr_list_tail' = i /\ (dsr_list_tail = NULL <=> dsr_list = NULL)
    BY <1>4 DEF post_dsr, QInv, IInv, TailMatchesHead
  <2>7. Path(next_dsr', NULL, dsr_list', longer) /\ Path(next_dsr', NULL, next, taken)
    <3>1. CASE listed = <<>>
      <4>1. dsr_list = NULL
        <5>1. Len(listed) = 0
          BY <3>1
        <5> QED
          BY <1>1, <5>1 DEF OnLists, Path, Item
      <4>2. dsr_list' = i /\ next_dsr' = next_dsr
        BY <1>4, <2>6, <4>1 DEF post_dsr
      <4>3. n = 0 /\ longer[1] = i /\ Len(longer) = 1
        BY <2>1, <2>2, <3>1
      <4> HIDE DEF longer
      <4>4. Path(next_dsr', NULL, dsr_list', longer)
        BY <2>3, <4>2, <4>3 DEF Path, Item
      <4> QED
        BY <1>1, <4>2, <4>4 DEF OnLists
    <3>2. CASE listed # <<>>
      <4>1. dsr_list # NULL
        BY <1>1, <3>2, PathEmpty DEF OnLists
      <4>2. /\ dsr_list_tail = listed[Len(listed)] /\ dsr_list' = dsr_list
            /\ next_dsr' = [next_dsr EXCEPT ![dsr_list_tail] = i]
        BY <1>1, <1>4, <2>6, <3>2, <4>1 DEF post_dsr, OnLists
      <4>3. /\ listed[Len(listed)] \in Interrupt
            /\ Path([next_dsr EXCEPT ![listed[Len(listed)]] = i], NULL, dsr_list, longer)
        BY <1>1, <2>3, <2>5, <3>2, PathAppend DEF OnLists
      <4>4. Len(listed) \in 1 .. Len(listed)
        BY <3>2
      <4>5. \A k \in 1 .. Len(taken) : taken[k] # listed[Len(listed)]
        BY <1>1, <4>4 DEF OnLists
      <4>6. \A k \in 1 .. Len(taken) : next_dsr'[taken[k]] = next_dsr[taken[k]]
        BY <2>3, <2>4, <4>2, <4>5
      <4>7. Path(next_dsr', NULL, next, taken)
        BY <1>1, <4>6, PathSame DEF OnLists
      <4> QED
        BY <4>2, <4>3, <4>7
    <3> QED
      BY <3>1, <3>2
  <2> HIDE DEF longer
  <2>8. \A j \in 1 .. Len(taken) : \A k \in 1 .. Len(longer) : taken[j] # longer[k]
    <3> TAKE j \in 1 .. Len(taken)
    <3> TAKE k \in 1 .. Len(longer)
    <3>1. k \in 1 .. n \/ k = n + 1
      BY <2>1, <2>2
    <3> QED
      BY <1>1, <2>1, <2>2, <2>4, <3>1 DEF OnLists
  <2>9. ASSUME NEW j \in Interrupt
        PROVE  dsr_count'[j] > 0 <=> \/ \E k \in 1 .. Len(taken) : taken[k] = j
                                     \/ \E k \in 1 .. Len(longer) : longer[k] = j
    <3>1. CASE j = i
      <4>1. dsr_count'[i] > 0 /\ n + 1 \in 1 .. Len(longer)
        BY <1>2, <2>1, <2>2
      <4> QED
        BY <2>2, <3>1, <4>1
    <3>2. CASE j # i
      <4>1. dsr_count'[j] = dsr_count[j]
        BY <1>2, <3>2
      <4>2. (\E k \in 1 .. Len(longer) : longer[k] = j) <=> \E k \in 1 .. n : listed[k] = j
        <5>1. ASSUME NEW k \in 1 .. Len(longer), longer[k] = j PROVE k \in 1 .. n /\ listed[k] = j
          BY <2>1, <2>2, <3>2, <5>1
        <5>2. ASSUME NEW k \in 1 .. n, listed[k] = j PROVE k \in 1 .. Len(longer) /\ longer[k] = j
          BY <2>1, <2>2, <5>2
        <5> QED
          BY <5>1, <5>2
      <4> QED
        BY <1>1, <2>1, <4>1, <4>2 DEF OnLists
    <3> QED
      BY <3>1, <3>2
  <2>10. OnLists(taken, longer)'
    <3>1. longer[Len(longer)] = i
      BY <2>2
    <3>2. next' = next
      BY <1>2
    <3> QED
      BY <2>6, <2>7, <2>8, <2>9, <3>1, <3>2 DEF OnLists
  <2>11. Waiting = taken \o listed /\ Waiting' = taken \o longer
    BY <1>1, <2>2, <2>10, QueueIs DEF QInv
  <2>12. taken \o longer = Append(taken \o listed, i)
    BY DEF longer
  <2>13. dsr_count[i] = 0
    BY <1>2, <1>4
  <2> QED
    BY <1>2, <2>2, <2>10, <2>11, <2>12, <2>13 DEF QInv, Queue!Post
<1> QED
  BY <1>3, <1>4

\* The interrupts on the lists are those of s, which begins with i, and those
\* of rest.
Split(i, s, rest) ==
  /\ s # <<>> /\ Path(next_dsr, NULL, i, s)
  /\ \A j \in 1 .. Len(s) : \A k \in 1 .. Len(rest) : s[j] # rest[k]
  /\ \A j \in Interrupt : dsr_count[j] > 0 <=> \/ \E k \in 1 .. Len(s) : s[k] = j
                                               \/ \E k \in 1 .. Len(rest) : rest[k] = j

\* An interrupt that is taken off the front of a list is on none, the others
\* stay where they are.
LEMMA TakeQueue ==
  ASSUME QInv, IInv', NEW i \in Interrupt, Take(i), pc' = "dsr",
         NEW s \in Seq(Interrupt), NEW rest \in Seq(Interrupt), Split(i, s, rest),
         Waiting = s \o rest,
         Path(next_dsr', NULL, dsr_list', rest),
         rest = <<>> \/ dsr_list_tail' = rest[Len(rest)]
  PROVE  /\ QInv'
         /\ Waiting # <<>> /\ i = Head(Waiting) /\ Waiting' = Tail(Waiting)
         /\ Running' = {[intr |-> i, count |-> dsr_count[i]]}
         /\ dsr_count' = [dsr_count EXCEPT ![i] = 0]
<1> USE DEF Split
<1> DEFINE v == Tail(s)
<1>1. /\ Path(next_dsr', NULL, next', v) /\ v \in Seq(Interrupt) /\ Head(s) = i
  BY TakeFirst DEF QInv
<1>2. PICK n \in Nat \ {0} : n = Len(s)
  OBVIOUS
<1>3. Len(v) = n - 1 /\ s[1] = i /\ \A k \in 1 .. n - 1 : v[k] = s[k + 1]
  BY <1>1, <1>2, HeadTailProperties
<1>4. v \o rest = Tail(s \o rest) /\ Head(s \o rest) = i /\ s \o rest # <<>>
  BY <1>1, FirstOnLists
<1> HIDE DEF v
<1>5. \A j \in 1 .. Len(v) : j + 1 \in 1 .. Len(s) /\ v[j] = s[j + 1] /\ v[j] # i
  <2> TAKE j \in 1 .. Len(v)
  <2>1. j \in 1 .. n - 1 /\ j + 1 \in 1 .. Len(s) /\ 1 \in 1 .. Len(s) /\ j + 1 # 1
    BY <1>2, <1>3
  <2>2. s[j + 1] # s[1]
    BY <2>1 DEF Path
  <2> QED
    BY <1>3, <2>1, <2>2
<1>6. \A j \in 1 .. Len(v) : \A k \in 1 .. Len(rest) : v[j] # rest[k]
  BY <1>5
<1>7. ASSUME NEW j \in Interrupt
      PROVE  dsr_count'[j] > 0 <=> \/ \E k \in 1 .. Len(v) : v[k] = j
                                   \/ \E k \in 1 .. Len(rest) : rest[k] = j
  <2>1. dsr_count' = [dsr_count EXCEPT ![i] = 0] /\ dsr_count \in [Interrupt -> Nat]
    BY DEF Take, QInv, IInv, TypeOK
  <2>2. CASE j = i
    <3>1. ~(dsr_count'[j] > 0)
      BY <2>1, <2>2
    <3>2. 1 \in 1 .. Len(s)
      BY <1>2
    <3>3. \A k \in 1 .. Len(rest) : rest[k] # i
      BY <1>3, <3>2
    <3> QED
      BY <1>5, <2>2, <3>1, <3>3
  <2>3. CASE j # i
    <3>1. dsr_count'[j] = dsr_count[j]
      BY <2>1, <2>3
    <3>2. ASSUME NEW k \in 1 .. Len(s), s[k] = j PROVE \E m \in 1 .. Len(v) : v[m] = j
      <4>1. k # 1 /\ k - 1 \in 1 .. Len(v) /\ (k - 1) + 1 = k
        BY <1>2, <1>3, <2>3, <3>2
      <4>2. v[k - 1] = s[(k - 1) + 1]
        BY <1>5, <4>1
      <4> QED
        BY <3>2, <4>1, <4>2
    <3>3. ASSUME NEW k \in 1 .. Len(v), v[k] = j PROVE \E m \in 1 .. Len(s) : s[m] = j
      BY <1>5, <3>3
    <3> QED
      BY <3>1, <3>2, <3>3
  <2> QED
    BY <2>2, <2>3
<1>8. OnLists(v, rest)'
  BY <1>1, <1>6, <1>7 DEF OnLists
<1>9. Waiting' = v \o rest
  <2>1. PICK taken \in Seq(Interrupt), listed \in Seq(Interrupt) : OnLists(taken, listed)
    BY DEF QInv
  <2> QED
    BY <1>1, <1>8, <2>1, QueueIs DEF QInv
<1>10. Running' = {[intr |-> i, count |-> dsr_count[i]]} /\ dsr_count' = [dsr_count EXCEPT ![i] = 0]
  BY DEF Running, Take
<1> QED
  BY <1>1, <1>4, <1>8, <1>9, <1>10 DEF QInv

\* Every step is one of the queue, or leaves it as it is.
LEMMA NextQueue == QInv /\ IInv' /\ [Next]_vars => QInv' /\ [Queue!Next]_(Queue!vars)
<1> SUFFICES ASSUME QInv, IInv', [Next]_vars PROVE QInv' /\ [Queue!Next]_(Queue!vars)
  OBVIOUS
<1>1. PICK taken \in Seq(Interrupt), listed \in Seq(Interrupt) : OnLists(taken, listed)
  BY DEF QInv
<1>2. Waiting = taken \o listed
  <2>1. DOMAIN next_dsr = Interrupt /\ (pc = "dsr" \/ next = NULL)
    BY DEF QInv, IInv, TypeOK
  <2>2. Joined(next_dsr, next, dsr_list, pc) = taken \o listed
    BY <1>1, <2>1, LoopsMeet DEF OnLists
  <2> QED
    BY <2>2 DEF Waiting, Joined
<1> USE NullAssumption
<1>3. CASE call_pending_DSRs
  <2>1. /\ pc = "idle" /\ dsr_list # NULL /\ Take(dsr_list) /\ dsr_list' = NULL /\ pc' = "dsr"
        /\ next = NULL /\ dsr_list \in Interrupt
    BY <1>3 DEF call_pending_DSRs, QInv, IInv, TypeOK, Pointer
  <2>2. taken = <<>> /\ listed # <<>>
    BY <1>1, <2>1, PathEmpty DEF OnLists
  <2>3. PICK rest \in Seq(Interrupt) : rest = <<>>
    <3>1. <<>> \in Seq(Interrupt)
      OBVIOUS
    <3> QED
      BY <3>1
  <2>4. Len(rest) = 0 /\ Waiting = listed \o rest
    BY <1>2, <2>2, <2>3
  <2>5. Path(next_dsr', NULL, dsr_list', rest) /\ Path(next_dsr, NULL, dsr_list, listed)
    BY <1>1, <2>1, <2>4 DEF OnLists, Path, Item
  <2>6. Split(dsr_list, listed, rest)
    BY <1>1, <2>2, <2>4, <2>5 DEF OnLists, Split
  <2>7. rest = <<>> \/ dsr_list_tail' = rest[Len(rest)]
    BY <2>3
  <2>8. /\ QInv'
        /\ Waiting # <<>> /\ dsr_list = Head(Waiting) /\ Waiting' = Tail(Waiting)
        /\ Running' = {[intr |-> dsr_list, count |-> dsr_count[dsr_list]]}
        /\ dsr_count' = [dsr_count EXCEPT ![dsr_list] = 0]
    BY <2>1, <2>4, <2>5, <2>6, <2>7, TakeQueue
  <2>9. Running = {}
    BY <2>1 DEF Running
  <2> QED
    BY <2>8, <2>9 DEF Queue!Next, Queue!Begin
<1>4. CASE DsrReturns /\ next = NULL
  <2>1. /\ pc = "dsr" /\ pc' = "idle"
        /\ UNCHANGED <<intr, next, count, dsr_count, next_dsr, dsr_list, dsr_list_tail>>
    BY <1>4 DEF DsrReturns
  <2>2. OnLists(taken, listed)'
    BY <1>1, <2>1 DEF OnLists
  <2>3. Waiting = taken \o listed /\ Waiting' = taken \o listed
    BY <1>1, <2>2, QueueIs DEF QInv
  <2>4. Running # {} /\ Running' = {}
    BY <2>1 DEF Running
  <2> QED
    BY <2>1, <2>2, <2>3, <2>4 DEF QInv, Queue!Next, Queue!End
<1>5. CASE DsrReturns /\ next # NULL
  <2>1. /\ pc = "dsr" /\ pc' = "dsr" /\ Take(next) /\ next \in Interrupt
        /\ dsr_list' = dsr_list /\ dsr_list_tail' = dsr_list_tail
    BY <1>5 DEF DsrReturns, QInv, IInv, TypeOK, Pointer
  <2>2. taken # <<>> /\ Path(next_dsr, NULL, next, taken)
    BY <1>1, <2>1, PathEmpty DEF OnLists
  <2>3. 1 \in 1 .. Len(taken) /\ taken[1] = next
    BY <2>1, <2>2, PathEmpty
  <2>4. \A k \in 1 .. Len(listed) : next_dsr'[listed[k]] = next_dsr[listed[k]]
    <3> TAKE k \in 1 .. Len(listed)
    <3>1. listed[k] # next /\ listed[k] \in Interrupt
      BY <1>1, <2>3 DEF OnLists
    <3> QED
      BY <2>1, <3>1 DEF Take, QInv, IInv, TypeOK
  <2>5. Path(next_dsr', NULL, dsr_list', listed)
    BY <1>1, <2>1, <2>4, PathSame DEF OnLists
  <2>6. /\ QInv'
        /\ Waiting # <<>> /\ next = Head(Waiting) /\ Waiting' = Tail(Waiting)
        /\ Running' = {[intr |-> next, count |-> dsr_count[next]]}
        /\ dsr_count' = [dsr_count EXCEPT ![next] = 0]
    <3>1. Split(next, taken, listed)
      BY <1>1, <2>2 DEF OnLists, Split
    <3>2. listed = <<>> \/ dsr_list_tail' = listed[Len(listed)]
      BY <1>1, <2>1 DEF OnLists
    <3> QED
      BY <1>2, <2>1, <2>5, <3>1, <3>2, TakeQueue
  <2>7. Running # {}
    BY <2>1 DEF Running
  <2> QED
    BY <2>6, <2>7 DEF Queue!Next, Queue!EndBegin
<1>6. ASSUME NEW i \in Interrupt, post_dsr(i) PROVE QInv' /\ Queue!Next
  BY <1>6, PostQueue DEF Queue!Next
<1>7. CASE UNCHANGED vars
  <2>1. OnLists(taken, listed)'
    BY <1>1, <1>7 DEF OnLists, vars
  <2>2. UNCHANGED <<dsr_count, Waiting, Running>>
    BY <1>7 DEF vars, Waiting, Running
  <2> QED
    BY <2>1, <2>2 DEF QInv, Queue!vars
<1> QED
  BY <1>3, <1>4, <1>5, <1>6, <1>7 DEF Next

\* The list of DSRs is a queue of posted interrupts (intr.cxx:149-317): no post
\* is lost or served twice, and the DSRs are called one after the other in the
\* order of the first posts, whatever is posted while they run.
THEOREM DsrImplementsQueue == Spec => ImplementsQueue
<1>1. ImplementsQueue <=> Queue!Init /\ [][Queue!Next]_(Queue!vars)
  BY DEF ImplementsQueue, Queue!Spec
<1> QED
  BY <1>1, InitQueue, NextQueue, SpecIInv, PTL DEF Spec
-----------------------------------------------------------------------------
\* Every step of Chain is a step of Dsr or leaves its variables alone.
LEMMA StepsDsr == [ChainNext]_allvars => [Next]_vars
<1> SUFFICES ASSUME [ChainNext]_allvars PROVE [Next]_vars
  OBVIOUS
<1>1. UNCHANGED dsrs => UNCHANGED vars
  BY DEF dsrs, vars
<1>2. CASE CallIsr
  <2>1. CASE UNCHANGED dsrs
    BY <2>1, <1>1
  <2>2. CASE p \in HasDsr /\ post_dsr(p)
    BY <2>2, ChainAssumption DEF Next
  <2> QED
    BY <1>2, <2>1, <2>2 DEF CallIsr
<1>3. CASE CallDsrs
  BY <1>3 DEF CallDsrs, Next
<1>4. CASE UNCHANGED allvars
  BY <1>4, <1>1 DEF allvars
<1>5. CASE \E i \in Interrupt : Create(i) \/ Attach(i) \/ Detach(i)
  BY <1>5, <1>1 DEF Create, Attach, Detach
<1>6. CASE Register \/ Link \/ Unregister
  BY <1>6, <1>1 DEF Register, Link, Unregister
<1>7. CASE Disable \/ Save \/ Count \/ Enable \/ Restore \/ Others
  BY <1>7, <1>1 DEF Disable, Save, Count, Enable, Restore, Others
<1>8. CASE (\E v \in Vector : Deliver(v)) \/ SkipIsr \/ EndIsr
  BY <1>8, <1>1 DEF Deliver, SkipIsr, EndIsr
<1> QED
  BY <1>2, <1>3, <1>4, <1>5, <1>6, <1>7, <1>8 DEF ChainNext

\* Chain implements Dsr: however chains change and whichever ISRs are called,
\* the list of DSRs is worked off as if there were only interrupts that post.
THEOREM ImplementsDsr == ChainSpec => Spec
<1>1. ChainInit => Init
  BY DEF ChainInit
<1> QED
  BY <1>1, StepsDsr, PTL DEF ChainSpec, Spec

\* The assertion of call_pending_DSRs_inner (intr.cxx:193), with ISRs of
\* chains posting the DSRs: none is called without posts.
THEOREM ChainCallsWithPosts == ChainSpec => []CalledWithPosts
  BY ImplementsDsr, AlwaysCalledWithPosts, PTL

\* The assertions of post_dsr (intr.cxx:291-298), likewise.
THEOREM ChainTailMatchesHead == ChainSpec => []TailMatchesHead
  BY ImplementsDsr, TailAlwaysMatchesHead, PTL

\* The ISRs of chains post to a queue, too: no post of theirs is lost or served
\* twice (intr.cxx:149-317).
THEOREM ChainImplementsQueue == ChainSpec => ImplementsQueue
  BY ImplementsDsr, DsrImplementsQueue, PTL
-----------------------------------------------------------------------------
(***************************************************************************)
(* DisableHolds is not inductive: it says nothing of the saved state, nor  *)
(* of the time an interrupt is handled, which is when ISRs use the counter *)
(* too.  The invariant says that the counter is where the thread is, that  *)
(* interrupts are disabled exactly inside the outermost pair or in an      *)
(* interrupt, never both, and that inside the pair the state saved is the  *)
(* enabled one, however often others save theirs before Save.              *)
(***************************************************************************)
Inside == depth > 0 \/ at \in {"count", "restore"}

DInv ==
  /\ depth \in Nat
  /\ disable_counter = depth
  /\ ie \in BOOLEAN
  /\ ie <=> ~Inside /\ vec = NULL
  /\ p # NULL => vec # NULL
  /\ Inside => vec = NULL /\ disable_state = TRUE
  /\ at \in {"save", "restore"} => depth = 0

\* At the start no interrupt is disabled.
LEMMA InitDInv == ChainInit => DInv
  BY DEF ChainInit, DInv, Inside

\* Every step keeps the count of nested disables.
LEMMA NextDInv == DInv /\ [ChainNext]_allvars => DInv'
<1> SUFFICES ASSUME DInv, [ChainNext]_allvars PROVE DInv'
  OBVIOUS
<1> USE DEF DInv, Inside, Thread
<1>1. CASE UNCHANGED allvars
  BY <1>1 DEF allvars, thread, mask, walk
<1>2. CASE \E i \in Interrupt : Create(i) \/ Attach(i) \/ Detach(i)
  BY <1>2 DEF Create, Attach, Detach, thread, mask, walk
<1>3. CASE Register \/ Link \/ Unregister
  BY <1>3 DEF Register, Link, Unregister, mask, walk
<1>4. CASE Disable
  BY <1>4 DEF Disable, mask, walk
<1>5. CASE Save
  <2>1. at = "save" /\ vec = NULL /\ depth = 0 /\ ie
    BY <1>5 DEF Save
  <2>2. ie = TRUE
    BY <2>1
  <2>3. disable_state' = TRUE /\ ie' = FALSE /\ at' = "count"
    BY <1>5, <2>2 DEF Save
  <2> QED
    BY <1>5, <2>1, <2>3 DEF Save, walk
<1>6. CASE Count
  BY <1>6 DEF Count, walk
<1>7. CASE Enable
  BY <1>7 DEF Enable, walk
<1>8. CASE Restore
  BY <1>8 DEF Restore, walk
<1>9. CASE Others
  BY <1>9 DEF Others, Pair, thread, walk
<1>10. CASE \E v \in Vector : Deliver(v)
  BY <1>10, ChainAssumption DEF Deliver, thread
<1>11. CASE CallIsr
  BY <1>11 DEF CallIsr, Pair, thread
<1>12. CASE SkipIsr
  BY <1>12 DEF SkipIsr, thread, mask
<1>13. CASE EndIsr
  BY <1>13 DEF EndIsr, thread
<1>14. CASE CallDsrs
  BY <1>14 DEF CallDsrs, thread, mask, walk
<1> QED
  BY <1>1, <1>2, <1>3, <1>4, <1>5, <1>6, <1>7, <1>8, <1>9, <1>10, <1>11,
     <1>12, <1>13, <1>14 DEF ChainNext

\* Interrupts stay disabled from the first disable_interrupts to the last
\* enable_interrupts and no longer (intr.cxx:626), for any nesting, whatever
\* ISRs and other threads do between the test of the counter and the store of
\* the state.
THEOREM AlwaysDisableHolds == ChainSpec => []DisableHolds
<1>1. DInv => DisableHolds
  BY DEF DInv, Inside, DisableHolds
<1> QED
  BY <1>1, InitDInv, NextDInv, PTL DEF ChainSpec
-----------------------------------------------------------------------------
(***************************************************************************)
(* What the chains are, whatever is attached and detached while interrupts *)
(* walk them.  A sequence of objects is chained for an entry of the table  *)
(* when the links join it, its priorities do not rise, and it has exactly  *)
(* the objects attached there, with the first one of a chain that is not   *)
(* registered yet.                                                         *)
(***************************************************************************)
ChainTypeOK ==
  /\ chain_list \in [Index -> Pointer]
  /\ chain_next \in [Interrupt -> Pointer]
  /\ hal \subseteq Index
  /\ at \in {"out", "register", "link", "unregister", "save", "count", "restore"}
  /\ obj \in Pointer
  /\ prev \in Pointer
  /\ vec \in Vector \cup {NULL}
  /\ p \in Pointer
  /\ handled \in BOOLEAN
  /\ asked \in Seq(Interrupt)
  /\ attached \subseteq Interrupt

NotRising(w) == \A j, k \in 1 .. Len(w) : j < k => priority[w[j]] >= priority[w[k]]

OnChain(i) == i \in attached \/ (at = "register" /\ i = obj)

Chained(x, w) ==
  /\ Path(chain_next, NULL, chain_list[x], w)
  /\ NotRising(w)
  /\ \A i \in Interrupt : (\E k \in 1 .. Len(w) : w[k] = i) <=> IndexOf(i) = x /\ OnChain(i)

\* The object that is about to be linked in belongs behind the k-th one.
InPlace(w, k) ==
  /\ prev = IF k = 0 THEN NULL ELSE w[k]
  /\ chain_next[obj] = Item(NULL, w, k + 1)
  /\ \A j \in 1 .. Len(w) : IF j <= k THEN priority[w[j]] >= priority[obj]
                                     ELSE priority[w[j]] <= priority[obj]

\* What holds between the stores of an attach or a detach.
BetweenStores ==
  /\ obj # NULL <=> at \in {"register", "link", "unregister"}
  /\ at # "link" => prev = NULL
  /\ at = "register" => obj \notin attached /\ \A i \in attached : IndexOf(i) # IndexOf(obj)
  /\ at = "link" =>
       /\ obj \notin attached
       /\ \E w \in Seq(Interrupt) :
            Chained(IndexOf(obj), w) /\ w # <<>> /\ \E k \in 0 .. Len(w) : InPlace(w, k)
  /\ at = "unregister" => chain_list[IndexOf(obj)] = NULL

\* Every chain has its entry in the table, but for one that is not registered
\* yet.
Registered ==
  \A x \in Index : chain_list[x] # NULL => x \in hal \/ (at = "register" /\ x = IndexOf(obj))

\* A walk is at the k-th object: the objects of its vector before that one, and
\* no others, have been asked.
Walked(w, k) ==
  /\ p = Item(NULL, w, k)
  /\ \A i \in Interrupt : (\E m \in 1 .. Len(asked) : asked[m] = i)
                            <=> vector[i] = vec /\ \E j \in 1 .. k - 1 : w[j] = i
  /\ \A m, n \in 1 .. Len(asked) :
       m < n => asked[m] # asked[n] /\ priority[asked[m]] >= priority[asked[n]]

Walking ==
  /\ vec = NULL => p = NULL /\ asked = <<>> /\ ~handled
  /\ handled => p = NULL
  /\ vec # NULL /\ ~handled =>
       \E w \in Seq(Interrupt) :
         Chained(HAL_TRANSLATE_VECTOR[vec], w) /\ \E k \in 1 .. Len(w) + 1 : Walked(w, k)

ChainInv ==
  /\ ChainTypeOK
  /\ \A x \in Index : \E w \in Seq(Interrupt) : Chained(x, w)
  /\ BetweenStores
  /\ Registered
  /\ Walking

\* The entry of an object is one of the table.
LEMMA IndexIs == \A i \in Interrupt : IndexOf(i) \in Index
  BY ChainAssumption DEF IndexOf

\* The place of an object is behind those of its priority or a higher one.
LEMMA PlaceRight ==
  ASSUME NEW w \in Seq(Interrupt), NotRising(w), NEW i \in Interrupt
  PROVE  \E k \in 0 .. Len(w) :
           /\ Place(w, i) = IF k = 0 THEN NULL ELSE w[k]
           /\ \A j \in 1 .. Len(w) : IF j <= k THEN priority[w[j]] >= priority[i]
                                              ELSE priority[w[j]] <= priority[i]
<1> DEFINE lower == {n \in 1 .. Len(w) : priority[w[n]] < priority[i]}
           least == CHOOSE m \in lower : \A o \in lower : m <= o
           k == IF lower = {} THEN Len(w) ELSE least - 1
<1>1. Place(w, i) = IF k = 0 THEN NULL ELSE w[k]
  BY DEF Place
<1>2. priority[i] \in Nat /\ \A j \in 1 .. Len(w) : priority[w[j]] \in Nat
  <2>1. \A j \in 1 .. Len(w) : w[j] \in Interrupt
    OBVIOUS
  <2> QED
    BY <2>1, ChainAssumption
<1>3. PICK n \in Nat : n = Len(w)
  OBVIOUS
<1>4. CASE lower = {}
  BY <1>1, <1>2, <1>3, <1>4
<1>5. CASE lower # {}
  <2>1. lower \in SUBSET Nat
    BY <1>3
  <2>2. \E m \in lower : \A o \in lower : m <= o
    <3> HIDE DEF lower
    <3> QED
      BY <1>5, <2>1, Least
  <2>3. least \in lower /\ \A o \in lower : least <= o
    <3> HIDE DEF lower
    <3> QED
      BY <2>2
  <2>4. k = least - 1
    BY <1>5
  <2> HIDE DEF least, k
  <2>5. least \in 1 .. n /\ priority[w[least]] < priority[i]
    BY <1>3, <2>3
  <2>6. ASSUME NEW j \in 1 .. n
        PROVE  IF j <= k THEN priority[w[j]] >= priority[i] ELSE priority[w[j]] <= priority[i]
    <3>1. CASE j < least
      <4>1. j \notin lower /\ j <= k
        BY <2>1, <2>3, <2>4, <2>5, <3>1
      <4> QED
        BY <1>2, <1>3, <4>1
    <3>2. CASE j = least
      BY <1>2, <1>3, <2>4, <2>5, <3>2
    <3>3. CASE j > least
      <4>1. priority[w[least]] >= priority[w[j]] /\ ~(j <= k)
        BY <1>3, <2>4, <2>5, <3>3 DEF NotRising
      <4> QED
        BY <1>2, <1>3, <2>5, <4>1
    <3> QED
      BY <2>5, <3>1, <3>2, <3>3
  <2>7. k \in 0 .. n
    BY <2>4, <2>5
  <2> QED
    BY <1>1, <1>3, <2>6, <2>7
<1> QED
  BY <1>4, <1>5

\* An object put at its place keeps the order of the priorities.
LEMMA NotRisingWith ==
  ASSUME NEW w \in Seq(Interrupt), NotRising(w), NEW i \in Interrupt, NEW k \in 0 .. Len(w),
         \A j \in 1 .. Len(w) : IF j <= k THEN priority[w[j]] >= priority[i]
                                         ELSE priority[w[j]] <= priority[i],
         NEW v \in Seq(Interrupt), With(w, k, i, v)
  PROVE  NotRising(v)
<1>1. PICK n \in Nat : n = Len(w)
  OBVIOUS
<1>2. Len(v) = n + 1
  BY <1>1 DEF With
<1> DEFINE old(j) == IF j <= k THEN j ELSE j - 1
<1>3. ASSUME NEW j \in 1 .. n + 1
      PROVE  IF j = k + 1 THEN v[j] = i ELSE v[j] = w[old(j)] /\ old(j) \in 1 .. n
  <2>1. v[j] = IF j <= k THEN w[j] ELSE IF j = k + 1 THEN i ELSE w[j - 1]
    BY <1>1 DEF With
  <2> QED
    BY <1>1, <2>1
<1>4. priority[i] \in Nat
  BY ChainAssumption
<1>5. ASSUME NEW j \in 1 .. n + 1, NEW l \in 1 .. n + 1, j < l
      PROVE  priority[v[j]] >= priority[v[l]]
  <2>1. CASE j = k + 1
    <3>1. l # k + 1 /\ ~(old(l) <= k)
      BY <1>1, <1>5, <2>1
    <3> HIDE DEF old
    <3> QED
      BY <1>1, <1>3, <2>1, <3>1
  <2>2. CASE l = k + 1
    <3>1. j # k + 1 /\ old(j) <= k
      BY <1>1, <1>5, <2>2
    <3> HIDE DEF old
    <3> QED
      BY <1>1, <1>3, <2>2, <3>1
  <2>3. CASE j # k + 1 /\ l # k + 1
    <3>1. old(j) < old(l)
      BY <1>1, <1>5, <2>3
    <3> HIDE DEF old
    <3> QED
      BY <1>1, <1>3, <2>3, <3>1 DEF NotRising
  <2> QED
    BY <2>1, <2>2, <2>3
<1> QED
  BY <1>2, <1>5 DEF NotRising

\* So does taking one out.
LEMMA NotRisingWithout ==
  ASSUME NEW w \in Seq(Interrupt), NotRising(w), NEW m \in 1 .. Len(w),
         NEW v \in Seq(Interrupt), Without(w, m, v)
  PROVE  NotRising(v)
<1>1. PICK n \in Nat : n = Len(w)
  OBVIOUS
<1> DEFINE old(j) == IF j < m THEN j ELSE j + 1
<1>2. Len(v) = n - 1 /\ \A j \in 1 .. n - 1 : v[j] = w[old(j)]
  BY <1>1 DEF Without
<1>3. ASSUME NEW j \in 1 .. n - 1, NEW l \in 1 .. n - 1, j < l
      PROVE  priority[v[j]] >= priority[v[l]]
  <2>1. old(j) \in 1 .. n /\ old(l) \in 1 .. n /\ old(j) < old(l)
    BY <1>1, <1>3
  <2> HIDE DEF old
  <2> QED
    BY <1>1, <1>2, <2>1 DEF NotRising
<1> QED
  BY <1>2, <1>3 DEF NotRising

\* The loop along a chain meets its objects.
LEMMA ChainIs ==
  ASSUME ChainTypeOK, NEW x, NEW w \in Seq(Interrupt), Chained(x, w)
  PROVE  ChainOf(x) = w
<1>1. DOMAIN chain_next = Interrupt /\ Path(chain_next, NULL, chain_list[x], w)
  BY DEF ChainTypeOK, Chained
<1>2. Linked(chain_next, NULL, chain_list[x]) = w
  BY <1>1, NullAssumption, LinkedIsPath
<1> QED
  BY <1>2 DEF ChainOf

\* A chain whose objects and links stay is the same.
LEMMA SameChain ==
  ASSUME NEW x, NEW w \in Seq(Interrupt), Chained(x, w), chain_list'[x] = chain_list[x],
         \A i \in Interrupt : IndexOf(i) = x /\ OnChain(i) => chain_next'[i] = chain_next[i],
         \A i \in Interrupt : IndexOf(i) = x => (OnChain(i)' <=> OnChain(i))
  PROVE  Chained(x, w)'
<1>1. \A k \in 1 .. Len(w) : chain_next'[w[k]] = chain_next[w[k]]
  <2> TAKE k \in 1 .. Len(w)
  <2>1. w[k] \in Interrupt
    OBVIOUS
  <2> QED
    BY <2>1 DEF Chained
<1>2. Path(chain_next', NULL, chain_list'[x], w)
  BY <1>1 DEF Chained, Path
<1> QED
  BY <1>2 DEF Chained

\* Nothing happens to the chains while the objects on them and their links stay.
LEMMA SameChains ==
  ASSUME ChainInv, UNCHANGED <<chain_list, chain_next, attached, obj>>,
         at' = "register" <=> at = "register"
  PROVE  \A x : \A w \in Seq(Interrupt) : Chained(x, w) => Chained(x, w)'
  BY SameChain DEF OnChain

\* What an interrupt, and the thread when it disables interrupts, leaves alone.
LEMMA BetweenStays ==
  ASSUME ChainInv, UNCHANGED <<chain_list, chain_next, attached, hal, obj, prev>>,
         at' = at \/ {at, at'} \subseteq {"out", "save", "count", "restore"}
  PROVE  /\ \A x \in Index : \E w \in Seq(Interrupt) : Chained(x, w)'
         /\ BetweenStores' /\ Registered'
<1>1. /\ at' = "register" <=> at = "register"
      /\ at' = "link" <=> at = "link"
      /\ at' = "unregister" <=> at = "unregister"
      /\ UNCHANGED <<chain_list, chain_next, attached, hal, obj, prev>>
  <2>1. CASE at' = at
    BY <2>1
  <2>2. CASE at' # at
    <3>1. at \in {"out", "save", "count", "restore"} /\ at' \in {"out", "save", "count", "restore"}
      BY <2>2
    <3> QED
      BY <3>1
  <2> QED
    BY <2>1, <2>2
<1>2. \A x : \A w \in Seq(Interrupt) : Chained(x, w) => Chained(x, w)'
  BY <1>1, SameChains
<1>3. \A x \in Index : \E w \in Seq(Interrupt) : Chained(x, w)'
  BY <1>2 DEF ChainInv
<1>4. Registered'
  BY <1>1 DEF ChainInv, Registered
<1>5. ASSUME at = "link"
      PROVE  \E w \in Seq(Interrupt) :
               /\ Chained(IndexOf(obj), w)' /\ w # <<>>
               /\ \E k \in 0 .. Len(w) : InPlace(w, k)'
  <2>1. PICK w \in Seq(Interrupt) :
          Chained(IndexOf(obj), w) /\ w # <<>> /\ \E k \in 0 .. Len(w) : InPlace(w, k)
    BY <1>5 DEF ChainInv, BetweenStores
  <2>2. PICK k \in 0 .. Len(w) : InPlace(w, k)
    BY <2>1
  <2>3. PICK x : x = IndexOf(obj)
    OBVIOUS
  <2>4. Chained(x, w)'
    BY <1>2, <2>1, <2>3
  <2>5. Chained(IndexOf(obj), w)'
    BY <1>1, <2>3, <2>4
  <2>6. InPlace(w, k)'
    BY <1>1, <2>2 DEF InPlace
  <2> QED
    BY <2>1, <2>5, <2>6
<1>6. BetweenStores'
  <2>1. obj' # NULL <=> at' \in {"register", "link", "unregister"}
    BY <1>1 DEF ChainInv, BetweenStores
  <2>2. at' # "link" => prev' = NULL
    BY <1>1 DEF ChainInv, BetweenStores
  <2>3. at' = "register" => obj' \notin attached' /\ \A i \in attached' : IndexOf(i) # IndexOf(obj')
    BY <1>1 DEF ChainInv, BetweenStores
  <2>4. at' = "link" => obj' \notin attached'
    BY <1>1 DEF ChainInv, BetweenStores
  <2>5. at' = "unregister" => chain_list'[IndexOf(obj')] = NULL
    BY <1>1 DEF ChainInv, BetweenStores
  <2> QED
    BY <1>1, <1>5, <2>1, <2>2, <2>3, <2>4, <2>5 DEF BetweenStores
<1> QED
  BY <1>3, <1>4, <1>6

\* At the start no object is attached.
LEMMA InitChainInv == ChainInit => ChainInv
<1> SUFFICES ASSUME ChainInit PROVE ChainInv
  OBVIOUS
<1>1. PICK s \in Seq(Interrupt) : s = <<>>
  <2>1. <<>> \in Seq(Interrupt)
    OBVIOUS
  <2> QED
    BY <2>1
<1>2. Len(s) = 0
  BY <1>1
<1>3. asked = s /\ vec = NULL /\ p = NULL /\ handled = FALSE
  BY <1>1 DEF ChainInit
<1>4. ChainTypeOK
  BY <1>3 DEF ChainInit, ChainTypeOK, Pointer
<1>5. \A x \in Index : Chained(x, s)
  BY <1>2 DEF ChainInit, Chained, Path, Item, NotRising, OnChain
<1>6. BetweenStores /\ Registered
  BY DEF ChainInit, BetweenStores, Registered
<1>7. Walking
  BY <1>1, <1>3 DEF Walking
<1> QED
  BY <1>4, <1>5, <1>6, <1>7 DEF ChainInv

\* What does not touch the chains nor a walk.
LEMMA StaysInv ==
  ASSUME ChainInv, UNCHANGED <<chain_list, chain_next, attached, hal, obj, prev>>,
         at' = at \/ {at, at'} \subseteq {"out", "save", "count", "restore"},
         UNCHANGED walk
  PROVE  ChainInv'
<1>1. UNCHANGED <<vec, p, handled, asked>>
  BY DEF walk
<1>2. ChainTypeOK'
  <2>1. at' \in {"out", "register", "link", "unregister", "save", "count", "restore"}
    BY DEF ChainInv, ChainTypeOK
  <2> QED
    BY <1>1, <2>1 DEF ChainInv, ChainTypeOK
<1>3. \A x : \A w \in Seq(Interrupt) : Chained(x, w) => Chained(x, w)'
  <2>1. at' = "register" <=> at = "register"
    <3>1. CASE at' = at
      BY <3>1
    <3>2. CASE at' # at
      <4>1. at \in {"out", "save", "count", "restore"} /\ at' \in {"out", "save", "count", "restore"}
        BY <3>2
      <4> QED
        BY <4>1
    <3> QED
      BY <3>1, <3>2
  <2> QED
    BY <2>1, SameChains
<1>4. Walking'
  <2>1. ASSUME vec # NULL, ~handled
        PROVE  \E w \in Seq(Interrupt) :
                 /\ Chained(HAL_TRANSLATE_VECTOR[vec], w)'
                 /\ \E k \in 1 .. Len(w) + 1 : Walked(w, k)'
    <3>1. PICK w \in Seq(Interrupt) :
            /\ Chained(HAL_TRANSLATE_VECTOR[vec], w)
            /\ \E k \in 1 .. Len(w) + 1 : Walked(w, k)
      BY <2>1 DEF ChainInv, Walking
    <3>2. PICK k \in 1 .. Len(w) + 1 : Walked(w, k)
      BY <3>1
    <3>3. PICK x : x = HAL_TRANSLATE_VECTOR[vec]
      OBVIOUS
    <3>4. Chained(x, w)'
      BY <1>3, <3>1, <3>3
    <3>5. Chained(HAL_TRANSLATE_VECTOR[vec], w)'
      BY <1>1, <3>3, <3>4
    <3>6. Walked(w, k)'
      BY <1>1, <3>2 DEF Walked
    <3> QED
      BY <3>5, <3>6
  <2> QED
    BY <1>1, <2>1 DEF ChainInv, Walking
<1>5. /\ \A x \in Index : \E w \in Seq(Interrupt) : Chained(x, w)'
      /\ BetweenStores' /\ Registered'
  BY BetweenStays
<1> QED
  BY <1>2, <1>4, <1>5 DEF ChainInv
-----------------------------------------------------------------------------
(***************************************************************************)
(* An interrupt walks a chain.                                             *)
(***************************************************************************)
\* A walk begins at the head of the chain.
LEMMA DeliverInv ==
  ASSUME ChainInv, NEW v \in Vector, Deliver(v)
  PROVE  ChainInv'
<1>1. /\ vec = NULL /\ vec' = v /\ p' = chain_list[HAL_TRANSLATE_VECTOR[v]]
      /\ UNCHANGED <<chain_list, chain_next, attached, hal, obj, prev, at, handled, asked>>
  BY DEF Deliver, chains, thread
<1>2. handled = FALSE /\ asked = <<>>
  BY <1>1 DEF ChainInv, Walking, ChainTypeOK
<1>3. PICK x \in Index : x = HAL_TRANSLATE_VECTOR[v]
  BY ChainAssumption
<1>4. PICK w \in Seq(Interrupt) : Chained(x, w)
  BY DEF ChainInv
<1>5. Chained(x, w)'
  BY <1>1, <1>4, SameChains
<1>6. PICK n \in Nat : n = Len(w)
  OBVIOUS
<1>7. Walked(w, 1)'
  <2>1. p' = Item(NULL, w, 1)
    BY <1>1, <1>3, <1>4 DEF Chained, Path
  <2>2. Len(asked') = 0
    BY <1>1, <1>2
  <2> QED
    BY <2>1, <2>2 DEF Walked
<1>8. Walking'
  <2>1. Chained(HAL_TRANSLATE_VECTOR[vec], w)'
    BY <1>1, <1>3, <1>5
  <2>2. vec' # NULL /\ 1 \in 1 .. Len(w) + 1 /\ handled' = FALSE
    BY <1>1, <1>2, <1>6, ChainAssumption
  <2> QED
    BY <1>7, <2>1, <2>2 DEF Walking
<1>9. ChainTypeOK'
  BY <1>1, <1>3 DEF ChainInv, ChainTypeOK
<1>10. /\ \A y \in Index : \E s \in Seq(Interrupt) : Chained(y, s)'
       /\ BetweenStores' /\ Registered'
  BY <1>1, BetweenStays
<1> QED
  BY <1>8, <1>9, <1>10 DEF ChainInv

\* A walk that goes on is at an object of the chain.
LEMMA OnWalk ==
  ASSUME ChainInv, p # NULL
  PROVE  /\ vec # NULL /\ vec \in Vector /\ handled = FALSE
         /\ \E w \in Seq(Interrupt) :
              /\ Chained(HAL_TRANSLATE_VECTOR[vec], w)
              /\ \E k \in 1 .. Len(w) :
                   /\ Walked(w, k) /\ p = w[k] /\ p \in Interrupt
                   /\ chain_next[p] = Item(NULL, w, k + 1)
<1>1. vec # NULL /\ vec \in Vector /\ handled = FALSE
  BY DEF ChainInv, Walking, ChainTypeOK
<1>2. PICK w \in Seq(Interrupt) : /\ Chained(HAL_TRANSLATE_VECTOR[vec], w)
                                  /\ \E k \in 1 .. Len(w) + 1 : Walked(w, k)
  BY <1>1 DEF ChainInv, Walking
<1>3. PICK k \in 1 .. Len(w) + 1 : Walked(w, k)
  BY <1>2
<1>4. p = Item(NULL, w, k)
  BY <1>3 DEF Walked
<1>5. k \in 1 .. Len(w) /\ p = w[k]
  BY <1>4 DEF Item
<1>6. p \in Interrupt
  BY <1>5
<1>7. chain_next[p] = Item(NULL, w, k + 1)
  BY <1>2, <1>5 DEF Chained, Path
<1> QED
  BY <1>1, <1>2, <1>3, <1>5, <1>6, <1>7

\* An object of another vector is passed over.
LEMMA SkipIsrInv ==
  ASSUME ChainInv, SkipIsr
  PROVE  ChainInv'
<1>1. /\ p # NULL /\ vector[p] # vec /\ p' = chain_next[p]
      /\ UNCHANGED <<chain_list, chain_next, attached, hal, obj, prev, at, vec, handled, asked>>
  BY DEF SkipIsr, chains, thread
<1>2. PICK w \in Seq(Interrupt) :
        /\ Chained(HAL_TRANSLATE_VECTOR[vec], w)
        /\ \E k \in 1 .. Len(w) : /\ Walked(w, k) /\ p = w[k] /\ p \in Interrupt
                                  /\ chain_next[p] = Item(NULL, w, k + 1)
  BY <1>1, OnWalk
<1>3. PICK k \in 1 .. Len(w) : /\ Walked(w, k) /\ p = w[k] /\ p \in Interrupt
                               /\ chain_next[p] = Item(NULL, w, k + 1)
  BY <1>2
<1>4. vec # NULL /\ handled = FALSE
  BY <1>1, OnWalk
<1>5. PICK x : x = HAL_TRANSLATE_VECTOR[vec]
  OBVIOUS
<1>6. Chained(x, w)'
  BY <1>1, <1>2, <1>5, SameChains
<1>7. Walked(w, k + 1)'
  <2>1. p' = Item(NULL, w, k + 1)
    BY <1>1, <1>3
  <2>2. ASSUME NEW i \in Interrupt
        PROVE  (\E m \in 1 .. Len(asked) : asked[m] = i)
                 <=> vector[i] = vec /\ \E j \in 1 .. k : w[j] = i
    <3>1. (\E m \in 1 .. Len(asked) : asked[m] = i)
            <=> vector[i] = vec /\ \E j \in 1 .. k - 1 : w[j] = i
      BY <1>3 DEF Walked
    <3>2. \A j \in 1 .. k : j = k \/ j \in 1 .. k - 1
      OBVIOUS
    <3>3. \A j \in 1 .. k - 1 : j \in 1 .. k
      OBVIOUS
    <3> QED
      BY <1>1, <1>3, <3>1, <3>2, <3>3
  <2>3. \A m, n \in 1 .. Len(asked) :
          m < n => asked[m] # asked[n] /\ priority[asked[m]] >= priority[asked[n]]
    BY <1>3 DEF Walked
  <2>4. (k + 1) - 1 = k
    OBVIOUS
  <2> QED
    BY <1>1, <2>1, <2>2, <2>3, <2>4 DEF Walked
<1>8. Walking'
  <2>1. Chained(HAL_TRANSLATE_VECTOR[vec], w)'
    BY <1>1, <1>5, <1>6
  <2>2. k + 1 \in 1 .. Len(w) + 1
    OBVIOUS
  <2> QED
    BY <1>1, <1>4, <1>7, <2>1, <2>2 DEF Walking
<1>9. ChainTypeOK'
  BY <1>1, <1>3 DEF ChainInv, ChainTypeOK
<1>10. /\ \A y \in Index : \E s \in Seq(Interrupt) : Chained(y, s)'
       /\ BetweenStores' /\ Registered'
  BY <1>1, BetweenStays
<1> QED
  BY <1>8, <1>9, <1>10 DEF ChainInv

\* An object of the vector is asked, and the walk goes on or ends.
LEMMA CallIsrInv ==
  ASSUME ChainInv, CallIsr
  PROVE  ChainInv'
<1>1. PICK done \in BOOLEAN :
        /\ p # NULL /\ vector[p] = vec /\ asked' = Append(asked, p)
        /\ handled' = done /\ p' = IF done THEN NULL ELSE chain_next[p]
        /\ UNCHANGED <<chain_list, chain_next, attached, hal, obj, prev, at, vec>>
  BY DEF CallIsr, chains, thread
<1>2. PICK w \in Seq(Interrupt) :
        /\ Chained(HAL_TRANSLATE_VECTOR[vec], w)
        /\ \E k \in 1 .. Len(w) : /\ Walked(w, k) /\ p = w[k] /\ p \in Interrupt
                                  /\ chain_next[p] = Item(NULL, w, k + 1)
  BY <1>1, OnWalk
<1>3. PICK k \in 1 .. Len(w) : /\ Walked(w, k) /\ p = w[k] /\ p \in Interrupt
                               /\ chain_next[p] = Item(NULL, w, k + 1)
  BY <1>2
<1>4. vec # NULL /\ asked \in Seq(Interrupt)
  BY <1>1, OnWalk DEF ChainInv, ChainTypeOK
<1>5. PICK x : x = HAL_TRANSLATE_VECTOR[vec]
  OBVIOUS
<1>6. Chained(x, w)'
  BY <1>1, <1>2, <1>5, SameChains
<1>7. PICK n \in Nat : n = Len(asked)
  BY <1>4
<1>8. /\ asked' \in Seq(Interrupt) /\ Len(asked') = n + 1 /\ asked'[n + 1] = p
      /\ \A m \in 1 .. n : asked'[m] = asked[m]
  BY <1>1, <1>3, <1>4, <1>7
<1>9. ASSUME NEW i \in Interrupt
      PROVE  (\E m \in 1 .. n : asked[m] = i) <=> vector[i] = vec /\ \E j \in 1 .. k - 1 : w[j] = i
  BY <1>3, <1>7 DEF Walked
<1>10. ASSUME ~done PROVE Walked(w, k + 1)'
  <2>1. p' = Item(NULL, w, k + 1)
    BY <1>1, <1>3, <1>10
  <2>2. ASSUME NEW i \in Interrupt
        PROVE  (\E m \in 1 .. n + 1 : asked'[m] = i)
                 <=> vector[i] = vec /\ \E j \in 1 .. k : w[j] = i
    <3>1. (\E m \in 1 .. n + 1 : asked'[m] = i) <=> i = p \/ \E m \in 1 .. n : asked[m] = i
      <4>1. \A m \in 1 .. n + 1 : m = n + 1 \/ m \in 1 .. n
        OBVIOUS
      <4>2. n + 1 \in 1 .. n + 1 /\ \A m \in 1 .. n : m \in 1 .. n + 1
        OBVIOUS
      <4> QED
        BY <1>8, <4>1, <4>2
    <3>2. \A j \in 1 .. k : j = k \/ j \in 1 .. k - 1
      OBVIOUS
    <3>3. k \in 1 .. k /\ \A j \in 1 .. k - 1 : j \in 1 .. k
      OBVIOUS
    <3>4. (\E j \in 1 .. k : w[j] = i) <=> i = p \/ \E j \in 1 .. k - 1 : w[j] = i
      BY <1>3, <3>2, <3>3
    <3> QED
      BY <1>1, <1>9, <3>1, <3>4
  <2>3. ASSUME NEW l \in 1 .. n + 1, NEW m \in 1 .. n + 1, l < m
        PROVE  asked'[l] # asked'[m] /\ priority[asked'[l]] >= priority[asked'[m]]
    <3>1. l \in 1 .. n /\ asked'[l] = asked[l] /\ asked[l] \in Interrupt
      BY <1>4, <1>7, <1>8, <2>3
    <3>2. CASE m = n + 1
      <4>1. PICK j \in 1 .. k - 1 : w[j] = asked[l]
        BY <1>9, <3>1
      <4>2. j \in 1 .. Len(w) /\ j < k
        OBVIOUS
      <4>3. w[j] # w[k]
        BY <1>2, <4>2 DEF Chained, Path
      <4>4. priority[w[j]] >= priority[w[k]]
        BY <1>2, <4>2 DEF Chained, NotRising
      <4> QED
        BY <1>3, <1>8, <3>1, <3>2, <4>1, <4>3, <4>4
    <3>3. CASE m # n + 1
      <4>1. m \in 1 .. n /\ asked'[m] = asked[m]
        BY <1>8, <3>3
      <4> QED
        BY <1>3, <1>7, <2>3, <3>1, <4>1 DEF Walked
    <3> QED
      BY <3>2, <3>3
  <2>4. (k + 1) - 1 = k
    OBVIOUS
  <2> QED
    BY <1>1, <1>8, <2>1, <2>2, <2>3, <2>4 DEF Walked
<1>11. Walking'
  <2>1. Chained(HAL_TRANSLATE_VECTOR[vec], w)'
    BY <1>1, <1>5, <1>6
  <2>2. k + 1 \in 1 .. Len(w) + 1
    OBVIOUS
  <2> QED
    BY <1>1, <1>4, <1>10, <2>1, <2>2 DEF Walking
<1>12. ChainTypeOK'
  <2>1. p' \in Pointer
    BY <1>1, <1>3 DEF ChainInv, ChainTypeOK, Pointer
  <2> QED
    BY <1>1, <1>8, <2>1 DEF ChainInv, ChainTypeOK
<1>13. /\ \A y \in Index : \E s \in Seq(Interrupt) : Chained(y, s)'
       /\ BetweenStores' /\ Registered'
  BY <1>1, BetweenStays
<1> QED
  BY <1>11, <1>12, <1>13 DEF ChainInv

\* The walk has ended.
LEMMA EndIsrInv ==
  ASSUME ChainInv, EndIsr
  PROVE  ChainInv'
<1>1. /\ p = NULL /\ vec' = NULL /\ handled' = FALSE /\ asked' = <<>> /\ p' = p
      /\ UNCHANGED <<chain_list, chain_next, attached, hal, obj, prev, at>>
  BY DEF EndIsr, chains, thread
<1>2. ChainTypeOK'
  <2>1. asked' \in Seq(Interrupt)
    BY <1>1
  <2> QED
    BY <1>1, <2>1 DEF ChainInv, ChainTypeOK
<1>3. Walking'
  BY <1>1 DEF Walking
<1>4. /\ \A y \in Index : \E s \in Seq(Interrupt) : Chained(y, s)'
      /\ BetweenStores' /\ Registered'
  BY <1>1, BetweenStays
<1> QED
  BY <1>2, <1>3, <1>4 DEF ChainInv
-----------------------------------------------------------------------------
(***************************************************************************)
(* A thread attaches and detaches.  No interrupt is handled then.          *)
(***************************************************************************)
\* No walk begins or goes on.
LEMMA NoWalk ==
  ASSUME ChainInv, vec = NULL, UNCHANGED walk
  PROVE  Walking' /\ UNCHANGED <<vec, p, handled, asked>>
<1>1. UNCHANGED <<vec, p, handled, asked>>
  BY DEF walk
<1> QED
  BY <1>1 DEF ChainInv, Walking

\* An object that is not in use is made anew.
LEMMA CreateInv ==
  ASSUME ChainInv, NEW i \in Interrupt, Create(i)
  PROVE  ChainInv'
<1>1. /\ at = "out" /\ vec = NULL /\ i \notin attached
      /\ chain_next' = [chain_next EXCEPT ![i] = NULL]
      /\ UNCHANGED <<chain_list, hal, attached, at, obj, prev>> /\ UNCHANGED walk
  BY DEF Create, Thread, thread
<1>2. Walking' /\ UNCHANGED <<vec, p, handled, asked>>
  BY <1>1, NoWalk
<1>3. ChainTypeOK'
  BY <1>1, <1>2 DEF ChainInv, ChainTypeOK, Pointer
<1>4. \A j \in Interrupt : OnChain(j) => chain_next'[j] = chain_next[j]
  BY <1>1 DEF OnChain, ChainInv, ChainTypeOK
<1>5. \A j : OnChain(j)' <=> OnChain(j)
  BY <1>1 DEF OnChain
<1>6. ASSUME NEW x \in Index PROVE \E w \in Seq(Interrupt) : Chained(x, w)'
  <2>1. PICK w \in Seq(Interrupt) : Chained(x, w)
    BY DEF ChainInv
  <2>2. Chained(x, w)'
    BY <1>1, <1>4, <1>5, <2>1, SameChain
  <2> QED
    BY <2>2
<1>7. BetweenStores' /\ Registered'
  BY <1>1 DEF ChainInv, BetweenStores, Registered
<1> QED
  BY <1>2, <1>3, <1>6, <1>7 DEF ChainInv

\* Nothing is on a chain but what is on a chain of the entry.
LEMMA EmptyChain ==
  ASSUME NEW x, NEW w \in Seq(Interrupt), Chained(x, w)
  PROVE  chain_list[x] = NULL <=> w = <<>>
<1>1. Path(chain_next, NULL, chain_list[x], w)
  BY DEF Chained
<1> QED
  BY <1>1, NullAssumption, PathEmpty

\* The first object of a chain is put at its head.
LEMMA AttachFirstInv ==
  ASSUME ChainInv, NEW i \in Interrupt, Attach(i), chain_list[IndexOf(i)] = NULL
  PROVE  ChainInv'
<1>1. PICK x \in Index : x = IndexOf(i)
  BY IndexIs
<1>2. /\ at = "out" /\ vec = NULL /\ i \notin attached /\ chain_next[i] = NULL
      /\ chain_list' = [chain_list EXCEPT ![x] = i] /\ obj' = i /\ at' = "register"
      /\ UNCHANGED <<chain_next, prev, hal, attached>> /\ UNCHANGED walk
  BY <1>1 DEF Attach, Thread
<1>3. Walking' /\ UNCHANGED <<vec, p, handled, asked>>
  BY <1>2, NoWalk
<1>4. ChainTypeOK'
  BY <1>2, <1>3 DEF ChainInv, ChainTypeOK, Pointer
<1>5. \A j : OnChain(j) <=> j \in attached
  BY <1>2 DEF OnChain
<1>6. \A j : OnChain(j)' <=> j \in attached \/ j = i
  BY <1>2 DEF OnChain
<1>7. \A j \in attached : IndexOf(j) # x
  <2>1. PICK w \in Seq(Interrupt) : Chained(x, w)
    BY DEF ChainInv
  <2>2. Len(w) = 0
    BY <1>1, <2>1, EmptyChain
  <2> QED
    BY <1>5, <2>1, <2>2 DEF Chained, ChainInv, ChainTypeOK
<1>8. ASSUME NEW y \in Index, y # x PROVE \E w \in Seq(Interrupt) : Chained(y, w)'
  <2>1. PICK w \in Seq(Interrupt) : Chained(y, w)
    BY DEF ChainInv
  <2>2. chain_list'[y] = chain_list[y] /\ chain_next' = chain_next
    BY <1>2, <1>8 DEF ChainInv, ChainTypeOK
  <2>3. \A j \in Interrupt : IndexOf(j) = y => (OnChain(j)' <=> OnChain(j))
    BY <1>1, <1>5, <1>6, <1>8
  <2>4. Chained(y, w)'
    BY <2>1, <2>2, <2>3, SameChain
  <2> QED
    BY <2>4
<1>9. \E w \in Seq(Interrupt) : Chained(x, w)'
  <2>1. PICK w \in Seq(Interrupt) : w = <<i>>
    <3>1. <<i>> \in Seq(Interrupt)
      OBVIOUS
    <3> QED
      BY <3>1
  <2>2. Len(w) = 1 /\ w[1] = i
    BY <2>1
  <2>3. Path(chain_next', NULL, chain_list'[x], w)
    <3>1. chain_list'[x] = i /\ chain_next'[i] = NULL
      BY <1>2 DEF ChainInv, ChainTypeOK
    <3> QED
      BY <2>2, <3>1 DEF Path, Item
  <2>4. NotRising(w)
    BY <2>2 DEF NotRising
  <2>5. \A j \in Interrupt : (\E k \in 1 .. Len(w) : w[k] = j) <=> IndexOf(j) = x /\ OnChain(j)'
    BY <1>1, <1>6, <1>7, <2>2
  <2> QED
    BY <2>3, <2>4, <2>5 DEF Chained
<1>10. Registered'
  BY <1>1, <1>2 DEF ChainInv, ChainTypeOK, Registered
<1>11. BetweenStores'
  <2>1. prev' = NULL /\ i # NULL
    BY <1>2, NullAssumption DEF ChainInv, BetweenStores
  <2> QED
    BY <1>1, <1>2, <1>7, <2>1 DEF BetweenStores
<1> QED
  BY <1>3, <1>4, <1>8, <1>9, <1>10, <1>11 DEF ChainInv

\* Another object gets the link that it will have at its place.
LEMMA AttachNextInv ==
  ASSUME ChainInv, NEW i \in Interrupt, Attach(i), chain_list[IndexOf(i)] # NULL
  PROVE  ChainInv'
<1>1. PICK x \in Index : x = IndexOf(i)
  BY IndexIs
<1>2. PICK w \in Seq(Interrupt) : Chained(x, w)
  BY DEF ChainInv
<1>3. ChainOf(x) = w /\ w # <<>>
  BY <1>1, <1>2, ChainIs, EmptyChain DEF ChainInv
<1>4. /\ at = "out" /\ vec = NULL /\ i \notin attached /\ chain_next[i] = NULL
      /\ prev' = Place(w, i) /\ chain_next' = [chain_next EXCEPT ![i] = After(x, prev')]
      /\ obj' = i /\ at' = "link"
      /\ UNCHANGED <<chain_list, hal, attached>> /\ UNCHANGED walk
  BY <1>1, <1>3 DEF Attach, Thread
<1>5. Walking' /\ UNCHANGED <<vec, p, handled, asked>>
  BY <1>4, NoWalk
<1>6. PICK k \in 0 .. Len(w) :
        /\ Place(w, i) = IF k = 0 THEN NULL ELSE w[k]
        /\ \A j \in 1 .. Len(w) : IF j <= k THEN priority[w[j]] >= priority[i]
                                           ELSE priority[w[j]] <= priority[i]
  BY <1>2, PlaceRight DEF Chained
<1>7. prev' = (IF k = 0 THEN NULL ELSE w[k]) /\ prev' \in Pointer
  <2>1. k # 0 => w[k] \in Interrupt
    OBVIOUS
  <2> QED
    BY <1>4, <1>6, <2>1 DEF Pointer
<1>8. After(x, prev') = Item(NULL, w, k + 1)
  <2>1. CASE k = 0
    BY <1>2, <1>7, <2>1 DEF After, Chained, Path
  <2>2. CASE k # 0
    <3>1. k \in 1 .. Len(w) /\ w[k] \in Interrupt
      BY <2>2
    <3>2. prev' # NULL
      BY <1>7, <2>2, <3>1, NullAssumption
    <3> QED
      BY <1>2, <1>7, <2>2, <3>1, <3>2 DEF After, Chained, Path
  <2> QED
    BY <2>1, <2>2
<1>9. Item(NULL, w, k + 1) \in Pointer
  <2>1. CASE k + 1 > Len(w)
    BY <2>1 DEF Item, Pointer
  <2>2. CASE ~(k + 1 > Len(w))
    <3>1. w[k + 1] \in Interrupt
      BY <2>2
    <3> QED
      BY <2>2, <3>1 DEF Item, Pointer
  <2> QED
    BY <2>1, <2>2
<1>10. ChainTypeOK'
  <2>1. chain_next' \in [Interrupt -> Pointer]
    BY <1>4, <1>8, <1>9 DEF ChainInv, ChainTypeOK
  <2> QED
    BY <1>4, <1>5, <1>7, <2>1 DEF ChainInv, ChainTypeOK, Pointer
<1>11. \A j : (OnChain(j)' <=> OnChain(j)) /\ (OnChain(j) <=> j \in attached)
  BY <1>4 DEF OnChain
<1>12. \A j \in Interrupt : j # i => chain_next'[j] = chain_next[j]
  BY <1>4 DEF ChainInv, ChainTypeOK
<1>13. \A y : \A s \in Seq(Interrupt) : Chained(y, s) => Chained(y, s)'
  <2> TAKE y
  <2> TAKE s \in Seq(Interrupt)
  <2> HAVE Chained(y, s)
  <2>1. \A j \in Interrupt : IndexOf(j) = y /\ OnChain(j) => chain_next'[j] = chain_next[j]
    BY <1>4, <1>11, <1>12
  <2>2. \A j \in Interrupt : IndexOf(j) = y => (OnChain(j)' <=> OnChain(j))
    BY <1>11
  <2>3. chain_list'[y] = chain_list[y]
    BY <1>4
  <2> QED
    BY <2>1, <2>2, <2>3, SameChain
<1>14. InPlace(w, k)'
  <2>1. chain_next'[i] = Item(NULL, w, k + 1)
    BY <1>4, <1>8 DEF ChainInv, ChainTypeOK
  <2> QED
    BY <1>4, <1>6, <1>7, <2>1 DEF InPlace
<1>15. BetweenStores'
  <2>1. Chained(IndexOf(obj), w)'
    BY <1>1, <1>2, <1>4, <1>13
  <2>2. i # NULL
    BY NullAssumption
  <2> QED
    BY <1>3, <1>4, <1>14, <2>1, <2>2 DEF BetweenStores
<1>16. Registered'
  BY <1>4 DEF ChainInv, Registered
<1>17. \A y \in Index : \E s \in Seq(Interrupt) : Chained(y, s)'
  BY <1>13 DEF ChainInv
<1> QED
  BY <1>5, <1>10, <1>15, <1>16, <1>17 DEF ChainInv

\* The first object's chain is registered.
LEMMA RegisterInv ==
  ASSUME ChainInv, Register
  PROVE  ChainInv'
<1>1. /\ at = "register" /\ vec = NULL /\ hal' = hal \cup {IndexOf(obj)}
      /\ attached' = attached \cup {obj} /\ at' = "out" /\ obj' = NULL
      /\ UNCHANGED <<chain_list, chain_next, prev>> /\ UNCHANGED walk
  BY DEF Register, Thread
<1>2. Walking' /\ UNCHANGED <<vec, p, handled, asked>>
  BY <1>1, NoWalk
<1>3. obj \in Interrupt /\ IndexOf(obj) \in Index /\ prev = NULL
  BY <1>1, IndexIs DEF ChainInv, ChainTypeOK, BetweenStores, Pointer
<1>4. ChainTypeOK'
  BY <1>1, <1>2, <1>3 DEF ChainInv, ChainTypeOK, Pointer
<1>5. \A j : OnChain(j)' <=> OnChain(j)
  BY <1>1 DEF OnChain
<1>6. ASSUME NEW x \in Index PROVE \E w \in Seq(Interrupt) : Chained(x, w)'
  <2>1. PICK w \in Seq(Interrupt) : Chained(x, w)
    BY DEF ChainInv
  <2>2. Chained(x, w)'
    BY <1>1, <1>5, <2>1, SameChain
  <2> QED
    BY <2>2
<1>7. BetweenStores' /\ Registered'
  BY <1>1, <1>3 DEF ChainInv, BetweenStores, Registered
<1> QED
  BY <1>2, <1>4, <1>6, <1>7 DEF ChainInv

\* The entry of a chain that is empty is given up.
LEMMA UnregisterInv ==
  ASSUME ChainInv, Unregister
  PROVE  ChainInv'
<1>1. /\ at = "unregister" /\ vec = NULL /\ hal' = hal \ {IndexOf(obj)}
      /\ at' = "out" /\ obj' = NULL
      /\ UNCHANGED <<chain_list, chain_next, attached, prev>> /\ UNCHANGED walk
  BY DEF Unregister, Thread
<1>2. Walking' /\ UNCHANGED <<vec, p, handled, asked>>
  BY <1>1, NoWalk
<1>3. chain_list[IndexOf(obj)] = NULL /\ prev = NULL
  BY <1>1 DEF ChainInv, BetweenStores
<1>4. ChainTypeOK'
  BY <1>1, <1>2 DEF ChainInv, ChainTypeOK, Pointer
<1>5. \A j : OnChain(j)' <=> OnChain(j)
  BY <1>1 DEF OnChain
<1>6. ASSUME NEW x \in Index PROVE \E w \in Seq(Interrupt) : Chained(x, w)'
  <2>1. PICK w \in Seq(Interrupt) : Chained(x, w)
    BY DEF ChainInv
  <2>2. Chained(x, w)'
    BY <1>1, <1>5, <2>1, SameChain
  <2> QED
    BY <2>2
<1>7. BetweenStores' /\ Registered'
  BY <1>1, <1>3 DEF ChainInv, BetweenStores, Registered
<1> QED
  BY <1>2, <1>4, <1>6, <1>7 DEF ChainInv

\* The link of the object before, or the head of the chain, leads to the new
\* one.
LEMMA LinkInv ==
  ASSUME ChainInv, Link
  PROVE  ChainInv'
<1>1. PICK i \in Interrupt, x \in Index : i = obj /\ x = IndexOf(i)
  <2>1. obj \in Interrupt
    BY DEF Link, Thread, ChainInv, ChainTypeOK, BetweenStores, Pointer
  <2> QED
    BY <2>1, IndexIs
<1>2. /\ at = "link" /\ vec = NULL /\ Point(x, prev, i)
      /\ attached' = attached \cup {i} /\ at' = "out" /\ obj' = NULL /\ prev' = NULL
      /\ hal' = hal /\ UNCHANGED walk
  BY <1>1 DEF Link, Thread
<1>3. Walking' /\ UNCHANGED <<vec, p, handled, asked>>
  BY <1>2, NoWalk
<1>4. i \notin attached
  BY <1>1, <1>2 DEF ChainInv, BetweenStores
<1>5. PICK w \in Seq(Interrupt) : Chained(x, w) /\ w # <<>> /\ \E k \in 0 .. Len(w) : InPlace(w, k)
  BY <1>1, <1>2 DEF ChainInv, BetweenStores
<1>6. PICK k \in 0 .. Len(w) : InPlace(w, k)
  BY <1>5
<1>7. /\ prev = IF k = 0 THEN NULL ELSE w[k]
      /\ chain_next[i] = Item(NULL, w, k + 1)
      /\ \A j \in 1 .. Len(w) : IF j <= k THEN priority[w[j]] >= priority[i]
                                         ELSE priority[w[j]] <= priority[i]
  BY <1>1, <1>6 DEF InPlace
<1>8. \A j : (OnChain(j) <=> j \in attached) /\ (OnChain(j)' <=> j \in attached \/ j = i)
  BY <1>2 DEF OnChain
<1>9. \A j \in 1 .. Len(w) : w[j] # i /\ w[j] \in Interrupt /\ IndexOf(w[j]) = x
  <2> TAKE j \in 1 .. Len(w)
  <2>1. w[j] \in Interrupt
    OBVIOUS
  <2> QED
    BY <1>4, <1>5, <1>8, <2>1 DEF Chained
<1>10. chain_list \in [Index -> Pointer] /\ chain_next \in [Interrupt -> Pointer]
  BY DEF ChainInv, ChainTypeOK
<1>11. /\ chain_list' = IF k = 0 THEN [chain_list EXCEPT ![x] = i] ELSE chain_list
       /\ chain_next' = IF k = 0 THEN chain_next ELSE [chain_next EXCEPT ![w[k]] = i]
  <2>1. CASE k = 0
    BY <1>2, <1>7, <2>1 DEF Point
  <2>2. CASE k # 0
    <3>1. w[k] # NULL
      BY <1>9, <2>2, NullAssumption
    <3> QED
      BY <1>2, <1>7, <2>2, <3>1 DEF Point
  <2> QED
    BY <2>1, <2>2
<1>12. \A j \in 1 .. Len(w) : chain_next'[w[j]] = IF j = k THEN i ELSE chain_next[w[j]]
  <2> TAKE j \in 1 .. Len(w)
  <2>1. CASE k = 0
    BY <1>11, <2>1
  <2>2. CASE k # 0
    <3>1. w[j] = w[k] <=> j = k
      BY <1>5, <2>2 DEF Chained, Path
    <3> QED
      BY <1>9, <1>10, <1>11, <2>2, <3>1
  <2> QED
    BY <2>1, <2>2
<1>13. chain_next'[i] = Item(NULL, w, k + 1)
  <2>1. CASE k = 0
    BY <1>7, <1>11, <2>1
  <2>2. CASE k # 0
    <3>1. w[k] # i
      BY <1>9, <2>2
    <3> QED
      BY <1>7, <1>10, <1>11, <2>2, <3>1
  <2> QED
    BY <2>1, <2>2
<1>14. chain_list'[x] = IF k = 0 THEN i ELSE chain_list[x]
  BY <1>10, <1>11
<1>15. PICK v \in Seq(Interrupt) : With(w, k, i, v) /\ Path(chain_next', NULL, chain_list'[x], v)
  <2>1. Path(chain_next, NULL, chain_list[x], w)
    BY <1>5 DEF Chained
  <2>2. \A j \in 1 .. Len(w) : w[j] # i
    BY <1>9
  <2>3. PutsIn(chain_next, NULL, chain_list[x], w, k, i, chain_next', chain_list'[x])
    BY <1>12, <1>13, <1>14 DEF PutsIn
  <2> QED
    BY <2>1, <2>2, <2>3, PathWith
<1>16. Chained(x, v)'
  <2>1. NotRising(v)
    BY <1>5, <1>7, <1>15, NotRisingWith DEF Chained
  <2>2. \A j \in Interrupt : (\E l \in 1 .. Len(v) : v[l] = j) <=> j = i \/ \E l \in 1 .. Len(w) : w[l] = j
    BY <1>15 DEF With
  <2>3. \A j \in Interrupt : (\E l \in 1 .. Len(v) : v[l] = j) <=> IndexOf(j) = x /\ OnChain(j)'
    BY <1>1, <1>5, <1>8, <2>2 DEF Chained
  <2> QED
    BY <1>15, <2>1, <2>3 DEF Chained
<1>17. ASSUME NEW y \in Index, y # x PROVE \E s \in Seq(Interrupt) : Chained(y, s)'
  <2>1. PICK s \in Seq(Interrupt) : Chained(y, s)
    BY DEF ChainInv
  <2>2. chain_list'[y] = chain_list[y]
    BY <1>10, <1>11, <1>17
  <2>3. \A j \in Interrupt : IndexOf(j) = y /\ OnChain(j) => chain_next'[j] = chain_next[j]
    <3>1. k # 0 => IndexOf(w[k]) = x
      BY <1>9
    <3> QED
      BY <1>10, <1>11, <1>17, <3>1
  <2>4. \A j \in Interrupt : IndexOf(j) = y => (OnChain(j)' <=> OnChain(j))
    BY <1>1, <1>8, <1>17
  <2>5. Chained(y, s)'
    BY <2>1, <2>2, <2>3, <2>4, SameChain
  <2> QED
    BY <2>5
<1>18. ChainTypeOK'
  <2>1. chain_list' \in [Index -> Pointer] /\ chain_next' \in [Interrupt -> Pointer]
    <3>1. i \in Pointer
      BY DEF Pointer
    <3> QED
      BY <1>10, <1>11, <3>1
  <2>2. NULL \in Pointer
    BY DEF Pointer
  <2> QED
    BY <1>2, <1>3, <2>1, <2>2 DEF ChainInv, ChainTypeOK
<1>19. Registered'
  <2>1. ASSUME NEW y \in Index, chain_list'[y] # NULL PROVE y \in hal
    <3>1. chain_list[y] # NULL
      <4>1. CASE y = x
        BY <1>5, <4>1, EmptyChain
      <4>2. CASE y # x
        BY <1>10, <1>11, <2>1, <4>2
      <4> QED
        BY <4>1, <4>2
    <3> QED
      BY <1>2, <3>1 DEF ChainInv, Registered
  <2> QED
    BY <1>2, <2>1 DEF Registered
<1>20. BetweenStores'
  BY <1>2 DEF BetweenStores
<1> QED
  BY <1>3, <1>16, <1>17, <1>18, <1>19, <1>20 DEF ChainInv

\* An object on its chain is taken off; the links on other chains stay.
LEMMA TakeOffOn ==
  ASSUME ChainTypeOK, NEW i \in Interrupt, NEW x \in Index, x = IndexOf(i), TakeOff(i),
         NEW w \in Seq(Interrupt), Chained(x, w), NEW m \in 1 .. Len(w), w[m] = i
  PROVE  /\ \E v \in Seq(Interrupt) :
              Without(w, m, v) /\ Path(chain_next', NULL, chain_list'[x], v)
         /\ \A j \in Interrupt : IndexOf(j) # x => chain_next'[j] = chain_next[j]
         /\ \A y \in Index : y # x => chain_list'[y] = chain_list[y]
         /\ chain_list' \in [Index -> Pointer] /\ chain_next' \in [Interrupt -> Pointer]
<1> DEFINE before == {n \in Range(ChainOf(x)) \cup {NULL} : After(x, n) = i}
<1>1. Path(chain_next, NULL, chain_list[x], w) /\ ChainOf(x) = w
  BY ChainIs DEF Chained
<1>2. PICK n \in Nat \ {0} : n = Len(w)
  OBVIOUS
<1>3. Range(ChainOf(x)) = {w[j] : j \in 1 .. n}
  BY <1>1, <1>2 DEF Range
<1>4. \A j \in 1 .. n : w[j] \in Interrupt /\ w[j] # NULL /\ IndexOf(w[j]) = x
  <2> TAKE j \in 1 .. n
  <2>1. w[j] \in Interrupt
    BY <1>2
  <2> QED
    BY <1>2, <2>1, NullAssumption DEF Chained
<1>5. \A j \in 1 .. n : After(x, w[j]) = Item(NULL, w, j + 1)
  BY <1>1, <1>2, <1>4 DEF After, Path
<1>6. After(x, NULL) = Item(NULL, w, 1)
  BY <1>1 DEF After, Path
<1>7. \A j \in 1 .. n + 1 : Item(NULL, w, j) = i <=> j = m
  <2> TAKE j \in 1 .. n + 1
  <2>1. CASE j = n + 1
    BY <1>2, <2>1, NullAssumption DEF Item
  <2>2. CASE j # n + 1
    <3>1. j \in 1 .. n /\ ~(j > Len(w))
      BY <1>2, <2>2
    <3> QED
      BY <1>1, <1>2, <3>1 DEF Item, Path
  <2> QED
    BY <2>1, <2>2
<1> DEFINE q == IF m = 1 THEN NULL ELSE w[m - 1]
<1>8. before = {q}
  <2>1. ASSUME NEW b \in before PROVE b = q
    <3>1. CASE b = NULL
      <4>1. m = 1
        BY <1>2, <1>6, <1>7, <3>1
      <4> QED
        BY <3>1, <4>1
    <3>2. CASE b # NULL
      <4>1. PICK j \in 1 .. n : b = w[j]
        BY <1>3, <3>2
      <4>2. Item(NULL, w, j + 1) = i
        BY <1>5, <4>1
      <4>3. j + 1 \in 1 .. n + 1
        OBVIOUS
      <4>4. j + 1 = m
        BY <1>7, <4>2, <4>3
      <4>5. m # 1 /\ m - 1 = j
        BY <4>4
      <4> QED
        BY <4>1, <4>5
    <3> QED
      BY <3>1, <3>2
  <2>2. q \in before
    <3>1. CASE m = 1
      BY <1>2, <1>6, <1>7, <3>1
    <3>2. CASE m # 1
      <4>1. m - 1 \in 1 .. n /\ (m - 1) + 1 = m /\ m \in 1 .. n + 1
        BY <1>2, <3>2
      <4>2. After(x, w[m - 1]) = i
        BY <1>5, <1>7, <4>1
      <4> QED
        BY <1>3, <3>2, <4>1, <4>2
    <3> QED
      BY <3>1, <3>2
  <2> HIDE DEF before, q
  <2> QED
    BY <2>1, <2>2
<1>9. Point(x, q, chain_next[i])
  <2>1. before # {} /\ (CHOOSE b \in before : TRUE) = q
    <3> HIDE DEF before, q
    <3> QED
      BY <1>8
  <2>2. IF before = {} THEN UNCHANGED <<chain_list, chain_next>>
                       ELSE Point(x, CHOOSE b \in before : TRUE, chain_next[i])
    BY DEF TakeOff
  <2> HIDE DEF before, q
  <2> QED
    BY <2>1, <2>2
<1>10. chain_list \in [Index -> Pointer] /\ chain_next \in [Interrupt -> Pointer]
       /\ chain_next[i] \in Pointer
  BY DEF ChainTypeOK
<1>11. CASE m = 1
  <2>1. chain_list' = [chain_list EXCEPT ![x] = chain_next[i]] /\ chain_next' = chain_next
    BY <1>9, <1>11 DEF Point
  <2>2. chain_list'[x] = chain_next[w[m]]
    BY <1>10, <2>1
  <2>3. \A j \in 1 .. Len(w) :
          j # m => chain_next'[w[j]] = IF j + 1 = m THEN chain_next[w[m]] ELSE chain_next[w[j]]
    BY <1>11, <2>1
  <2>4. \E v \in Seq(Interrupt) : Without(w, m, v) /\ Path(chain_next', NULL, chain_list'[x], v)
    <3>1. TakesOut(chain_next, chain_list[x], w, m, chain_next', chain_list'[x])
      BY <1>11, <2>2, <2>3 DEF TakesOut
    <3> HIDE DEF q, before
    <3> QED
      BY <1>1, <3>1, PathWithout
  <2> QED
    BY <1>10, <2>1, <2>4
<1>12. CASE m # 1
  <2>1. m - 1 \in 1 .. n /\ m - 1 # m
    BY <1>2, <1>12
  <2>2. chain_next' = [chain_next EXCEPT ![w[m - 1]] = chain_next[i]] /\ chain_list' = chain_list
    BY <1>4, <1>9, <1>12, <2>1 DEF Point
  <2>3. \A j \in 1 .. Len(w) :
          j # m => chain_next'[w[j]] = IF j + 1 = m THEN chain_next[w[m]] ELSE chain_next[w[j]]
    <3> TAKE j \in 1 .. Len(w)
    <3>1. w[j] = w[m - 1] <=> j = m - 1
      BY <1>1, <1>2, <2>1 DEF Path
    <3>2. j + 1 = m <=> j = m - 1
      OBVIOUS
    <3>3. w[j] \in Interrupt
      OBVIOUS
    <3> QED
      BY <1>10, <2>2, <3>1, <3>2, <3>3
  <2>4. \E v \in Seq(Interrupt) : Without(w, m, v) /\ Path(chain_next', NULL, chain_list'[x], v)
    <3>1. TakesOut(chain_next, chain_list[x], w, m, chain_next', chain_list'[x])
      BY <1>12, <2>2, <2>3 DEF TakesOut
    <3> HIDE DEF q, before
    <3> QED
      BY <1>1, <3>1, PathWithout
  <2>5. \A j \in Interrupt : IndexOf(j) # x => chain_next'[j] = chain_next[j]
    BY <1>4, <1>10, <2>1, <2>2
  <2> QED
    BY <1>10, <2>2, <2>4, <2>5
<1> QED
  BY <1>11, <1>12

\* An object that is on no chain is on none afterwards.
LEMMA TakeOffNone ==
  ASSUME ChainTypeOK, NEW i \in Interrupt, NEW x \in Index, x = IndexOf(i), TakeOff(i),
         NEW w \in Seq(Interrupt), Chained(x, w), \A m \in 1 .. Len(w) : w[m] # i
  PROVE  UNCHANGED <<chain_list, chain_next>>
<1>1. Path(chain_next, NULL, chain_list[x], w) /\ ChainOf(x) = w
  BY ChainIs DEF Chained
<1>2. Range(ChainOf(x)) = {w[j] : j \in 1 .. Len(w)}
  BY <1>1 DEF Range
<1>3. \A j \in 1 .. Len(w) : w[j] # NULL
  <2> TAKE j \in 1 .. Len(w)
  <2>1. w[j] \in Interrupt
    OBVIOUS
  <2> QED
    BY <2>1, NullAssumption
<1>4. ASSUME NEW j \in 1 .. Len(w) + 1 PROVE Item(NULL, w, j) # i
  <2>1. j > Len(w) \/ j \in 1 .. Len(w)
    OBVIOUS
  <2> QED
    BY <2>1, NullAssumption DEF Item
<1>5. ASSUME NEW b \in Range(ChainOf(x)) \cup {NULL} PROVE After(x, b) # i
  <2>1. CASE b = NULL
    <3>1. After(x, b) = Item(NULL, w, 1) /\ 1 \in 1 .. Len(w) + 1
      BY <1>1, <2>1 DEF After, Path
    <3> QED
      BY <1>4, <3>1
  <2>2. CASE b # NULL
    <3>1. PICK j \in 1 .. Len(w) : b = w[j]
      BY <1>2, <2>2
    <3>2. After(x, b) = Item(NULL, w, j + 1) /\ j + 1 \in 1 .. Len(w) + 1
      BY <1>1, <2>2, <3>1 DEF After, Path
    <3> QED
      BY <1>4, <3>2
  <2> QED
    BY <2>1, <2>2
<1>6. {b \in Range(ChainOf(x)) \cup {NULL} : After(x, b) = i} = {}
  BY <1>5
<1> QED
  BY <1>6 DEF TakeOff

\* An object is detached, on a chain or not.
LEMMA DetachInv ==
  ASSUME ChainInv, NEW i \in Interrupt, Detach(i)
  PROVE  ChainInv'
<1>1. PICK x \in Index : x = IndexOf(i)
  BY IndexIs
<1>2. /\ at = "out" /\ vec = NULL /\ TakeOff(i) /\ attached' = attached \ {i}
      /\ IF chain_list'[x] = NULL THEN at' = "unregister" /\ obj' = i
                                  ELSE at' = at /\ obj' = obj
      /\ UNCHANGED <<hal, prev>> /\ UNCHANGED walk
  BY <1>1 DEF Detach, Thread
<1>3. Walking' /\ UNCHANGED <<vec, p, handled, asked>>
  BY <1>2, NoWalk
<1>4. obj = NULL /\ prev = NULL
  BY <1>2 DEF ChainInv, BetweenStores
<1>5. \A j : (OnChain(j) <=> j \in attached) /\ (OnChain(j)' <=> j \in attached /\ j # i)
  BY <1>2 DEF OnChain
<1>6. PICK w \in Seq(Interrupt) : Chained(x, w)
  BY DEF ChainInv
<1>7. ASSUME NEW y \in Index, y # x, chain_list'[y] = chain_list[y],
             \A j \in Interrupt : IndexOf(j) # x => chain_next'[j] = chain_next[j]
      PROVE  \E s \in Seq(Interrupt) : Chained(y, s)'
  <2>1. PICK s \in Seq(Interrupt) : Chained(y, s)
    BY DEF ChainInv
  <2>2. \A j \in Interrupt : IndexOf(j) = y /\ OnChain(j) => chain_next'[j] = chain_next[j]
    BY <1>7
  <2>3. \A j \in Interrupt : IndexOf(j) = y => (OnChain(j)' <=> OnChain(j))
    BY <1>1, <1>5, <1>7
  <2>4. Chained(y, s)'
    BY <1>7, <2>1, <2>2, <2>3, SameChain
  <2> QED
    BY <2>4
<1>8. /\ \E v \in Seq(Interrupt) : Chained(x, v)'
      /\ chain_list'[x] # NULL => chain_list[x] # NULL
      /\ \A j \in Interrupt : IndexOf(j) # x => chain_next'[j] = chain_next[j]
      /\ \A y \in Index : y # x => chain_list'[y] = chain_list[y]
      /\ chain_list' \in [Index -> Pointer] /\ chain_next' \in [Interrupt -> Pointer]
  <2>1. CASE \E m \in 1 .. Len(w) : w[m] = i
    <3>1. PICK m \in 1 .. Len(w) : w[m] = i
      BY <2>1
    <3>2. /\ \E v \in Seq(Interrupt) :
               Without(w, m, v) /\ Path(chain_next', NULL, chain_list'[x], v)
          /\ \A j \in Interrupt : IndexOf(j) # x => chain_next'[j] = chain_next[j]
          /\ \A y \in Index : y # x => chain_list'[y] = chain_list[y]
          /\ chain_list' \in [Index -> Pointer] /\ chain_next' \in [Interrupt -> Pointer]
      BY <1>1, <1>2, <1>6, <3>1, TakeOffOn DEF ChainInv
    <3>3. PICK v \in Seq(Interrupt) :
            Without(w, m, v) /\ Path(chain_next', NULL, chain_list'[x], v)
      BY <3>2
    <3>4. NotRising(v)
      BY <1>6, <3>3, NotRisingWithout DEF Chained
    <3>5. \A j \in Interrupt : (\E l \in 1 .. Len(v) : v[l] = j)
                                 <=> j # i /\ \E l \in 1 .. Len(w) : w[l] = j
      BY <3>1, <3>3 DEF Without
    <3>6. \A j \in Interrupt : (\E l \in 1 .. Len(v) : v[l] = j) <=> IndexOf(j) = x /\ OnChain(j)'
      BY <1>5, <1>6, <3>5 DEF Chained
    <3>7. Chained(x, v)'
      BY <3>3, <3>4, <3>6 DEF Chained
    <3>8. chain_list[x] # NULL
      <4>1. Len(w) # 0
        OBVIOUS
      <4> QED
        BY <1>6, <4>1, EmptyChain
    <3> QED
      BY <3>2, <3>7, <3>8
  <2>2. CASE \A m \in 1 .. Len(w) : w[m] # i
    <3>1. UNCHANGED <<chain_list, chain_next>>
      BY <1>1, <1>2, <1>6, <2>2, TakeOffNone DEF ChainInv
    <3>2. i \notin attached
      BY <1>1, <1>5, <1>6, <2>2 DEF Chained
    <3>3. Chained(x, w)'
      <4>1. \A j \in Interrupt : IndexOf(j) = x => (OnChain(j)' <=> OnChain(j))
        BY <1>5, <3>2
      <4> QED
        BY <1>6, <3>1, <4>1, SameChain
    <3> QED
      BY <3>1, <3>3 DEF ChainInv, ChainTypeOK
  <2> QED
    BY <2>1, <2>2
<1>9. \A y \in Index : \E s \in Seq(Interrupt) : Chained(y, s)'
  <2> TAKE y \in Index
  <2>1. CASE y = x
    BY <1>8, <2>1
  <2>2. CASE y # x
    BY <1>7, <1>8, <2>2
  <2> QED
    BY <2>1, <2>2
<1>10. ChainTypeOK'
  <2>1. at' \in {"out", "unregister"} /\ obj' \in Pointer
    BY <1>2, <1>4 DEF Pointer
  <2> QED
    BY <1>2, <1>3, <1>8, <2>1 DEF ChainInv, ChainTypeOK
<1>11. Registered'
  <2>1. ASSUME NEW y \in Index, chain_list'[y] # NULL PROVE y \in hal
    <3>1. chain_list[y] # NULL
      BY <1>8, <2>1
    <3> QED
      BY <1>2, <3>1 DEF ChainInv, Registered
  <2> QED
    BY <1>2, <2>1 DEF Registered
<1>12. BetweenStores'
  <2>1. i # NULL
    BY NullAssumption
  <2>2. CASE chain_list'[x] = NULL
    BY <1>1, <1>2, <1>4, <2>1, <2>2 DEF BetweenStores
  <2>3. CASE chain_list'[x] # NULL
    BY <1>2, <1>4, <2>3 DEF BetweenStores
  <2> QED
    BY <2>2, <2>3
<1> QED
  BY <1>3, <1>9, <1>10, <1>11, <1>12 DEF ChainInv
-----------------------------------------------------------------------------
\* No step spoils a chain, wherever an interrupt falls.
LEMMA NextChainInv ==
  ASSUME ChainInv, [ChainNext]_allvars
  PROVE  ChainInv'
<1>1. ASSUME NEW i \in Interrupt, Create(i) \/ Attach(i) \/ Detach(i) PROVE ChainInv'
  BY <1>1, CreateInv, AttachFirstInv, AttachNextInv, DetachInv
<1>2. CASE Register \/ Link \/ Unregister
  BY <1>2, RegisterInv, LinkInv, UnregisterInv
<1>3. CASE Disable \/ Save \/ Count \/ Enable \/ Restore
  <2>1. /\ UNCHANGED <<chain_list, chain_next, attached, hal, obj, prev>> /\ UNCHANGED walk
        /\ at \in {"out", "save", "count", "restore"}
        /\ at' \in {"out", "save", "count", "restore"}
    BY <1>3 DEF Disable, Save, Count, Enable, Restore, Thread, chains
  <2>2. {at, at'} \subseteq {"out", "save", "count", "restore"}
    BY <2>1
  <2> QED
    BY <2>1, <2>2, StaysInv
<1>4. CASE Others \/ CallDsrs \/ UNCHANGED allvars
  <2>1. UNCHANGED chains /\ UNCHANGED thread /\ UNCHANGED walk
    BY <1>4 DEF Others, CallDsrs, allvars
  <2> QED
    BY <2>1, StaysInv DEF chains, thread
<1>5. ASSUME NEW v \in Vector, Deliver(v) PROVE ChainInv'
  BY <1>5, DeliverInv
<1>6. CASE CallIsr \/ SkipIsr \/ EndIsr
  BY <1>6, CallIsrInv, SkipIsrInv, EndIsrInv
<1> QED
  BY <1>1, <1>2, <1>3, <1>4, <1>5, <1>6 DEF ChainNext

\* What the invariant says of the end of a walk.
LEMMA InvNoneMissed == ChainInv => NoneMissed
<1> SUFFICES ASSUME ChainInv PROVE NoneMissed
  OBVIOUS
<1>1. ASSUME NEW i \in attached PROVE IndexOf(i) \in hal
  <2>1. PICK x \in Index : x = IndexOf(i)
    BY IndexIs DEF ChainInv, ChainTypeOK
  <2>2. PICK w \in Seq(Interrupt) : Chained(x, w)
    BY DEF ChainInv
  <2>3. chain_list[x] # NULL
    <3>1. \E k \in 1 .. Len(w) : w[k] = i
      BY <2>1, <2>2 DEF Chained, OnChain, ChainInv, ChainTypeOK
    <3>2. Len(w) # 0
      BY <3>1
    <3> QED
      BY <2>2, <3>2, EmptyChain
  <2> QED
    BY <2>1, <2>3 DEF ChainInv, Registered, BetweenStores
<1>2. ASSUME vec # NULL, p = NULL, ~handled
      PROVE  /\ \A i \in attached : vector[i] = vec => i \in Range(asked)
             /\ \A m, n \in DOMAIN asked :
                  m < n => asked[m] # asked[n] /\ priority[asked[m]] >= priority[asked[n]]
             /\ Range(asked) \subseteq attached \cup {obj}
  <2>1. PICK w \in Seq(Interrupt) : /\ Chained(HAL_TRANSLATE_VECTOR[vec], w)
                                    /\ \E k \in 1 .. Len(w) + 1 : Walked(w, k)
    BY <1>2 DEF ChainInv, Walking
  <2>2. PICK k \in 1 .. Len(w) + 1 : Walked(w, k)
    BY <2>1
  <2>3. k = Len(w) + 1
    <3>1. ASSUME k # Len(w) + 1 PROVE FALSE
      <4>1. k \in 1 .. Len(w) /\ w[k] \in Interrupt
        BY <3>1
      <4>2. p = w[k]
        BY <2>2, <4>1 DEF Walked, Item
      <4> QED
        BY <1>2, <4>1, <4>2, NullAssumption
    <3> QED
      BY <3>1
  <2>4. asked \in Seq(Interrupt) /\ DOMAIN asked = 1 .. Len(asked)
    BY DEF ChainInv, ChainTypeOK
  <2>5. \A i : i \in Range(asked) <=> \E m \in 1 .. Len(asked) : asked[m] = i
    BY <2>4 DEF Range
  <2>6. k - 1 = Len(w)
    BY <2>3
  <2>7. ASSUME NEW i \in Interrupt
        PROVE  i \in Range(asked) <=> vector[i] = vec /\ \E j \in 1 .. Len(w) : w[j] = i
    BY <2>2, <2>5, <2>6 DEF Walked
  <2>8. ASSUME NEW i \in Interrupt
        PROVE  i \in Range(asked) <=> vector[i] = vec /\ OnChain(i)
    BY <2>1, <2>7 DEF Chained, IndexOf
  <2>9. Range(asked) \subseteq Interrupt
    <3>1. \A m \in 1 .. Len(asked) : asked[m] \in Interrupt
      BY <2>4
    <3> QED
      BY <2>5, <3>1
  <2>10. \A m, n \in DOMAIN asked :
           m < n => asked[m] # asked[n] /\ priority[asked[m]] >= priority[asked[n]]
    BY <2>2, <2>4 DEF Walked
  <2> QED
    BY <2>8, <2>9, <2>10 DEF OnChain, ChainInv, ChainTypeOK
<1> QED
  BY <1>1, <1>2 DEF NoneMissed

\* No ISR is missed and none is called twice, wherever an interrupt falls into
\* an attach or a detach, and they are called in the order of their priorities
\* (intr.cxx:411).
THEOREM AlwaysNoneMissed == ChainSpec => []NoneMissed
<1>1. ChainInv /\ [ChainNext]_allvars => ChainInv'
  BY NextChainInv
<1> QED
  BY InitChainInv, InvNoneMissed, <1>1, PTL DEF ChainSpec
=============================================================================
