---------------------------- MODULE ThreadProofs ----------------------------
(***************************************************************************)
(* What the methods of MLQueue and Thread leave of the record of the       *)
(* kernel's objects: which fields they change, and that the run queues and *)
(* the wait queues stay right.  The lemmas are about one call each; they   *)
(* are the steps of the inductions in KernelProofs and InheritProofs.      *)
(***************************************************************************)
EXTENDS Thread, SequenceTheorems, WellFoundedInduction, TLAPS

\* A list has no thread twice.
Once(q) == \A m, n \in 1 .. Len(q) : q[m] = q[n] => m = n
-----------------------------------------------------------------------------
(***************************************************************************)
(* Lists of threads.                                                       *)
(***************************************************************************)

\* Unlinking a thread (Cyg_CList::remove) takes it off the list, leaves the
\* others on it and puts nobody twice.
LEMMA UnlinkList ==
  ASSUME NEW q \in Seq(Thread), NEW t \in Thread
  PROVE  /\ Unlink(q, t) \in Seq(Thread)
         /\ \A u \in Thread \ {t} : On(Unlink(q, t), u) <=> On(q, u)
         /\ Once(q) => Once(Unlink(q, t)) /\ ~On(Unlink(q, t), t)
<1>1. CASE ~On(q, t)
  BY <1>1 DEF Unlink
<1>2. CASE On(q, t)
  <2> DEFINE i == CHOOSE j \in 1 .. Len(q) : q[j] = t
             a == SubSeq(q, 1, i - 1)
             b == SubSeq(q, i + 1, Len(q))
  <2>1. i \in 1 .. Len(q) /\ q[i] = t
    BY <1>2 DEF On
  <2>2. Unlink(q, t) = a \o b
    BY <1>2 DEF Unlink
  <2> HIDE DEF i
  <2>3. /\ a \in Seq(Thread) /\ Len(a) = i - 1
        /\ \A n \in 1 .. i - 1 : a[n] = q[n]
    BY <2>1
  <2>4. /\ b \in Seq(Thread) /\ Len(b) = Len(q) - i
        /\ \A n \in 1 .. Len(q) - i : b[n] = q[n + i]
    BY <2>1
  <2> HIDE DEF a, b
  <2> DEFINE r == a \o b
  <2>5. /\ r \in Seq(Thread) /\ Len(r) = Len(q) - 1
        /\ \A n \in 1 .. Len(q) - 1 : r[n] = IF n < i THEN q[n] ELSE q[n + 1]
    <3>1. /\ r \in Seq(Thread) /\ Len(r) = Len(a) + Len(b)
          /\ \A n \in 1 .. Len(a) + Len(b) :
               r[n] = IF n <= Len(a) THEN a[n] ELSE b[n - Len(a)]
      BY <2>3, <2>4, ConcatProperties
    <3> HIDE DEF r
    <3>2. Len(a) + Len(b) = Len(q) - 1
      BY <2>1, <2>3, <2>4
    <3>3. ASSUME NEW n \in 1 .. Len(q) - 1
          PROVE  r[n] = IF n < i THEN q[n] ELSE q[n + 1]
      <4>1. r[n] = IF n <= i - 1 THEN a[n] ELSE b[n - (i - 1)]
        BY <2>3, <3>1, <3>2
      <4>2. CASE n < i
        BY <2>1, <2>3, <4>1, <4>2
      <4>3. CASE n >= i
        <5>1. n - (i - 1) \in 1 .. Len(q) - i /\ (n - (i - 1)) + i = n + 1
          BY <2>1, <4>3
        <5> QED
          BY <2>1, <2>4, <4>1, <4>3, <5>1
      <4> QED
        BY <2>1, <4>2, <4>3
    <3> QED
      BY <3>1, <3>2, <3>3
  <2> HIDE DEF r
  <2>6. ASSUME NEW u \in Thread \ {t}, On(q, u) PROVE On(r, u)
    <3>1. PICK n \in 1 .. Len(q) : q[n] = u
      BY <2>6 DEF On
    <3>2. n # i
      BY <2>1, <3>1
    <3>3. CASE n < i
      BY <2>1, <2>5, <3>1, <3>3 DEF On
    <3>4. CASE n > i
      <4>1. n - 1 \in 1 .. Len(q) - 1 /\ r[n - 1] = u
        BY <2>1, <2>5, <3>1, <3>4
      <4> QED
        BY <2>5, <4>1 DEF On
    <3> QED
      BY <2>1, <3>1, <3>2, <3>3, <3>4
  <2>7. ASSUME NEW u \in Thread, On(r, u)
        PROVE  \E n \in 1 .. Len(q) : n # i /\ q[n] = u
    <3>1. PICK n \in 1 .. Len(r) : r[n] = u
      BY <2>7 DEF On
    <3>2. CASE n < i
      BY <2>1, <2>5, <3>1, <3>2
    <3>3. CASE n >= i
      <4>1. n + 1 \in 1 .. Len(q) /\ n + 1 # i /\ q[n + 1] = u
        BY <2>1, <2>5, <3>1, <3>3
      <4> QED
        BY <4>1
    <3> QED
      BY <2>1, <2>5, <3>1, <3>2, <3>3
  <2>8. ASSUME Once(q) PROVE Once(r)
    <3> SUFFICES ASSUME NEW m \in 1 .. Len(r), NEW n \in 1 .. Len(r), r[m] = r[n]
                 PROVE  m = n
      BY DEF Once
    <3> DEFINE Was(x) == IF x < i THEN x ELSE x + 1
    <3>1. /\ Was(m) \in 1 .. Len(q) /\ Was(n) \in 1 .. Len(q)
          /\ q[Was(m)] = q[Was(n)]
      BY <2>1, <2>5
    <3>2. Was(m) = Was(n)
      BY <2>8, <3>1 DEF Once
    <3> QED
      BY <2>1, <2>5, <3>2
  <2>9. Once(q) => ~On(r, t)
    BY <2>1, <2>7 DEF Once
  <2> QED
    BY <2>2, <2>5, <2>6, <2>7, <2>8, <2>9 DEF On, r
<1> QED
  BY <1>1, <1>2

\* Appending a thread that is not on the list adds just that one.
LEMMA AppendList ==
  ASSUME NEW q \in Seq(Thread), NEW t \in Thread
  PROVE  /\ Append(q, t) \in Seq(Thread)
         /\ Append(q, t) # <<>>
         /\ \A u \in Thread : On(Append(q, t), u) <=> On(q, u) \/ u = t
         /\ Once(q) /\ ~On(q, t) => Once(Append(q, t))
<1> DEFINE r == Append(q, t)
<1>1. /\ r \in Seq(Thread) /\ Len(r) = Len(q) + 1 /\ r # <<>>
      /\ r[Len(q) + 1] = t
      /\ \A n \in 1 .. Len(q) : r[n] = q[n]
  OBVIOUS
<1> HIDE DEF r
<1>2. ASSUME NEW u \in Thread PROVE On(r, u) <=> On(q, u) \/ u = t
  <2>1. On(q, u) => On(r, u)
    BY <1>1 DEF On
  <2>2. On(r, t)
    BY <1>1 DEF On
  <2>3. On(r, u) => On(q, u) \/ u = t
    BY <1>1 DEF On
  <2> QED
    BY <2>1, <2>2, <2>3
<1>3. Once(q) /\ ~On(q, t) => Once(r)
  BY <1>1 DEF Once, On
<1> QED
  BY <1>1, <1>2, <1>3 DEF r

\* Taking the head off takes just that one.
LEMMA TailList ==
  ASSUME NEW q \in Seq(Thread), q # <<>>
  PROVE  /\ Head(q) \in Thread /\ On(q, Head(q))
         /\ Tail(q) \in Seq(Thread)
         /\ \A u \in Thread \ {Head(q)} : On(Tail(q), u) <=> On(q, u)
         /\ Once(q) => Once(Tail(q)) /\ ~On(Tail(q), Head(q))
<1> DEFINE r == Tail(q)
<1>1. /\ r \in Seq(Thread) /\ Len(r) = Len(q) - 1 /\ Len(q) > 0
      /\ Head(q) = q[1]
      /\ \A n \in 1 .. Len(r) : r[n] = q[n + 1]
  OBVIOUS
<1> HIDE DEF r
<1>2. ASSUME NEW u \in Thread \ {Head(q)} PROVE On(r, u) <=> On(q, u)
  <2>1. ASSUME On(q, u) PROVE On(r, u)
    <3>1. PICK n \in 1 .. Len(q) : q[n] = u
      BY <2>1 DEF On
    <3>2. n - 1 \in 1 .. Len(r) /\ r[n - 1] = u
      BY <1>1, <3>1
    <3> QED
      BY <3>2 DEF On
  <2>2. ASSUME On(r, u) PROVE On(q, u)
    <3>1. PICK n \in 1 .. Len(r) : r[n] = u
      BY <2>2 DEF On
    <3>2. n + 1 \in 1 .. Len(q) /\ q[n + 1] = u
      BY <1>1, <3>1
    <3> QED
      BY <3>2 DEF On
  <2> QED
    BY <2>1, <2>2
<1>3. ASSUME Once(q) PROVE Once(r) /\ ~On(r, Head(q))
  <2>1. \A m, n \in 1 .. Len(r) : r[m] = r[n] => m + 1 = n + 1
    BY <1>1, <1>3 DEF Once
  <2>2. \A n \in 1 .. Len(r) : r[n] # q[1]
    BY <1>1, <1>3 DEF Once
  <2> QED
    BY <1>1, <2>1, <2>2 DEF Once, On
<1>4. Head(q) \in Thread /\ On(q, Head(q))
  BY <1>1 DEF On
<1> QED
  BY <1>1, <1>2, <1>3, <1>4 DEF r

\* Rotating (Cyg_CList::rotate) keeps the same threads.
LEMMA RotatedList ==
  ASSUME NEW q \in Seq(Thread)
  PROVE  /\ Rotated(q) \in Seq(Thread)
         /\ Rotated(q) = <<>> <=> q = <<>>
         /\ \A u \in Thread : On(Rotated(q), u) <=> On(q, u)
         /\ Once(q) => Once(Rotated(q))
<1>1. CASE q = <<>>
  BY <1>1 DEF Rotated
<1>2. CASE q # <<>>
  <2> DEFINE h == Head(q)
             r == Tail(q)
  <2>1. /\ h \in Thread /\ On(q, h) /\ r \in Seq(Thread)
        /\ \A u \in Thread \ {h} : On(r, u) <=> On(q, u)
        /\ Once(q) => Once(r) /\ ~On(r, h)
    BY <1>2, TailList, Zenon
  <2>2. Rotated(q) = Append(r, h)
    BY <1>2 DEF Rotated
  <2> HIDE DEF h, r
  <2>3. /\ Append(r, h) \in Seq(Thread) /\ Append(r, h) # <<>>
        /\ \A u \in Thread : On(Append(r, h), u) <=> On(r, u) \/ u = h
        /\ Once(r) /\ ~On(r, h) => Once(Append(r, h))
    BY <2>1, AppendList
  <2> QED
    BY <1>2, <2>1, <2>2, <2>3
<1> QED
  BY <1>1, <1>2

\* Moving a thread of the list to its head keeps the same threads.
LEMMA ToHeadList ==
  ASSUME NEW q \in Seq(Thread), NEW t \in Thread
  PROVE  /\ ToHead(q, t) \in Seq(Thread)
         /\ ToHead(q, t) # <<>>
         /\ \A u \in Thread : On(ToHead(q, t), u) <=> On(q, u) \/ u = t
         /\ Once(q) => Once(ToHead(q, t))
<1> DEFINE r == Unlink(q, t)
           s == ToHead(q, t)
<1>1. /\ r \in Seq(Thread)
      /\ \A u \in Thread \ {t} : On(r, u) <=> On(q, u)
      /\ Once(q) => Once(r) /\ ~On(r, t)
  BY UnlinkList
<1>2. s = <<t>> \o r
  BY DEF ToHead
<1> HIDE DEF r, s
<1>3. /\ s \in Seq(Thread) /\ Len(s) = Len(r) + 1 /\ s[1] = t /\ s # <<>>
      /\ \A n \in 1 .. Len(r) : s[n + 1] = r[n]
  BY <1>1, <1>2
<1>4. \A n \in 2 .. Len(s) : n - 1 \in 1 .. Len(r) /\ s[n] = r[n - 1]
  <2> SUFFICES ASSUME NEW n \in 2 .. Len(s)
               PROVE  n - 1 \in 1 .. Len(r) /\ s[n] = r[n - 1]
    OBVIOUS
  <2>1. n - 1 \in 1 .. Len(r)
    BY <1>1, <1>3
  <2>2. s[(n - 1) + 1] = r[n - 1]
    BY <1>3, <2>1
  <2> QED
    BY <2>1, <2>2
<1>5. ASSUME NEW u \in Thread PROVE On(s, u) <=> On(r, u) \/ u = t
  <2>1. ASSUME On(r, u) PROVE On(s, u)
    <3>1. PICK n \in 1 .. Len(r) : r[n] = u
      BY <2>1 DEF On
    <3>2. n + 1 \in 1 .. Len(s) /\ s[n + 1] = u
      BY <1>1, <1>3, <3>1
    <3> QED
      BY <3>2 DEF On
  <2>2. On(s, t)
    BY <1>1, <1>3 DEF On
  <2>3. ASSUME On(s, u), u # t PROVE On(r, u)
    <3>1. PICK n \in 1 .. Len(s) : s[n] = u
      BY <2>3 DEF On
    <3>2. n \in 2 .. Len(s)
      BY <1>3, <2>3, <3>1
    <3> QED
      BY <1>4, <3>1, <3>2 DEF On
  <2> QED
    BY <2>1, <2>2, <2>3
<1>6. ASSUME Once(q) PROVE Once(s)
  <2> SUFFICES ASSUME NEW m \in 1 .. Len(s), NEW n \in 1 .. Len(s), s[m] = s[n]
               PROVE  m = n
    BY DEF Once
  <2>1. \A x \in 2 .. Len(s) : s[x] # t
    BY <1>1, <1>4, <1>6 DEF On
  <2>2. (m = 1 /\ n = 1) \/ (m \in 2 .. Len(s) /\ n \in 2 .. Len(s))
    BY <1>3, <2>1
  <2>3. ASSUME m \in 2 .. Len(s), n \in 2 .. Len(s) PROVE m = n
    <3>1. r[m - 1] = r[n - 1] /\ m - 1 \in 1 .. Len(r) /\ n - 1 \in 1 .. Len(r)
      BY <1>4, <2>3
    <3>2. m - 1 = n - 1
      BY <1>1, <1>6, <3>1 DEF Once
    <3> QED
      BY <2>3, <3>2
  <2> QED
    BY <2>2, <2>3
<1>7. ASSUME NEW u \in Thread PROVE On(s, u) <=> On(q, u) \/ u = t
  BY <1>1, <1>5
<1> QED
  BY <1>3, <1>6, <1>7 DEF s

\* The least significant bit of a queue map (hal_lsbit_index) is one of its
\* bits, and the least.
LEMMA LsbitLeast ==
  ASSUME NEW map \in SUBSET Pri, map # {}
  PROVE  Lsbit(map) \in map /\ \A q \in map : Lsbit(map) <= q
<1> DEFINE less == {ss \in Nat \X Nat : ss[1] < ss[2]}
<1>1. IsWellFoundedOn(less, Nat)
  BY NatLessThanWellFounded, Zenon DEF OpToRel
<1>2. map \subseteq Nat
  BY PriAssumption DEF Pri
<1>3. \A x, y \in Nat : x < y => <<x, y>> \in less
  OBVIOUS
<1> HIDE DEF less
<1>4. PICK p \in map : \A q \in map : <<q, p>> \notin less
  BY <1>1, <1>2, WFMin
<1>5. ASSUME NEW q \in map PROVE p <= q
  <2>1. p \in Nat /\ q \in Nat /\ ~(q < p)
    BY <1>2, <1>3, <1>4
  <2> QED
    BY <2>1
<1> QED
  BY <1>5 DEF Lsbit
-----------------------------------------------------------------------------
(***************************************************************************)
(* What is said of the record.                                             *)
(***************************************************************************)
MapAgrees(j) == j.queue_map = {p \in Pri : j.run_queue[p] # <<>>}

IdleQueued(j) == On(j.run_queue[MinPri], Idle)

\* schedule has a thread to return.
Sane(j) == j \in Kernel /\ MapAgrees(j) /\ IdleQueued(j)

\* The run queues hold the threads of S, each once and at its priority.
Queued(j, S) ==
  /\ \A u \in Thread, p \in Pri : On(j.run_queue[p], u) <=> u \in S /\ p = j.priority[u]
  /\ \A p \in Pri : Once(j.run_queue[p])

\* A reschedule was asked for, or no thread of S is better than the current.
Asked(j, S) ==
  j.need_reschedule \/ \A u \in S : j.priority[j.current] <= j.priority[u]

\* The wait queues and the queue pointers agree.
Waiting(j) ==
  /\ \A u \in Thread, q \in WaitQueue : On(j.waitq[q], u) <=> j.queue[u] = q
  /\ \A q \in WaitQueue : Once(j.waitq[q])

Queues(j, S) == Queued(j, S) /\ Asked(j, S) /\ Waiting(j)

\* The fields no method of the scheduler changes.
SamePriorities(j, r) ==
  /\ r.priority = j.priority /\ r.original_priority = j.original_priority
  /\ r.priority_inherited = j.priority_inherited /\ r.mutex_count = j.mutex_count

SameThreads(j, r) ==
  /\ r.state = j.state
  /\ r.suspend_count = j.suspend_count /\ r.wakeup_count = j.wakeup_count
  /\ r.sleep_reason = j.sleep_reason /\ r.wake_reason = j.wake_reason
  /\ r.timer = j.timer /\ r.current = j.current

SameRunQueues(j, r) ==
  /\ r.run_queue = j.run_queue /\ r.queue_map = j.queue_map
  /\ r.need_reschedule = j.need_reschedule

SameWaitQueues(j, r) == r.queue = j.queue /\ r.waitq = j.waitq
-----------------------------------------------------------------------------
(***************************************************************************)
(* The methods of MLQueue.                                                 *)
(***************************************************************************)

\* remove takes a thread off the queue it waits on and clears its pointer.
LEMMA RemoveKeeps ==
  ASSUME NEW j \in Kernel, NEW t \in Thread
  PROVE  /\ remove(j, t) \in Kernel
         /\ SameThreads(j, remove(j, t)) /\ SamePriorities(j, remove(j, t))
         /\ SameRunQueues(j, remove(j, t))
         /\ remove(j, t).queue = [j.queue EXCEPT ![t] = NULL]
         /\ Waiting(j) => Waiting(remove(j, t))
<1> USE DEF SameThreads, SamePriorities, SameRunQueues
<1>1. CASE j.queue[t] = NULL
  <2>1. remove(j, t) = j
    BY <1>1 DEF remove
  <2>2. [j.queue EXCEPT ![t] = NULL] = j.queue
    BY <1>1 DEF Kernel
  <2> QED
    BY <2>1, <2>2
<1>2. CASE j.queue[t] # NULL
  <2> DEFINE p == j.queue[t]
             q == Unlink(j.waitq[p], t)
             r == [j EXCEPT !.waitq[p] = q, !.queue[t] = NULL]
  <2>1. p \in WaitQueue /\ j.waitq[p] \in Seq(Thread) /\ j.queue[t] = p
    BY <1>2 DEF Kernel
  <2>2. remove(j, t) = r
    BY <1>2 DEF remove
  <2>3. /\ q \in Seq(Thread)
        /\ \A u \in Thread \ {t} : On(q, u) <=> On(j.waitq[p], u)
        /\ Once(j.waitq[p]) => Once(q) /\ ~On(q, t)
    BY <2>1, UnlinkList
  <2> HIDE DEF p, q
  <2>4. r \in Kernel
    BY <2>1, <2>3 DEF Kernel
  <2>5. /\ SameThreads(j, r) /\ SamePriorities(j, r) /\ SameRunQueues(j, r)
        /\ r.queue = [j.queue EXCEPT ![t] = NULL]
        /\ r.waitq = [j.waitq EXCEPT ![p] = q]
    BY DEF Kernel
  <2> HIDE DEF r
  <2>6. ASSUME Waiting(j) PROVE Waiting(r)
    <3>1. /\ j.queue \in [Thread -> WaitQueue \cup {NULL}]
          /\ j.waitq \in [WaitQueue -> Seq(Thread)]
      BY DEF Kernel
    <3>2. \A u \in Thread, x \in WaitQueue : On(r.waitq[x], u) <=> r.queue[u] = x
      BY <2>1, <2>3, <2>5, <2>6, <3>1, QueueAssumption DEF Waiting
    <3>3. \A x \in WaitQueue : Once(r.waitq[x])
      BY <2>1, <2>3, <2>5, <2>6, <3>1 DEF Waiting
    <3> QED
      BY <3>2, <3>3 DEF Waiting
  <2> QED
    BY <2>2, <2>4, <2>5, <2>6
<1> QED
  BY <1>1, <1>2

\* set_need_reschedule asks for a reschedule when t is better.
LEMMA SetNeedKeeps ==
  ASSUME NEW j \in Kernel, NEW t \in Thread
  PROVE  /\ set_need_reschedule(j, t) \in Kernel
         /\ SameThreads(j, set_need_reschedule(j, t))
         /\ SamePriorities(j, set_need_reschedule(j, t))
         /\ SameWaitQueues(j, set_need_reschedule(j, t))
         /\ set_need_reschedule(j, t).run_queue = j.run_queue
         /\ set_need_reschedule(j, t).queue_map = j.queue_map
         /\ \A S : Asked(j, S) => Asked(set_need_reschedule(j, t), S \cup {t})
<1> DEFINE better == j.priority[j.current] > j.priority[t]
           stopped == j.state[j.current] # RUNNING
           need == j.need_reschedule \/ better \/ stopped
           r == [j EXCEPT !.need_reschedule = need]
<1>1. set_need_reschedule(j, t) = r
  BY DEF set_need_reschedule
<1>2. need \in BOOLEAN
  OBVIOUS
<1>3. /\ j.priority[j.current] \in Nat /\ j.priority[t] \in Nat
  BY PriAssumption DEF Kernel, Pri
<1>4. need <=> j.need_reschedule \/ better \/ stopped
  OBVIOUS
<1> HIDE DEF need
<1>5. r \in Kernel /\ r.need_reschedule = need
  BY <1>2 DEF Kernel
<1>6. /\ SameThreads(j, r) /\ SamePriorities(j, r) /\ SameWaitQueues(j, r)
      /\ r.run_queue = j.run_queue /\ r.queue_map = j.queue_map
  BY DEF Kernel, SameThreads, SamePriorities, SameWaitQueues
<1> HIDE DEF r
<1>7. ASSUME NEW S, Asked(j, S) PROVE Asked(r, S \cup {t})
  <2>1. CASE need
    BY <1>5, <2>1 DEF Asked
  <2>2. CASE ~need
    <3>1. ~j.need_reschedule /\ ~better
      BY <1>4, <2>2
    <3>2. \A u \in S : j.priority[j.current] <= j.priority[u]
      BY <1>7, <3>1 DEF Asked
    <3>3. j.priority[j.current] <= j.priority[t]
      BY <1>3, <3>1
    <3> QED
      BY <1>6, <3>2, <3>3 DEF Asked, SameThreads, SamePriorities
  <2> QED
    BY <2>1, <2>2
<1> QED
  BY <1>1, <1>5, <1>6, <1>7

\* A run queue is replaced by one with the same threads: rotate and to_head.
LEMMA SameQueueKeeps ==
  ASSUME NEW j \in Kernel, NEW pri \in Pri, NEW q \in Seq(Thread),
         NEW r \in Kernel,
         r.run_queue = [j.run_queue EXCEPT ![pri] = q],
         r.queue_map = j.queue_map, SamePriorities(j, r),
         q = <<>> <=> j.run_queue[pri] = <<>>,
         \A u \in Thread : On(q, u) <=> On(j.run_queue[pri], u),
         Once(j.run_queue[pri]) => Once(q)
  PROVE  /\ Sane(j) => Sane(r)
         /\ \A S : Queued(j, S) => Queued(r, S)
<1>1. j.run_queue \in [Pri -> Seq(Thread)] /\ Idle \in Thread /\ MinPri \in Pri
  BY ThreadAssumption, PriAssumption DEF Kernel, Pri
<1>2. Sane(j) => Sane(r)
  BY <1>1 DEF Sane, MapAgrees, IdleQueued
<1>3. ASSUME NEW S, Queued(j, S) PROVE Queued(r, S)
  BY <1>1, <1>3 DEF Queued, SamePriorities
<1> QED
  BY <1>2, <1>3

\* rem_thread takes a thread off its run queue, and that alone.
LEMMA RemThreadKeeps ==
  ASSUME NEW j \in Kernel, NEW t \in Thread
  PROVE  /\ rem_thread(j, t) \in Kernel
         /\ SameThreads(j, rem_thread(j, t)) /\ SamePriorities(j, rem_thread(j, t))
         /\ SameWaitQueues(j, rem_thread(j, t))
         /\ rem_thread(j, t).need_reschedule = j.need_reschedule
         /\ Sane(j) /\ t # Idle => Sane(rem_thread(j, t))
         /\ \A S : Queued(j, S) => Queued(rem_thread(j, t), S \ {t})
<1> DEFINE pri == j.priority[t]
           left == Unlink(j.run_queue[pri], t)
           map == IF left = <<>> THEN j.queue_map \ {pri} ELSE j.queue_map
           r == [j EXCEPT !.run_queue[pri] = left, !.queue_map = map]
<1>1. rem_thread(j, t) = r
  BY DEF rem_thread
<1>2. /\ pri \in Pri /\ j.run_queue \in [Pri -> Seq(Thread)]
      /\ j.priority \in [Thread -> Pri] /\ j.queue_map \subseteq Pri
      /\ MinPri \in Pri
  BY PriAssumption DEF Kernel, Pri
<1>3. /\ left \in Seq(Thread)
      /\ \A u \in Thread \ {t} : On(left, u) <=> On(j.run_queue[pri], u)
      /\ Once(j.run_queue[pri]) => Once(left) /\ ~On(left, t)
  BY <1>2, UnlinkList
<1>4. j.run_queue[pri] = <<>> => left = <<>>
  BY DEF Unlink, On
<1>5. /\ left = <<>> => map = j.queue_map \ {pri}
      /\ left # <<>> => map = j.queue_map
  OBVIOUS
<1> HIDE DEF left, map
<1>6. r \in Kernel
  <2>1. map \in SUBSET Pri
    BY <1>2, <1>5
  <2> QED
    BY <1>2, <1>3, <2>1 DEF Kernel
<1>7. /\ r.run_queue = [j.run_queue EXCEPT ![pri] = left] /\ r.queue_map = map
      /\ SameThreads(j, r) /\ SamePriorities(j, r) /\ SameWaitQueues(j, r)
      /\ r.need_reschedule = j.need_reschedule
  BY DEF Kernel, SameThreads, SamePriorities, SameWaitQueues
<1> HIDE DEF r, pri
<1>8. ASSUME Sane(j), t # Idle PROVE Sane(r)
  <2>1. MapAgrees(r)
    BY <1>2, <1>4, <1>5, <1>7, <1>8 DEF Sane, MapAgrees
  <2>2. IdleQueued(r)
    BY <1>2, <1>3, <1>7, <1>8, ThreadAssumption DEF Sane, IdleQueued
  <2> QED
    BY <1>6, <2>1, <2>2 DEF Sane
<1>9. ASSUME NEW S, Queued(j, S) PROVE Queued(r, S \ {t})
  <2>1. \A u \in Thread, p \in Pri :
          On(r.run_queue[p], u) <=> u \in S \ {t} /\ p = r.priority[u]
    BY <1>2, <1>3, <1>7, <1>9 DEF Queued, SamePriorities, pri
  <2>2. \A p \in Pri : Once(r.run_queue[p])
    BY <1>2, <1>3, <1>7, <1>9 DEF Queued
  <2> QED
    BY <2>1, <2>2 DEF Queued
<1> QED
  BY <1>1, <1>6, <1>7, <1>8, <1>9

\* add_thread puts a thread on its run queue, off every wait queue, and asks
\* for a reschedule when it is better than the current one.
LEMMA AddThreadKeeps ==
  ASSUME NEW j \in Kernel, NEW t \in Thread
  PROVE  /\ add_thread(j, t) \in Kernel
         /\ SameThreads(j, add_thread(j, t)) /\ SamePriorities(j, add_thread(j, t))
         /\ add_thread(j, t).queue = [j.queue EXCEPT ![t] = NULL]
         /\ Sane(j) => Sane(add_thread(j, t))
         /\ Waiting(j) => Waiting(add_thread(j, t))
         /\ \A S : Queued(j, S) /\ t \notin S => Queued(add_thread(j, t), S \cup {t})
         /\ \A S : Asked(j, S) => Asked(add_thread(j, t), S \cup {t})
<1> DEFINE w == remove(j, t)
           pri == j.priority[t]
           q == Append(w.run_queue[pri], t)
           r == [w EXCEPT !.run_queue[pri] = q, !.queue_map = w.queue_map \cup {pri},
                          !.slice[t] = Ticks]
           s == set_need_reschedule(r, t)
<1>1. add_thread(j, t) = s
  BY DEF add_thread
<1>2. /\ w \in Kernel
      /\ SameThreads(j, w) /\ SamePriorities(j, w) /\ SameRunQueues(j, w)
      /\ w.queue = [j.queue EXCEPT ![t] = NULL]
      /\ Waiting(j) => Waiting(w)
  BY RemoveKeeps
<1> HIDE DEF w
<1>3. /\ pri \in Pri /\ w.run_queue \in [Pri -> Seq(Thread)]
      /\ w.priority \in [Thread -> Pri] /\ w.queue_map \subseteq Pri
      /\ MinPri \in Pri
  <2>1. pri \in Pri
    BY DEF Kernel
  <2>2. w.run_queue \in [Pri -> Seq(Thread)] /\ w.priority \in [Thread -> Pri]
        /\ w.queue_map \in SUBSET Pri
    BY <1>2 DEF Kernel
  <2>3. MinPri \in Pri
    BY PriAssumption DEF Pri
  <2> QED
    BY <2>1, <2>2, <2>3
<1>4. /\ q \in Seq(Thread) /\ q # <<>>
      /\ \A u \in Thread : On(q, u) <=> On(w.run_queue[pri], u) \/ u = t
      /\ Once(w.run_queue[pri]) /\ ~On(w.run_queue[pri], t) => Once(q)
  BY <1>3, AppendList
<1> HIDE DEF q
<1>5. r \in Kernel
  <2>1. Ticks \in Count
    BY TickAssumption DEF Count
  <2> QED
    BY <1>2, <1>3, <1>4, <2>1 DEF Kernel
<1>6. /\ r.run_queue = [w.run_queue EXCEPT ![pri] = q]
      /\ r.queue_map = w.queue_map \cup {pri}
      /\ SameThreads(w, r) /\ SamePriorities(w, r) /\ SameWaitQueues(w, r)
      /\ r.need_reschedule = w.need_reschedule
  BY <1>2 DEF Kernel, SameThreads, SamePriorities, SameWaitQueues
<1>7. /\ s \in Kernel
      /\ SameThreads(r, s) /\ SamePriorities(r, s) /\ SameWaitQueues(r, s)
      /\ s.run_queue = r.run_queue /\ s.queue_map = r.queue_map
      /\ \A S : Asked(r, S) => Asked(s, S \cup {t})
  BY <1>5, SetNeedKeeps
<1> HIDE DEF r, s, pri
<1>8. /\ SameThreads(j, s) /\ SamePriorities(j, s)
      /\ s.queue = [j.queue EXCEPT ![t] = NULL]
  BY <1>2, <1>6, <1>7 DEF SameThreads, SamePriorities, SameWaitQueues
<1>9. ASSUME Sane(j) PROVE Sane(s)
  <2>1. MapAgrees(s)
    BY <1>2, <1>3, <1>4, <1>6, <1>7, <1>9 DEF Sane, MapAgrees, SameRunQueues
  <2>2. IdleQueued(s)
    BY <1>2, <1>3, <1>4, <1>6, <1>7, <1>9, ThreadAssumption
    DEF Sane, IdleQueued, SameRunQueues
  <2> QED
    BY <1>7, <2>1, <2>2 DEF Sane
<1>10. Waiting(j) => Waiting(s)
  BY <1>2, <1>6, <1>7 DEF Waiting, SameWaitQueues
<1>11. ASSUME NEW S, Queued(j, S), t \notin S PROVE Queued(s, S \cup {t})
  <2>1. ~On(w.run_queue[pri], t)
    BY <1>2, <1>3, <1>11 DEF Queued, SameRunQueues
  <2>2. \A u \in Thread, p \in Pri :
          On(s.run_queue[p], u) <=> u \in S \cup {t} /\ p = s.priority[u]
    BY <1>2, <1>3, <1>4, <1>6, <1>7, <1>8, <1>11
    DEF Queued, SameRunQueues, SamePriorities, pri
  <2>3. \A p \in Pri : Once(s.run_queue[p])
    BY <1>2, <1>3, <1>4, <1>6, <1>7, <1>11, <2>1 DEF Queued, SameRunQueues
  <2> QED
    BY <2>2, <2>3 DEF Queued
<1>12. ASSUME NEW S, Asked(j, S) PROVE Asked(s, S \cup {t})
  <2>1. Asked(r, S)
    BY <1>2, <1>6, <1>12 DEF Asked, SameThreads, SamePriorities, SameRunQueues
  <2> QED
    BY <1>7, <2>1
<1> QED
  BY <1>1, <1>7, <1>8, <1>9, <1>10, <1>11, <1>12

\* schedule returns a thread, and the best of the threads that are queued.
LEMMA ScheduleBest ==
  ASSUME NEW j \in Kernel, Sane(j)
  PROVE  /\ schedule(j) \in Thread
         /\ \A S : Queued(j, S) => /\ schedule(j) \in S
                                   /\ \A u \in S \cap Thread :
                                        j.priority[schedule(j)] <= j.priority[u]
<1> DEFINE top == Lsbit(j.queue_map)
           q == j.run_queue[top]
<1>1. /\ MinPri \in Pri /\ j.run_queue \in [Pri -> Seq(Thread)]
      /\ j.priority \in [Thread -> Pri] /\ Pri \subseteq Nat
      /\ j.queue_map \in SUBSET Pri
  BY PriAssumption DEF Kernel, Pri
<1>2. j.run_queue[MinPri] # <<>>
  BY DEF Sane, IdleQueued, On
<1>3. MinPri \in j.queue_map
  BY <1>1, <1>2 DEF Sane, MapAgrees
<1>4. top \in j.queue_map /\ \A p \in j.queue_map : top <= p
  BY <1>1, <1>3, LsbitLeast
<1> HIDE DEF top
<1>5. top \in Pri /\ q \in Seq(Thread) /\ q # <<>>
  BY <1>1, <1>4 DEF Sane, MapAgrees
<1> DEFINE h == Head(q)
<1>6. schedule(j) = h
  BY DEF schedule, top
<1>7. h \in Thread /\ On(q, h)
  BY <1>5, TailList
<1> HIDE DEF h
<1>8. ASSUME NEW S, Queued(j, S)
      PROVE  h \in S /\ \A u \in S \cap Thread : j.priority[h] <= j.priority[u]
  <2>1. h \in S /\ j.priority[h] = top
    BY <1>5, <1>7, <1>8 DEF Queued
  <2>2. ASSUME NEW u \in S \cap Thread PROVE j.priority[u] \in j.queue_map
    <3>1. j.priority[u] \in Pri
      BY <1>1
    <3>2. On(j.run_queue[j.priority[u]], u)
      BY <1>8, <3>1 DEF Queued
    <3>3. j.run_queue[j.priority[u]] # <<>>
      BY <3>2 DEF On
    <3> QED
      BY <3>1, <3>3 DEF Sane, MapAgrees
  <2> QED
    BY <1>4, <2>1, <2>2
<1> QED
  BY <1>6, <1>7, <1>8

\* enqueue puts a thread that waits nowhere on one queue.
LEMMA EnqueueKeeps ==
  ASSUME NEW j \in Kernel, NEW q \in WaitQueue, NEW t \in Thread
  PROVE  /\ enqueue(j, q, t) \in Kernel
         /\ SameThreads(j, enqueue(j, q, t)) /\ SamePriorities(j, enqueue(j, q, t))
         /\ SameRunQueues(j, enqueue(j, q, t))
         /\ enqueue(j, q, t).queue = [j.queue EXCEPT ![t] = q]
         /\ Waiting(j) /\ j.queue[t] = NULL => Waiting(enqueue(j, q, t))
<1> DEFINE l == Append(j.waitq[q], t)
           r == [j EXCEPT !.waitq[q] = l, !.queue[t] = q]
<1>1. enqueue(j, q, t) = r
  BY DEF enqueue
<1>2. /\ j.queue \in [Thread -> WaitQueue \cup {NULL}]
      /\ j.waitq \in [WaitQueue -> Seq(Thread)]
  BY DEF Kernel
<1>3. /\ l \in Seq(Thread)
      /\ \A u \in Thread : On(l, u) <=> On(j.waitq[q], u) \/ u = t
      /\ Once(j.waitq[q]) /\ ~On(j.waitq[q], t) => Once(l)
  BY <1>2, AppendList
<1> HIDE DEF l
<1>4. r \in Kernel
  BY <1>3 DEF Kernel
<1>5. /\ SameThreads(j, r) /\ SamePriorities(j, r) /\ SameRunQueues(j, r)
      /\ r.queue = [j.queue EXCEPT ![t] = q] /\ r.waitq = [j.waitq EXCEPT ![q] = l]
  BY DEF Kernel, SameThreads, SamePriorities, SameRunQueues
<1> HIDE DEF r
<1>6. ASSUME Waiting(j), j.queue[t] = NULL PROVE Waiting(r)
  <2>1. ~On(j.waitq[q], t)
    BY <1>6, QueueAssumption DEF Waiting
  <2>2. \A u \in Thread, x \in WaitQueue : On(r.waitq[x], u) <=> r.queue[u] = x
    BY <1>2, <1>3, <1>5, <1>6, QueueAssumption DEF Waiting
  <2>3. \A x \in WaitQueue : Once(r.waitq[x])
    BY <1>2, <1>3, <1>5, <1>6, <2>1 DEF Waiting
  <2> QED
    BY <2>2, <2>3 DEF Waiting
<1> QED
  BY <1>1, <1>4, <1>5, <1>6

\* dequeue takes the first thread off a queue and clears its pointer.
LEMMA DequeueKeeps ==
  ASSUME NEW j \in Kernel, NEW q \in WaitQueue, j.waitq[q] # <<>>
  PROVE  /\ Head(j.waitq[q]) \in Thread
         /\ On(j.waitq[q], Head(j.waitq[q]))
         /\ dequeue(j, q) \in Kernel
         /\ SameThreads(j, dequeue(j, q)) /\ SamePriorities(j, dequeue(j, q))
         /\ SameRunQueues(j, dequeue(j, q))
         /\ dequeue(j, q).queue = [j.queue EXCEPT ![Head(j.waitq[q])] = NULL]
         /\ dequeue(j, q).waitq = [j.waitq EXCEPT ![q] = Tail(@)]
         /\ Waiting(j) => Waiting(dequeue(j, q))
<1> DEFINE t == Head(j.waitq[q])
           l == Tail(j.waitq[q])
           r == [j EXCEPT !.waitq[q] = l, !.queue[t] = NULL]
<1>1. dequeue(j, q) = r
  BY DEF dequeue
<1>2. /\ j.queue \in [Thread -> WaitQueue \cup {NULL}]
      /\ j.waitq \in [WaitQueue -> Seq(Thread)]
  BY DEF Kernel
<1>3. /\ t \in Thread /\ On(j.waitq[q], t) /\ l \in Seq(Thread)
      /\ \A u \in Thread \ {t} : On(l, u) <=> On(j.waitq[q], u)
      /\ Once(j.waitq[q]) => Once(l) /\ ~On(l, t)
  <2>1. j.waitq[q] \in Seq(Thread)
    BY <1>2
  <2> QED
    BY <2>1, TailList
<1>4. r.waitq = [j.waitq EXCEPT ![q] = Tail(@)]
  BY DEF Kernel
<1> HIDE DEF l, t
<1>5. r \in Kernel
  BY <1>3 DEF Kernel
<1>6. /\ SameThreads(j, r) /\ SamePriorities(j, r) /\ SameRunQueues(j, r)
      /\ r.queue = [j.queue EXCEPT ![t] = NULL] /\ r.waitq = [j.waitq EXCEPT ![q] = l]
  BY DEF Kernel, SameThreads, SamePriorities, SameRunQueues
<1> HIDE DEF r
<1>7. ASSUME Waiting(j) PROVE Waiting(r)
  <2>1. \A u \in Thread, x \in WaitQueue : On(r.waitq[x], u) <=> r.queue[u] = x
    BY <1>2, <1>3, <1>6, <1>7, QueueAssumption DEF Waiting
  <2>2. \A x \in WaitQueue : Once(r.waitq[x])
    BY <1>2, <1>3, <1>6, <1>7 DEF Waiting
  <2> QED
    BY <2>1, <2>2 DEF Waiting
<1> QED
  BY <1>1, <1>3, <1>4, <1>5, <1>6, <1>7 DEF t

\* What a method leaves that only changes the order of queues.
Reordered(j, r) ==
  /\ r \in Kernel
  /\ SameThreads(j, r) /\ SamePriorities(j, r) /\ r.queue = j.queue
  /\ Sane(j) => Sane(r)
  /\ Waiting(j) => Waiting(r)
  /\ \A S : Queued(j, S) => Queued(r, S)
  /\ \A S : Asked(j, S) => Asked(r, S)

\* A method that leaves the record alone.
LEMMA ReorderedSelf ==
  ASSUME NEW j \in Kernel
  PROVE  Reordered(j, j)
  BY DEF Reordered, SameThreads, SamePriorities

\* A run queue is turned, and a reschedule is asked for at most.
LEMMA TurnKeeps ==
  ASSUME NEW j \in Kernel, NEW pri \in Pri, NEW r \in Kernel,
         r.run_queue = [j.run_queue EXCEPT ![pri] = Rotated(@)],
         r.queue_map = j.queue_map,
         j.need_reschedule => r.need_reschedule,
         SameThreads(j, r), SamePriorities(j, r), SameWaitQueues(j, r)
  PROVE  Reordered(j, r)
<1>1. j.run_queue \in [Pri -> Seq(Thread)]
  BY DEF Kernel
<1> DEFINE q == Rotated(j.run_queue[pri])
<1>2. /\ q \in Seq(Thread)
      /\ q = <<>> <=> j.run_queue[pri] = <<>>
      /\ \A u \in Thread : On(q, u) <=> On(j.run_queue[pri], u)
      /\ Once(j.run_queue[pri]) => Once(q)
  BY <1>1, RotatedList
<1>3. r.run_queue = [j.run_queue EXCEPT ![pri] = q]
  BY <1>1
<1> HIDE DEF q
<1>4. (Sane(j) => Sane(r)) /\ \A S : Queued(j, S) => Queued(r, S)
  BY <1>2, <1>3, SameQueueKeeps
<1>5. \A S : Asked(j, S) => Asked(r, S)
  BY DEF Asked, SameThreads, SamePriorities
<1>6. Waiting(j) => Waiting(r)
  BY DEF Waiting, SameWaitQueues
<1> QED
  BY <1>4, <1>5, <1>6 DEF Reordered, SameWaitQueues

\* A tick turns the run queue of the current thread at most.
LEMMA TimesliceKeeps ==
  ASSUME NEW j \in Kernel
  PROVE  Reordered(j, timeslice(j))
<1> DEFINE n == (j.timeslice_count + CountSize - 1) % CountSize
           pri == j.priority[j.current]
           turned == Rotated(j.run_queue[pri])
           need == j.need_reschedule \/ Head(turned) # j.current
           a == [j EXCEPT !.run_queue[pri] = turned, !.need_reschedule = need,
                          !.timeslice_count = Ticks]
           b == [j EXCEPT !.timeslice_count = n]
<1>1. timeslice(j) = IF n = 0 /\ j.state[j.current] = RUNNING THEN a ELSE b
  BY DEF timeslice
<1>2. pri \in Pri /\ j.run_queue \in [Pri -> Seq(Thread)] /\ j.timeslice_count \in Count
  BY DEF Kernel
<1>3. n \in Count /\ Ticks \in Count
  BY <1>2, TickAssumption DEF Count
<1>4. turned \in Seq(Thread)
  BY <1>2, RotatedList
<1>5. need \in BOOLEAN /\ (j.need_reschedule => need)
  OBVIOUS
<1> HIDE DEF need, n, turned
<1>6. Reordered(j, a)
  <2>1. a \in Kernel
    BY <1>2, <1>3, <1>4, <1>5 DEF Kernel
  <2>2. /\ a.run_queue = [j.run_queue EXCEPT ![pri] = turned]
        /\ a.queue_map = j.queue_map /\ a.need_reschedule = need
        /\ SameThreads(j, a) /\ SamePriorities(j, a) /\ SameWaitQueues(j, a)
    BY DEF Kernel, SameThreads, SamePriorities, SameWaitQueues
  <2> HIDE DEF a, pri
  <2> QED
    BY <1>2, <1>5, <2>1, <2>2, TurnKeeps DEF turned
<1>7. Reordered(j, b)
  <2>1. b \in Kernel
    BY <1>3 DEF Kernel
  <2>2. /\ SameThreads(j, b) /\ SamePriorities(j, b) /\ SameRunQueues(j, b)
        /\ SameWaitQueues(j, b)
    BY DEF Kernel, SameThreads, SamePriorities, SameRunQueues, SameWaitQueues
  <2> HIDE DEF b
  <2> QED
    BY <2>1, <2>2
    DEF Reordered, Sane, MapAgrees, IdleQueued, Waiting, Queued, Asked, SameThreads,
        SamePriorities, SameRunQueues, SameWaitQueues
<1> QED
  BY <1>1, <1>6, <1>7

\* A yield turns the run queue of the thread at most.
LEMMA YieldKeeps ==
  ASSUME NEW j \in Kernel, NEW t \in Thread
  PROVE  Reordered(j, yield(j, t))
<1> DEFINE pri == j.priority[t]
           turned == Rotated(j.run_queue[pri])
           a == [j EXCEPT !.run_queue[pri] = turned, !.need_reschedule = TRUE]
           b == [j EXCEPT !.slice[t] = Ticks]
<1>1. yield(j, t) \in {j, a, b}
  BY DEF yield
<1>2. pri \in Pri /\ j.run_queue \in [Pri -> Seq(Thread)]
  BY DEF Kernel
<1>3. turned \in Seq(Thread)
  BY <1>2, RotatedList
<1> HIDE DEF turned
<1>4. Reordered(j, a)
  <2>1. a \in Kernel
    BY <1>2, <1>3 DEF Kernel
  <2>2. /\ a.run_queue = [j.run_queue EXCEPT ![pri] = turned]
        /\ a.queue_map = j.queue_map /\ a.need_reschedule = TRUE
        /\ SameThreads(j, a) /\ SamePriorities(j, a) /\ SameWaitQueues(j, a)
    BY DEF Kernel, SameThreads, SamePriorities, SameWaitQueues
  <2> HIDE DEF a, pri
  <2> QED
    BY <1>2, <2>1, <2>2, TurnKeeps DEF turned
<1>5. Reordered(j, b)
  <2>1. b \in Kernel
    <3>1. Ticks \in Count
      BY TickAssumption DEF Count
    <3> QED
      BY <3>1 DEF Kernel
  <2>2. /\ SameThreads(j, b) /\ SamePriorities(j, b) /\ SameRunQueues(j, b)
        /\ SameWaitQueues(j, b)
    BY DEF Kernel, SameThreads, SamePriorities, SameRunQueues, SameWaitQueues
  <2> HIDE DEF b
  <2> QED
    BY <2>1, <2>2
    DEF Reordered, Sane, MapAgrees, IdleQueued, Waiting, Queued, Asked, SameThreads,
        SamePriorities, SameRunQueues, SameWaitQueues
<1> QED
  BY <1>1, <1>4, <1>5, ReorderedSelf

\* rotate_queue turns a run queue.
LEMMA RotateQueueKeeps ==
  ASSUME NEW j \in Kernel, NEW pri \in Pri
  PROVE  Reordered(j, rotate_queue(j, pri))
<1> DEFINE turned == Rotated(j.run_queue[pri])
           a == [j EXCEPT !.run_queue[pri] = turned, !.need_reschedule = TRUE]
<1>1. j.run_queue \in [Pri -> Seq(Thread)]
  BY DEF Kernel
<1>2. rotate_queue(j, pri) \in {j, a}
  BY <1>1 DEF rotate_queue, Kernel
<1>3. turned \in Seq(Thread)
  BY <1>1, RotatedList
<1> HIDE DEF turned
<1>4. a \in Kernel
  BY <1>1, <1>3 DEF Kernel
<1>5. /\ a.run_queue = [j.run_queue EXCEPT ![pri] = turned]
      /\ a.queue_map = j.queue_map /\ a.need_reschedule = TRUE
      /\ SameThreads(j, a) /\ SamePriorities(j, a) /\ SameWaitQueues(j, a)
  BY DEF Kernel, SameThreads, SamePriorities, SameWaitQueues
<1> HIDE DEF a
<1>6. Reordered(j, a)
  BY <1>1, <1>4, <1>5, TurnKeeps DEF turned
<1> QED
  BY <1>2, <1>6, ReorderedSelf

\* to_queue_head moves a thread on the list it is on.
LEMMA ToQueueHeadKeeps ==
  ASSUME NEW j \in Kernel, NEW t \in Thread
  PROVE  Reordered(j, to_queue_head(j, t))
<1> DEFINE wq == j.queue[t]
           pri == j.priority[t]
           w == ToHead(j.waitq[wq], t)
           q == ToHead(j.run_queue[pri], t)
           a == [j EXCEPT !.waitq[wq] = w]
           b == [j EXCEPT !.run_queue[pri] = q]
           c == set_need_reschedule(b, t)
<1>1. /\ pri \in Pri /\ j.run_queue \in [Pri -> Seq(Thread)]
      /\ wq \in WaitQueue \cup {NULL} /\ j.waitq \in [WaitQueue -> Seq(Thread)]
  BY DEF Kernel
<1>2. CASE wq # NULL
  <2>1. to_queue_head(j, t) = a
    BY <1>1, <1>2 DEF to_queue_head, Kernel
  <2>2. /\ w \in Seq(Thread)
        /\ \A u \in Thread : On(w, u) <=> On(j.waitq[wq], u) \/ u = t
        /\ Once(j.waitq[wq]) => Once(w)
    BY <1>1, <1>2, ToHeadList
  <2> HIDE DEF w
  <2>3. a \in Kernel
    BY <1>1, <1>2, <2>2 DEF Kernel
  <2>4. /\ a.waitq = [j.waitq EXCEPT ![wq] = w] /\ a.queue = j.queue
        /\ SameThreads(j, a) /\ SamePriorities(j, a) /\ SameRunQueues(j, a)
    BY DEF Kernel, SameThreads, SamePriorities, SameRunQueues
  <2> HIDE DEF a
  <2>5. Waiting(j) => Waiting(a)
    BY <1>1, <1>2, <2>2, <2>4 DEF Waiting
  <2> QED
    BY <2>1, <2>3, <2>4, <2>5
    DEF Reordered, Sane, MapAgrees, IdleQueued, Queued, Asked, SameThreads,
        SamePriorities, SameRunQueues
<1>3. CASE wq = NULL /\ On(j.run_queue[pri], t)
  <2>1. to_queue_head(j, t) = c
    BY <1>1, <1>3 DEF to_queue_head, Kernel
  <2>2. /\ q \in Seq(Thread) /\ q # <<>>
        /\ \A u \in Thread : On(q, u) <=> On(j.run_queue[pri], u)
        /\ Once(j.run_queue[pri]) => Once(q)
    BY <1>1, <1>3, ToHeadList
  <2>3. j.run_queue[pri] # <<>>
    BY <1>3 DEF On
  <2> HIDE DEF q
  <2>4. b \in Kernel
    BY <1>1, <2>2 DEF Kernel
  <2>5. /\ b.run_queue = [j.run_queue EXCEPT ![pri] = q] /\ b.queue_map = j.queue_map
        /\ b.need_reschedule = j.need_reschedule
        /\ SameThreads(j, b) /\ SamePriorities(j, b) /\ SameWaitQueues(j, b)
    BY DEF Kernel, SameThreads, SamePriorities, SameWaitQueues
  <2>6. /\ c \in Kernel
        /\ SameThreads(b, c) /\ SamePriorities(b, c) /\ SameWaitQueues(b, c)
        /\ c.run_queue = b.run_queue /\ c.queue_map = b.queue_map
        /\ \A S : Asked(b, S) => Asked(c, S \cup {t})
    BY <2>4, SetNeedKeeps
  <2> HIDE DEF b, c, pri
  <2>7. /\ SameThreads(j, c) /\ SamePriorities(j, c) /\ SameWaitQueues(j, c)
        /\ c.run_queue = [j.run_queue EXCEPT ![pri] = q] /\ c.queue_map = j.queue_map
    BY <2>5, <2>6 DEF SameThreads, SamePriorities, SameWaitQueues
  <2>8. (Sane(j) => Sane(c)) /\ \A S : Queued(j, S) => Queued(c, S)
    <3>1. q = <<>> <=> j.run_queue[pri] = <<>>
      BY <2>2, <2>3
    <3> QED
      BY <1>1, <2>2, <2>6, <2>7, <3>1, SameQueueKeeps
  <2>9. \A S : Asked(j, S) => Asked(c, S)
    <3>1. \A S : Asked(j, S) => Asked(b, S)
      BY <2>5 DEF Asked, SameThreads, SamePriorities
    <3>2. \A S : Asked(c, S \cup {t}) => Asked(c, S)
      BY DEF Asked
    <3> QED
      BY <2>6, <3>1, <3>2
  <2>10. Waiting(j) => Waiting(c)
    BY <2>7 DEF Waiting, SameWaitQueues
  <2> QED
    BY <2>1, <2>6, <2>7, <2>8, <2>9, <2>10 DEF Reordered, SameWaitQueues
<1>4. CASE wq = NULL /\ ~On(j.run_queue[pri], t)
  BY <1>4, ReorderedSelf DEF to_queue_head
<1> QED
  BY <1>2, <1>3, <1>4
-----------------------------------------------------------------------------
(***************************************************************************)
(* The methods of Thread: stop a thread, change what is recorded of it,    *)
(* start it if nothing holds it any more.                                  *)
(***************************************************************************)
Runnable(j) == {u \in Thread : j.state[u] = RUNNING}

\* The queues are those of the runnable threads.
Scheduled(j) == Queues(j, Runnable(j))

\* Of every thread but t the record says the same.
OnlyAbout(j, r, t) ==
  /\ r.current = j.current
  /\ \A u \in Thread \ {t} :
       /\ r.state[u] = j.state[u]
       /\ r.suspend_count[u] = j.suspend_count[u]
       /\ r.wakeup_count[u] = j.wakeup_count[u]
       /\ r.sleep_reason[u] = j.sleep_reason[u]
       /\ r.wake_reason[u] = j.wake_reason[u]
       /\ r.queue[u] = j.queue[u]
       /\ u \in r.timer <=> u \in j.timer

SameReasons(j, r, t) ==
  r.sleep_reason[t] = j.sleep_reason[t] /\ r.wake_reason[t] = j.wake_reason[t]

SameCounts(j, r, t) ==
  r.suspend_count[t] = j.suspend_count[t] /\ r.wakeup_count[t] = j.wakeup_count[t]

SameTimer(j, r, t) == t \in r.timer <=> t \in j.timer

\* Only what is recorded of threads differs: every queue is as before.
SameQueues(j, r) ==
  /\ r \in Kernel /\ SamePriorities(j, r) /\ r.current = j.current
  /\ SameRunQueues(j, r) /\ SameWaitQueues(j, r)

\* Records with the same queues.
LEMMA SameQueuesKeep ==
  ASSUME NEW j \in Kernel, NEW r, SameQueues(j, r)
  PROVE  /\ Sane(j) => Sane(r)
         /\ \A S : Queues(j, S) => Queues(r, S)
  BY DEF SameQueues, Sane, MapAgrees, IdleQueued, Queues, Waiting, Queued, Asked,
         SamePriorities, SameRunQueues, SameWaitQueues

\* rem_thread for a thread that is runnable, as sleep, suspend and kill call it.
Stopped(j, t) == IF j.state[t] = RUNNING THEN rem_thread(j, t) ELSE j

\* It takes the thread off its run queue and changes nothing else.
LEMMA StoppedKeeps ==
  ASSUME NEW j \in Kernel, NEW t \in Thread
  PROVE  /\ Stopped(j, t) \in Kernel
         /\ SameThreads(j, Stopped(j, t)) /\ SamePriorities(j, Stopped(j, t))
         /\ SameWaitQueues(j, Stopped(j, t))
         /\ Sane(j) /\ t # Idle => Sane(Stopped(j, t))
         /\ Scheduled(j) => Queues(Stopped(j, t), Runnable(j) \ {t})
<1>1. CASE j.state[t] = RUNNING
  <2> DEFINE r == rem_thread(j, t)
  <2>1. Stopped(j, t) = r
    BY <1>1 DEF Stopped
  <2>2. /\ r \in Kernel
        /\ SameThreads(j, r) /\ SamePriorities(j, r) /\ SameWaitQueues(j, r)
        /\ r.need_reschedule = j.need_reschedule
        /\ Sane(j) /\ t # Idle => Sane(r)
        /\ \A S : Queued(j, S) => Queued(r, S \ {t})
    BY RemThreadKeeps
  <2> HIDE DEF r
  <2>3. \A S : Asked(j, S) => Asked(r, S \ {t})
    BY <2>2 DEF Asked, SameThreads, SamePriorities
  <2>4. Waiting(j) => Waiting(r)
    BY <2>2 DEF Waiting, SameWaitQueues
  <2> QED
    BY <2>1, <2>2, <2>3, <2>4 DEF Scheduled, Queues
<1>2. CASE j.state[t] # RUNNING
  <2>1. Stopped(j, t) = j
    BY <1>2 DEF Stopped
  <2>2. Runnable(j) \ {t} = Runnable(j)
    BY <1>2 DEF Runnable
  <2> QED
    BY <2>1, <2>2 DEF Scheduled, SameThreads, SamePriorities, SameWaitQueues
<1> QED
  BY <1>1, <1>2

\* add_thread for a thread that became runnable, as wake and resume call it.
Started(j, t) == IF j.state[t] = RUNNING THEN add_thread(j, t) ELSE j

\* It puts the thread on the run queue of its priority and clears its queue pointer.
LEMMA StartedKeeps ==
  ASSUME NEW j \in Kernel, NEW t \in Thread
  PROVE  /\ Started(j, t) \in Kernel
         /\ SameThreads(j, Started(j, t)) /\ SamePriorities(j, Started(j, t))
         /\ Started(j, t).queue = IF j.state[t] = RUNNING
                                    THEN [j.queue EXCEPT ![t] = NULL] ELSE j.queue
         /\ Sane(j) => Sane(Started(j, t))
         /\ Queues(j, Runnable(j) \ {t}) => Scheduled(Started(j, t))
<1>1. CASE j.state[t] = RUNNING
  <2> DEFINE r == add_thread(j, t)
             S == Runnable(j) \ {t}
  <2>1. Started(j, t) = r
    BY <1>1 DEF Started
  <2>2. /\ r \in Kernel
        /\ SameThreads(j, r) /\ SamePriorities(j, r)
        /\ r.queue = [j.queue EXCEPT ![t] = NULL]
        /\ Sane(j) => Sane(r)
        /\ Waiting(j) => Waiting(r)
        /\ Queued(j, S) /\ t \notin S => Queued(r, S \cup {t})
        /\ Asked(j, S) => Asked(r, S \cup {t})
    BY AddThreadKeeps
  <2> HIDE DEF r
  <2>3. S \cup {t} = Runnable(r) /\ t \notin S
    BY <1>1, <2>2 DEF Runnable, SameThreads
  <2>4. Queues(j, S) => Scheduled(r)
    BY <2>2, <2>3 DEF Scheduled, Queues
  <2> QED
    BY <1>1, <2>1, <2>2, <2>4
<1>2. CASE j.state[t] # RUNNING
  <2>1. Started(j, t) = j
    BY <1>2 DEF Started
  <2>2. Runnable(j) \ {t} = Runnable(j)
    BY <1>2 DEF Runnable
  <2> QED
    BY <1>2, <2>1, <2>2 DEF Scheduled, SameThreads, SamePriorities
<1> QED
  BY <1>1, <1>2

\* wake ends the sleep of a thread, takes it off the queue it waits on, and
\* starts it unless it is suspended as well.
LEMMA WakeKeeps ==
  ASSUME NEW j \in Kernel, NEW t \in Thread
  PROVE  LET r == wake(j, t)
         IN  /\ r \in Kernel /\ OnlyAbout(j, r, t) /\ SamePriorities(j, r)
             /\ Sane(j) => Sane(r)
             /\ Scheduled(j) => Scheduled(r)
             /\ r.state[t] = j.state[t] \ SLEEPSET
             /\ SameReasons(j, r, t) /\ SameCounts(j, r, t) /\ SameTimer(j, r, t)
             /\ r.queue[t] = IF j.state[t] \cap SLEEPSET = {} THEN j.queue[t] ELSE NULL
<1> DEFINE a == [j EXCEPT !.state[t] = @ \ SLEEPSET]
           w == remove(a, t)
           r == Started(w, t)
<1> USE DEF OnlyAbout, SameReasons, SameCounts, SameTimer
<1>1. CASE j.state[t] \cap SLEEPSET = {}
  <2>1. wake(j, t) = j
    BY <1>1 DEF wake
  <2>2. j.state[t] = j.state[t] \ SLEEPSET
    BY <1>1
  <2> QED
    BY <1>1, <2>1, <2>2 DEF SamePriorities
<1>2. CASE j.state[t] \cap SLEEPSET # {}
  <2>1. wake(j, t) = r
    BY <1>2 DEF wake, Started
  <2>2. /\ a \in Kernel /\ SameQueues(j, a)
        /\ a.state = [j.state EXCEPT ![t] = @ \ SLEEPSET]
        /\ a.suspend_count = j.suspend_count /\ a.wakeup_count = j.wakeup_count
        /\ a.sleep_reason = j.sleep_reason /\ a.wake_reason = j.wake_reason
        /\ a.timer = j.timer
    BY DEF Kernel, SameQueues, SamePriorities, SameRunQueues, SameWaitQueues
  <2> HIDE DEF a
  <2>3. /\ w \in Kernel /\ SameThreads(a, w) /\ SamePriorities(a, w)
        /\ SameRunQueues(a, w)
        /\ w.queue = [a.queue EXCEPT ![t] = NULL]
        /\ Waiting(a) => Waiting(w)
    BY <2>2, RemoveKeeps
  <2> HIDE DEF w
  <2>4. /\ r \in Kernel /\ SameThreads(w, r) /\ SamePriorities(w, r)
        /\ r.queue = IF w.state[t] = RUNNING THEN [w.queue EXCEPT ![t] = NULL]
                                              ELSE w.queue
        /\ Sane(w) => Sane(r)
        /\ Queues(w, Runnable(w) \ {t}) => Scheduled(r)
    BY <2>3, StartedKeeps
  <2> HIDE DEF r
  <2>5. j.state \in [Thread -> SUBSET StateBit] /\ j.queue \in [Thread -> WaitQueue \cup {NULL}]
    BY DEF Kernel
  <2>6. SamePriorities(j, r) /\ r.current = j.current
    BY <2>2, <2>3, <2>4 DEF SamePriorities, SameQueues, SameThreads
  <2>7. /\ r.state = [j.state EXCEPT ![t] = @ \ SLEEPSET]
        /\ r.suspend_count = j.suspend_count /\ r.wakeup_count = j.wakeup_count
        /\ r.sleep_reason = j.sleep_reason /\ r.wake_reason = j.wake_reason
        /\ r.timer = j.timer
    BY <2>2, <2>3, <2>4 DEF SameThreads
  <2>8. r.queue = [j.queue EXCEPT ![t] = NULL]
    BY <2>2, <2>3, <2>4, <2>5 DEF SameQueues, SameWaitQueues
  <2>9. Sane(j) => Sane(r)
    <3>1. Sane(j) => Sane(a)
      BY <2>2, SameQueuesKeep
    <3>2. Sane(a) => Sane(w)
      BY <2>3 DEF Sane, MapAgrees, IdleQueued, SameRunQueues
    <3> QED
      BY <2>4, <3>1, <3>2
  <2>10. Scheduled(j) => Scheduled(r)
    <3>1. Scheduled(j) => Queues(a, Runnable(j))
      BY <2>2, SameQueuesKeep DEF Scheduled
    <3>2. Runnable(w) \ {t} = Runnable(j)
      BY <1>2, <2>2, <2>3, <2>5 DEF Runnable, SameThreads, RUNNING
    <3>3. Queues(a, Runnable(j)) => Queues(w, Runnable(j))
      BY <2>3 DEF Queues, Queued, Asked, SameRunQueues, SamePriorities, SameThreads
    <3> QED
      BY <2>4, <3>1, <3>2, <3>3
  <2> QED
    BY <1>2, <2>1, <2>4, <2>5, <2>6, <2>7, <2>8, <2>9, <2>10
<1> QED
  BY <1>1, <1>2

\* The state bits of a thread agree with its counts and its queue pointer.
Bits(j, u) ==
  /\ "COUNTSLEEP" \in j.state[u] => "SLEEPING" \in j.state[u] /\ j.wakeup_count[u] = 0
  /\ "SUSPENDED" \in j.state[u] => j.suspend_count[u] > 0
  /\ j.suspend_count[u] > 0 => j.state[u] \cap {"SUSPENDED", "EXITED"} # {}
  /\ "EXITED" \in j.state[u] => "SLEEPING" \notin j.state[u]
  /\ j.queue[u] # NULL => "SLEEPING" \in j.state[u]

\* A thread has a reason to sleep while it sleeps, and no reason to have woken.
Reasons(j, u) ==
  /\ "SLEEPING" \in j.state[u] <=> j.sleep_reason[u] # "NONE"
  /\ j.sleep_reason[u] # "NONE" => j.wake_reason[u] = "NONE"

Consistent(j) == Scheduled(j) /\ \A u \in Thread : Bits(j, u) /\ Reasons(j, u)

\* What may happen to thread t while it is away, or by a call of its own that
\* does not block: it is not put to sleep, does not come back from exit, and
\* stays told to exit.  Only another thread can end it.
Prodded(j, r, t) ==
  /\ r.state[t] \subseteq j.state[t] \cup {"SUSPENDED", "EXITED"}
  /\ "EXITED" \in j.state[t] => "EXITED" \in r.state[t]
  /\ "EXITED" \in r.state[t] => \/ "EXITED" \in j.state[t]
                                \/ t # j.current /\ t \notin r.timer
  /\ t \in r.timer => t \in j.timer
  /\ j.wake_reason[t] = "EXIT" => r.wake_reason[t] = "EXIT"
  /\ r.wake_reason[t] = "EXIT" => \/ j.wake_reason[t] = "EXIT"
                                  \/ "SLEEPING" \in j.state[t]

\* The effect of a call about thread t.
Called(j, r, t) ==
  /\ r \in Kernel
  /\ OnlyAbout(j, r, t)
  /\ Sane(j) /\ t # Idle => Sane(r)
  /\ Consistent(j) => Consistent(r) /\ Prodded(j, r, t)

\* It is enough to look at t.
LEMMA CalledAbout ==
  ASSUME NEW j \in Kernel, NEW r \in Kernel, NEW t \in Thread,
         OnlyAbout(j, r, t),
         Sane(j) /\ t # Idle => Sane(r),
         Scheduled(j) /\ Bits(j, t) /\ Reasons(j, t)
           => Scheduled(r) /\ Bits(r, t) /\ Reasons(r, t) /\ Prodded(j, r, t)
  PROVE  Called(j, r, t)
<1>1. ASSUME NEW u \in Thread \ {t}, Bits(j, u), Reasons(j, u)
      PROVE  Bits(r, u) /\ Reasons(r, u)
  BY <1>1 DEF OnlyAbout, Bits, Reasons
<1>2. Consistent(j) => Consistent(r) /\ Prodded(j, r, t)
  BY <1>1 DEF Consistent
<1> QED
  BY <1>2 DEF Called

\* A change that no queue is concerned by.
LEMMA RecordKeeps ==
  ASSUME NEW j \in Kernel, NEW r \in Kernel, NEW t \in Thread,
         SameQueues(j, r), r.state = j.state
  PROVE  /\ Sane(j) => Sane(r)
         /\ Scheduled(j) => Scheduled(r)
<1>1. Runnable(r) = Runnable(j)
  BY DEF Runnable
<1> QED
  BY <1>1, SameQueuesKeep DEF Scheduled

\* set_wake_reason and then wake, as whatever ends a sleep calls them.
WakeFor(j, t, why) == wake(set_wake_reason(j, t, why), t)

\* The thread is no longer asleep; the other threads are as they were.
LEMMA WakeForKeeps ==
  ASSUME NEW j \in Kernel, NEW t \in Thread, NEW why \in Reason
  PROVE  LET r == WakeFor(j, t, why)
         IN  /\ r \in Kernel /\ OnlyAbout(j, r, t) /\ SamePriorities(j, r)
             /\ Sane(j) => Sane(r)
             /\ Scheduled(j) => Scheduled(r)
             /\ r.state[t] = j.state[t] \ SLEEPSET
             /\ r.sleep_reason[t] = "NONE" /\ r.wake_reason[t] = why
             /\ SameCounts(j, r, t) /\ SameTimer(j, r, t)
             /\ r.queue[t] = IF j.state[t] \cap SLEEPSET = {} THEN j.queue[t] ELSE NULL
             /\ Bits(j, t) => Bits(r, t) /\ Reasons(r, t)
<1> DEFINE s == set_wake_reason(j, t, why)
           r == wake(s, t)
<1>1. /\ s \in Kernel /\ SameQueues(j, s)
      /\ s.state = j.state /\ s.timer = j.timer
      /\ s.suspend_count = j.suspend_count /\ s.wakeup_count = j.wakeup_count
      /\ OnlyAbout(j, s, t)
      /\ s.sleep_reason[t] = "NONE" /\ s.wake_reason[t] = why
  <2>1. "NONE" \in Reason
    BY DEF Reason
  <2> QED
    BY <2>1
    DEF set_wake_reason, Kernel, SameQueues, SamePriorities, SameRunQueues,
        SameWaitQueues, OnlyAbout
<1>2. WakeFor(j, t, why) = r
  BY DEF WakeFor
<1> HIDE DEF s
<1>3. /\ r \in Kernel /\ OnlyAbout(s, r, t) /\ SamePriorities(s, r)
      /\ Sane(s) => Sane(r)
      /\ Scheduled(s) => Scheduled(r)
      /\ r.state[t] = s.state[t] \ SLEEPSET
      /\ SameReasons(s, r, t) /\ SameCounts(s, r, t) /\ SameTimer(s, r, t)
      /\ r.queue[t] = IF s.state[t] \cap SLEEPSET = {} THEN s.queue[t] ELSE NULL
  BY <1>1, WakeKeeps
<1> HIDE DEF r
<1>4. (Sane(j) => Sane(r)) /\ (Scheduled(j) => Scheduled(r))
  BY <1>1, <1>3, RecordKeeps
<1>5. OnlyAbout(j, r, t) /\ SamePriorities(j, r)
  BY <1>1, <1>3 DEF OnlyAbout, SamePriorities, SameQueues
<1>6. /\ r.state[t] = j.state[t] \ SLEEPSET
      /\ r.sleep_reason[t] = "NONE" /\ r.wake_reason[t] = why
      /\ SameCounts(j, r, t) /\ SameTimer(j, r, t)
      /\ r.queue[t] = IF j.state[t] \cap SLEEPSET = {} THEN j.queue[t] ELSE NULL
  BY <1>1, <1>3 DEF SameReasons, SameCounts, SameTimer, SameQueues, SameWaitQueues
<1>7. Bits(j, t) => Bits(r, t) /\ Reasons(r, t)
  BY <1>6 DEF Bits, Reasons, SameCounts, SLEEPSET
<1> QED
  BY <1>2, <1>3, <1>4, <1>5, <1>6, <1>7

\* Waking a thread that sleeps, for a reason other than its exit.
LEMMA WakeForCalled ==
  ASSUME NEW j \in Kernel, NEW t \in Thread, NEW why \in Reason,
         why # "EXIT", j.sleep_reason[t] # "NONE"
  PROVE  Called(j, WakeFor(j, t, why), t)
<1> DEFINE r == WakeFor(j, t, why)
<1>1. /\ r \in Kernel /\ OnlyAbout(j, r, t)
      /\ Sane(j) => Sane(r)
      /\ Scheduled(j) => Scheduled(r)
      /\ r.state[t] = j.state[t] \ SLEEPSET
      /\ r.wake_reason[t] = why
      /\ SameTimer(j, r, t)
      /\ Bits(j, t) => Bits(r, t) /\ Reasons(r, t)
  BY WakeForKeeps
<1> HIDE DEF r
<1>2. ASSUME Reasons(j, t) PROVE Prodded(j, r, t)
  BY <1>1, <1>2 DEF Prodded, Reasons, SameTimer, SLEEPSET
<1> QED
  BY <1>1, <1>2, CalledAbout DEF r

\* release breaks a sleep.
LEMMA ReleaseCalled ==
  ASSUME NEW j \in Kernel, NEW t \in Thread
  PROVE  Called(j, release(j, t), t)
<1>1. CASE Asleep(j, t)
  <2>1. release(j, t) = WakeFor(j, t, "BREAK")
    BY <1>1 DEF release, WakeFor
  <2>2. j.sleep_reason[t] # "NONE" /\ "BREAK" \in Reason
    BY <1>1 DEF Asleep, Reason
  <2> QED
    BY <2>1, <2>2, WakeForCalled
<1>2. CASE ~Asleep(j, t)
  <2>1. release(j, t) = j
    BY <1>2 DEF release
  <2> QED
    BY <2>1 DEF Called, OnlyAbout, Prodded
<1> QED
  BY <1>1, <1>2

\* counted_wake ends a counted sleep or counts the wakeup.
LEMMA CountedWakeCalled ==
  ASSUME NEW j \in Kernel, NEW t \in Thread
  PROVE  Called(j, counted_wake(j, t), t)
<1> DEFINE n == j.wakeup_count[t] + 1
           r == [j EXCEPT !.wakeup_count[t] = n]
           w == WakeFor(j, t, "DONE")
<1>1. CASE "COUNTSLEEP" \notin j.state[t]
  <2>1. counted_wake(j, t) = r
    BY <1>1 DEF counted_wake, Kernel
  <2> n \in Nat
    BY DEF Kernel
  <2> HIDE DEF n
  <2>2. /\ r \in Kernel /\ SameQueues(j, r) /\ r.state = j.state /\ r.timer = j.timer
        /\ r.sleep_reason = j.sleep_reason /\ r.wake_reason = j.wake_reason
        /\ r.suspend_count = j.suspend_count /\ OnlyAbout(j, r, t)
    BY DEF Kernel, SameQueues, SamePriorities, SameRunQueues, SameWaitQueues, OnlyAbout
  <2> HIDE DEF r
  <2>3. (Sane(j) => Sane(r)) /\ (Scheduled(j) => Scheduled(r))
    BY <2>2, RecordKeeps
  <2>4. Bits(j, t) /\ Reasons(j, t) => Bits(r, t) /\ Reasons(r, t) /\ Prodded(j, r, t)
    BY <1>1, <2>2 DEF Bits, Reasons, Prodded, SameQueues, SameWaitQueues
  <2> QED
    BY <2>1, <2>2, <2>3, <2>4, CalledAbout
<1>2. CASE "COUNTSLEEP" \in j.state[t]
  <2>1. counted_wake(j, t) = w
    BY <1>2 DEF counted_wake, WakeFor
  <2>2. /\ w \in Kernel /\ OnlyAbout(j, w, t)
        /\ Sane(j) => Sane(w)
        /\ Scheduled(j) => Scheduled(w)
        /\ w.state[t] = j.state[t] \ SLEEPSET
        /\ w.wake_reason[t] = "DONE"
        /\ SameTimer(j, w, t)
        /\ Bits(j, t) => Bits(w, t) /\ Reasons(w, t)
    <3>1. "DONE" \in Reason
      BY DEF Reason
    <3> QED
      BY <3>1, WakeForKeeps
  <2> HIDE DEF w
  <2>3. Bits(j, t) /\ Reasons(j, t) => Prodded(j, w, t)
    BY <1>2, <2>2 DEF Bits, Reasons, Prodded, SameTimer, SLEEPSET
  <2> QED
    BY <2>1, <2>2, <2>3, CalledAbout
<1> QED
  BY <1>1, <1>2

\* cancel_counted_wake forgets the wakeups.
LEMMA CancelCountedWakeCalled ==
  ASSUME NEW j \in Kernel, NEW t \in Thread
  PROVE  Called(j, cancel_counted_wake(j, t), t)
<1> DEFINE r == cancel_counted_wake(j, t)
<1>1. /\ r \in Kernel /\ SameQueues(j, r) /\ r.state = j.state /\ r.timer = j.timer
      /\ r.sleep_reason = j.sleep_reason /\ r.wake_reason = j.wake_reason
      /\ r.suspend_count = j.suspend_count /\ OnlyAbout(j, r, t)
      /\ r.wakeup_count[t] = 0
  BY DEF cancel_counted_wake, Kernel, SameQueues, SamePriorities, SameRunQueues,
         SameWaitQueues, OnlyAbout
<1> HIDE DEF r
<1>2. (Sane(j) => Sane(r)) /\ (Scheduled(j) => Scheduled(r))
  BY <1>1, RecordKeeps
<1>3. Bits(j, t) /\ Reasons(j, t) => Bits(r, t) /\ Reasons(r, t) /\ Prodded(j, r, t)
  BY <1>1 DEF Bits, Reasons, Prodded, SameQueues, SameWaitQueues
<1> QED
  BY <1>1, <1>2, <1>3, CalledAbout DEF r

\* suspend counts a suspension and stops the thread.
LEMMA SuspendCalled ==
  ASSUME NEW j \in Kernel, NEW t \in Thread
  PROVE  Called(j, suspend(j, t), t)
<1> DEFINE s == Stopped(j, t)
           n == s.suspend_count[t] + 1
           b == s.state[t] \cup {"SUSPENDED"}
           r == [s EXCEPT !.suspend_count[t] = n, !.state[t] = b]
<1>1. /\ s \in Kernel
      /\ SameThreads(j, s) /\ SamePriorities(j, s) /\ SameWaitQueues(j, s)
      /\ Sane(j) /\ t # Idle => Sane(s)
      /\ Scheduled(j) => Queues(s, Runnable(j) \ {t})
  BY StoppedKeeps
<1>2. suspend(j, t) = r
  <2>1. suspend(j, t) = [s EXCEPT !.suspend_count[t] = @ + 1,
                                  !.state[t] = @ \cup {"SUSPENDED"}]
    BY DEF suspend, Stopped
  <2> HIDE DEF s
  <2> QED
    BY <1>1, <2>1 DEF Kernel
<1> HIDE DEF s
<1>3. /\ s.suspend_count \in [Thread -> Nat]
      /\ s.state \in [Thread -> SUBSET StateBit]
  BY <1>1 DEF Kernel
<1>4. n \in Nat /\ n > 0 /\ b \in SUBSET StateBit
  BY <1>3 DEF StateBit
<1>5. "SUSPENDED" \in b /\ b \subseteq s.state[t] \cup {"SUSPENDED"} /\ s.state[t] \subseteq b
  OBVIOUS
<1> HIDE DEF n, b
<1>6. /\ r \in Kernel /\ SameQueues(s, r)
      /\ r.state = [s.state EXCEPT ![t] = b]
      /\ r.suspend_count = [s.suspend_count EXCEPT ![t] = n]
      /\ r.wakeup_count = s.wakeup_count
      /\ r.sleep_reason = s.sleep_reason /\ r.wake_reason = s.wake_reason
      /\ r.timer = s.timer
  BY <1>1, <1>4 DEF Kernel, SameQueues, SamePriorities, SameRunQueues, SameWaitQueues
<1> HIDE DEF r
<1>7. OnlyAbout(j, r, t)
  BY <1>1, <1>3, <1>6 DEF OnlyAbout, SameThreads, SameWaitQueues, SameQueues
<1>8. Sane(j) /\ t # Idle => Sane(r)
  BY <1>1, <1>6, SameQueuesKeep
<1>9. Scheduled(j) => Scheduled(r)
  <2>1. Runnable(r) = Runnable(j) \ {t}
    BY <1>1, <1>3, <1>5, <1>6 DEF Runnable, SameThreads, RUNNING
  <2> QED
    BY <1>1, <1>6, <2>1, SameQueuesKeep DEF Scheduled
<1>10. Bits(j, t) /\ Reasons(j, t) => Bits(r, t) /\ Reasons(r, t) /\ Prodded(j, r, t)
  BY <1>1, <1>3, <1>4, <1>5, <1>6
  DEF Bits, Reasons, Prodded, SameThreads, SameQueues, SameWaitQueues
<1> QED
  BY <1>2, <1>6, <1>7, <1>8, <1>9, <1>10, CalledAbout

\* force_resume ends every suspension of a thread, which may start it.
LEMMA ForceResumeKeeps ==
  ASSUME NEW j \in Kernel, NEW t \in Thread
  PROVE  LET r == force_resume(j, t)
         IN  /\ r \in Kernel /\ OnlyAbout(j, r, t) /\ SamePriorities(j, r)
             /\ Sane(j) => Sane(r)
             /\ Scheduled(j) /\ Bits(j, t) => Scheduled(r)
             /\ Bits(j, t) => Bits(r, t) /\ r.state[t] = j.state[t] \ {"SUSPENDED"}
             /\ r.state[t] \subseteq j.state[t]
             /\ j.state[t] \subseteq r.state[t] \cup {"SUSPENDED"}
             /\ SameReasons(j, r, t) /\ SameTimer(j, r, t)
             /\ r.wakeup_count[t] = j.wakeup_count[t] /\ r.suspend_count[t] = 0
<1> USE DEF OnlyAbout, SameReasons, SameTimer
<1>1. j.state \in [Thread -> SUBSET StateBit] /\ j.suspend_count \in [Thread -> Nat]
  BY DEF Kernel
<1>2. CASE j.suspend_count[t] = 0
  <2>1. force_resume(j, t) = j
    BY <1>2 DEF force_resume
  <2>2. Bits(j, t) => j.state[t] = j.state[t] \ {"SUSPENDED"}
    BY <1>2 DEF Bits
  <2> QED
    BY <1>2, <2>1, <2>2 DEF SamePriorities
<1>3. CASE j.suspend_count[t] # 0
  <2> DEFINE a == [j EXCEPT !.suspend_count[t] = 0, !.state[t] = @ \ {"SUSPENDED"}]
             r == Started(a, t)
  <2>1. force_resume(j, t) = r
    BY <1>3 DEF force_resume, Started
  <2>2. /\ a \in Kernel /\ SameQueues(j, a)
        /\ a.state = [j.state EXCEPT ![t] = @ \ {"SUSPENDED"}]
        /\ a.suspend_count = [j.suspend_count EXCEPT ![t] = 0]
        /\ a.wakeup_count = j.wakeup_count
        /\ a.sleep_reason = j.sleep_reason /\ a.wake_reason = j.wake_reason
        /\ a.timer = j.timer
    BY DEF Kernel, SameQueues, SamePriorities, SameRunQueues, SameWaitQueues
  <2> HIDE DEF a
  <2>3. /\ r \in Kernel
        /\ SameThreads(a, r) /\ SamePriorities(a, r)
        /\ r.queue = IF a.state[t] = RUNNING THEN [a.queue EXCEPT ![t] = NULL]
                                              ELSE a.queue
        /\ Sane(a) => Sane(r)
        /\ Queues(a, Runnable(a) \ {t}) => Scheduled(r)
    BY <2>2, StartedKeeps
  <2> HIDE DEF r
  <2>4. j.queue \in [Thread -> WaitQueue \cup {NULL}]
    BY DEF Kernel
  <2>5. OnlyAbout(j, r, t) /\ SamePriorities(j, r)
    BY <2>2, <2>3, <2>4
    DEF SamePriorities, SameThreads, SameQueues, SameWaitQueues
  <2>6. /\ r.state[t] = j.state[t] \ {"SUSPENDED"}
        /\ SameReasons(j, r, t) /\ SameTimer(j, r, t)
        /\ r.wakeup_count[t] = j.wakeup_count[t] /\ r.suspend_count[t] = 0
        /\ r.queue[t] \in {j.queue[t], NULL}
    BY <1>1, <2>2, <2>3, <2>4 DEF SameThreads, SameQueues, SameWaitQueues
  <2>7. Sane(j) => Sane(r)
    BY <2>2, <2>3, SameQueuesKeep
  <2>8. ASSUME Scheduled(j), Bits(j, t) PROVE Scheduled(r)
    <3>1. j.state[t] # RUNNING
      BY <1>1, <1>3, <2>8 DEF Bits, RUNNING
    <3>2. Runnable(a) \ {t} = Runnable(j)
      BY <1>1, <2>2, <3>1 DEF Runnable
    <3>3. Queues(a, Runnable(j))
      BY <2>2, <2>8, SameQueuesKeep DEF Scheduled
    <3> QED
      BY <2>3, <3>2, <3>3
  <2>9. Bits(j, t) => Bits(r, t)
    BY <2>6 DEF Bits
  <2>10. /\ r.state[t] \subseteq j.state[t]
         /\ j.state[t] \subseteq r.state[t] \cup {"SUSPENDED"}
    BY <2>6
  <2> QED
    BY <2>1, <2>3, <2>5, <2>6, <2>7, <2>8, <2>9, <2>10
<1> QED
  BY <1>2, <1>3

\* resume undoes one suspend.
LEMMA ResumeCalled ==
  ASSUME NEW j \in Kernel, NEW t \in Thread
  PROVE  Called(j, resume(j, t), t)
<1> DEFINE r == [j EXCEPT !.suspend_count[t] = @ - 1]
           f == force_resume(j, t)
<1>1. CASE j.suspend_count[t] > 1
  <2>1. resume(j, t) = r
    BY <1>1 DEF resume
  <2>2. j.suspend_count \in [Thread -> Nat] /\ j.suspend_count[t] - 1 \in Nat \ {0}
    BY <1>1 DEF Kernel
  <2>3. /\ r \in Kernel /\ SameQueues(j, r) /\ r.state = j.state /\ r.timer = j.timer
        /\ r.sleep_reason = j.sleep_reason /\ r.wake_reason = j.wake_reason
        /\ r.wakeup_count = j.wakeup_count /\ OnlyAbout(j, r, t)
        /\ r.suspend_count[t] = j.suspend_count[t] - 1
    BY <2>2
    DEF Kernel, SameQueues, SamePriorities, SameRunQueues, SameWaitQueues, OnlyAbout
  <2> HIDE DEF r
  <2>4. (Sane(j) => Sane(r)) /\ (Scheduled(j) => Scheduled(r))
    BY <2>3, RecordKeeps
  <2>5. Bits(j, t) /\ Reasons(j, t) => Bits(r, t) /\ Reasons(r, t) /\ Prodded(j, r, t)
    BY <1>1, <2>2, <2>3 DEF Bits, Reasons, Prodded, SameQueues, SameWaitQueues
  <2> QED
    BY <2>1, <2>3, <2>4, <2>5, CalledAbout
<1>2. CASE ~(j.suspend_count[t] > 1)
  <2>1. resume(j, t) = f
    BY <1>2 DEF resume
  <2>2. /\ f \in Kernel /\ OnlyAbout(j, f, t)
        /\ Sane(j) => Sane(f)
        /\ Scheduled(j) /\ Bits(j, t) => Scheduled(f)
        /\ Bits(j, t) => Bits(f, t)
        /\ f.state[t] \subseteq j.state[t]
        /\ j.state[t] \subseteq f.state[t] \cup {"SUSPENDED"}
        /\ SameReasons(j, f, t) /\ SameTimer(j, f, t)
    BY ForceResumeKeeps
  <2> HIDE DEF f
  <2>3. Reasons(j, t) => Reasons(f, t) /\ Prodded(j, f, t)
    BY <2>2 DEF Reasons, Prodded, SameReasons, SameTimer
  <2> QED
    BY <2>1, <2>2, <2>3, CalledAbout
<1> QED
  BY <1>1, <1>2

\* clear_timer changes nothing but the timer and the reason.
LEMMA ClearTimerKeeps ==
  ASSUME NEW j \in Kernel, NEW t \in Thread
  PROVE  LET r == clear_timer(j, t)
         IN  /\ r \in Kernel /\ OnlyAbout(j, r, t) /\ SameQueues(j, r)
             /\ r.state = j.state /\ r.timer = j.timer \ {t}
             /\ r.sleep_reason[t] = "NONE" /\ r.wake_reason = j.wake_reason
             /\ r.suspend_count = j.suspend_count /\ r.wakeup_count = j.wakeup_count
             /\ "SLEEPING" \notin j.state[t] => Called(j, r, t)
<1> DEFINE r == clear_timer(j, t)
<1>1. /\ r \in Kernel /\ SameQueues(j, r)
      /\ r.state = j.state /\ r.timer = j.timer \ {t}
      /\ r.sleep_reason[t] = "NONE" /\ r.wake_reason = j.wake_reason
      /\ r.suspend_count = j.suspend_count /\ r.wakeup_count = j.wakeup_count
      /\ OnlyAbout(j, r, t)
  <2>1. "NONE" \in Reason
    BY DEF Reason
  <2> QED
    BY <2>1 DEF clear_timer, Kernel, SameQueues, SamePriorities, SameRunQueues,
                SameWaitQueues, OnlyAbout
<1> HIDE DEF r
<1>2. ASSUME "SLEEPING" \notin j.state[t] PROVE Called(j, r, t)
  <2>1. (Sane(j) => Sane(r)) /\ (Scheduled(j) => Scheduled(r))
    BY <1>1, RecordKeeps
  <2>2. Bits(j, t) /\ Reasons(j, t) => Bits(r, t) /\ Reasons(r, t) /\ Prodded(j, r, t)
    BY <1>1, <1>2 DEF Bits, Reasons, Prodded, SameQueues, SameWaitQueues
  <2> QED
    BY <1>1, <2>1, <2>2, CalledAbout
<1> QED
  BY <1>1, <1>2 DEF r

\* The clock disarms a timer and calls its alarm.
Expired(j, t) == alarm([j EXCEPT !.timer = @ \ {t}], t)

\* It is one more of the ways in which a thread is called on.
LEMMA ExpiredCalled ==
  ASSUME NEW j \in Kernel, NEW t \in Thread
  PROVE  LET r == Expired(j, t)
         IN  /\ Called(j, r, t)
             /\ Sane(j) => Sane(r)
             /\ r.state[t] \subseteq j.state[t]
<1> DEFINE a == [j EXCEPT !.timer = @ \ {t}]
<1>1. /\ a \in Kernel /\ SameQueues(j, a)
      /\ a.state = j.state /\ a.timer = j.timer \ {t}
      /\ a.sleep_reason = j.sleep_reason /\ a.wake_reason = j.wake_reason
      /\ a.suspend_count = j.suspend_count /\ a.wakeup_count = j.wakeup_count
      /\ OnlyAbout(j, a, t)
  BY DEF Kernel, SameQueues, SamePriorities, SameRunQueues, SameWaitQueues, OnlyAbout
<1>2. Called(j, a, t) /\ (Sane(j) => Sane(a)) /\ a.state[t] \subseteq j.state[t]
  <2> HIDE DEF a
  <2>1. (Sane(j) => Sane(a)) /\ (Scheduled(j) => Scheduled(a))
    BY <1>1, RecordKeeps
  <2>2. Bits(j, t) /\ Reasons(j, t) => Bits(a, t) /\ Reasons(a, t) /\ Prodded(j, a, t)
    BY <1>1 DEF Bits, Reasons, Prodded, SameQueues, SameWaitQueues
  <2> QED
    BY <1>1, <2>1, <2>2, CalledAbout
<1>3. ASSUME NEW why \in Reason, why # "EXIT", j.sleep_reason[t] # "NONE"
      PROVE  /\ Called(j, WakeFor(a, t, why), t)
             /\ Sane(j) => Sane(WakeFor(a, t, why))
             /\ WakeFor(a, t, why).state[t] \subseteq j.state[t]
  <2> DEFINE r == WakeFor(a, t, why)
  <2> HIDE DEF a
  <2>1. Called(a, r, t)
    BY <1>1, <1>3, WakeForCalled
  <2> HIDE DEF r
  <2>2. Prodded(j, a, t) /\ Prodded(a, r, t) => Prodded(j, r, t)
    BY <1>1 DEF Prodded, SameQueues
  <2>3. Called(j, r, t)
    <3>1. OnlyAbout(j, r, t)
      BY <1>1, <2>1 DEF Called, OnlyAbout
    <3> QED
      BY <1>2, <2>1, <2>2, <3>1, Zenon DEF Called
  <2>4. (Sane(a) => Sane(r)) /\ r.state[t] = a.state[t] \ SLEEPSET
    BY <1>1, WakeForKeeps DEF r
  <2> QED
    BY <1>1, <1>2, <2>3, <2>4 DEF r
<1>4. CASE j.sleep_reason[t] = "DELAY"
  <2>1. Expired(j, t) = WakeFor(a, t, "DONE")
    BY <1>1, <1>4 DEF Expired, alarm, WakeFor
  <2> HIDE DEF a
  <2>2. "DONE" \in Reason
    BY DEF Reason
  <2> QED
    BY <1>3, <1>4, <2>1, <2>2
<1>5. CASE j.sleep_reason[t] = "TIMEOUT"
  <2>1. Expired(j, t) = WakeFor(a, t, "TIMEOUT")
    BY <1>1, <1>5 DEF Expired, alarm, WakeFor
  <2> HIDE DEF a
  <2>2. "TIMEOUT" \in Reason
    BY DEF Reason
  <2> QED
    BY <1>3, <1>5, <2>1, <2>2
<1>6. CASE j.sleep_reason[t] \notin {"DELAY", "TIMEOUT"}
  <2>1. Expired(j, t) = a
    BY <1>1, <1>6 DEF Expired, alarm
  <2> QED
    BY <1>2, <2>1
<1> QED
  BY <1>4, <1>5, <1>6

\* A synchronization object takes its first waiter off its queue and wakes it.
LEMMA DequeueWakeCalled ==
  ASSUME NEW j \in Kernel, NEW q \in WaitQueue, j.waitq[q] # <<>>
  PROVE  LET t == Head(j.waitq[q])
             r == WakeFor(dequeue(j, q), t, "DONE")
         IN  /\ t \in Thread /\ Called(j, r, t)
             /\ Sane(j) => Sane(r)
             /\ r.state[t] \subseteq j.state[t]
<1> DEFINE t == Head(j.waitq[q])
           d == dequeue(j, q)
           r == WakeFor(d, t, "DONE")
<1>1. /\ t \in Thread /\ On(j.waitq[q], t)
      /\ d \in Kernel
      /\ SameThreads(j, d) /\ SamePriorities(j, d) /\ SameRunQueues(j, d)
      /\ d.queue = [j.queue EXCEPT ![t] = NULL]
      /\ Waiting(j) => Waiting(d)
  BY DequeueKeeps
<1> HIDE DEF t, d
<1>2. /\ r \in Kernel /\ OnlyAbout(d, r, t)
      /\ Sane(d) => Sane(r)
      /\ Scheduled(d) => Scheduled(r)
      /\ r.state[t] = d.state[t] \ SLEEPSET
      /\ r.wake_reason[t] = "DONE"
      /\ SameTimer(d, r, t)
      /\ Bits(d, t) => Bits(r, t) /\ Reasons(r, t)
  <2>1. "DONE" \in Reason
    BY DEF Reason
  <2> QED
    BY <1>1, <2>1, WakeForKeeps
<1> HIDE DEF r
<1>3. j.queue \in [Thread -> WaitQueue \cup {NULL}]
  BY DEF Kernel
<1>4. OnlyAbout(j, r, t)
  BY <1>1, <1>2, <1>3 DEF OnlyAbout, SameThreads
<1>5. Sane(j) => Sane(r)
  <2>1. Sane(j) => Sane(d)
    BY <1>1 DEF Sane, MapAgrees, IdleQueued, SameRunQueues
  <2> QED
    BY <1>2, <2>1
<1>6. Scheduled(j) => Scheduled(r)
  <2>1. Runnable(d) = Runnable(j)
    BY <1>1 DEF Runnable, SameThreads
  <2>2. Scheduled(j) => Scheduled(d)
    BY <1>1, <2>1
    DEF Scheduled, Queues, Queued, Asked, SameRunQueues, SamePriorities, SameThreads
  <2> QED
    BY <1>2, <2>2
<1>7. ASSUME Scheduled(j), Bits(j, t), Reasons(j, t)
      PROVE  Bits(r, t) /\ Reasons(r, t) /\ Prodded(j, r, t)
  <2>1. "SLEEPING" \in j.state[t]
    BY <1>1, <1>7, QueueAssumption DEF Scheduled, Queues, Waiting, Bits
  <2>2. Bits(d, t)
    BY <1>1, <1>3, <1>7 DEF Bits, SameThreads
  <2>3. j.wake_reason[t] = "NONE"
    BY <1>7, <2>1 DEF Reasons
  <2>4. Prodded(j, r, t)
    BY <1>1, <1>2, <1>7, <2>1, <2>3 DEF Prodded, SameThreads, SameTimer, SLEEPSET
  <2> QED
    BY <1>2, <2>2, <2>4
<1>8. r.state[t] \subseteq j.state[t]
  BY <1>1, <1>2 DEF SameThreads
<1>9. Called(j, r, t)
  BY <1>1, <1>2, <1>4, <1>5, <1>6, <1>7, CalledAbout
<1> QED
  BY <1>1, <1>5, <1>8, <1>9 DEF r, d, t

\* kill ends a thread that does not sleep, and tells one that sleeps to exit.
LEMMA KillCalled ==
  ASSUME NEW j \in Kernel, NEW t \in Thread, t # j.current
  PROVE  Called(j, kill(j, t), t)
<1> DEFINE e == force_resume(j, t)
           f == [e EXCEPT !.timer = @ \ {t}]
           s == Stopped(f, t)
           x == [s EXCEPT !.state[t] = {"EXITED"}]
<1>1. /\ e \in Kernel /\ OnlyAbout(j, e, t) /\ SamePriorities(j, e)
      /\ Sane(j) => Sane(e)
      /\ Scheduled(j) /\ Bits(j, t) => Scheduled(e)
      /\ Bits(j, t) => Bits(e, t) /\ e.state[t] = j.state[t] \ {"SUSPENDED"}
      /\ e.state[t] \subseteq j.state[t]
      /\ j.state[t] \subseteq e.state[t] \cup {"SUSPENDED"}
      /\ SameReasons(j, e, t) /\ SameTimer(j, e, t)
      /\ e.wakeup_count[t] = j.wakeup_count[t] /\ e.suspend_count[t] = 0
  BY ForceResumeKeeps
<1>2. kill(j, t) = IF j.wake_reason[t] = "EXIT" THEN wake(f, t)
                   ELSE IF j.sleep_reason[t] = "NONE" THEN wake(x, t)
                   ELSE IF Asleep(j, t) THEN WakeFor(f, t, "EXIT")
                   ELSE f
  BY DEF kill, Stopped, WakeFor
<1> HIDE DEF e
<1>3. /\ f \in Kernel /\ SameQueues(e, f)
      /\ f.state = e.state /\ f.timer = e.timer \ {t}
      /\ f.sleep_reason = e.sleep_reason /\ f.wake_reason = e.wake_reason
      /\ f.suspend_count = e.suspend_count /\ f.wakeup_count = e.wakeup_count
      /\ OnlyAbout(e, f, t)
  BY <1>1 DEF Kernel, SameQueues, SamePriorities, SameRunQueues, SameWaitQueues, OnlyAbout
<1> HIDE DEF f
<1>4. /\ OnlyAbout(j, f, t)
      /\ Sane(j) => Sane(f)
      /\ Scheduled(j) /\ Bits(j, t) => Scheduled(f)
  <2>1. OnlyAbout(j, f, t)
    BY <1>1, <1>3 DEF OnlyAbout
  <2>2. (Sane(e) => Sane(f)) /\ (Scheduled(e) => Scheduled(f))
    BY <1>1, <1>3, RecordKeeps
  <2> QED
    BY <1>1, <2>1, <2>2
<1>5. /\ Bits(j, t) => Bits(f, t)
      /\ Reasons(j, t) => Reasons(f, t)
      /\ f.state[t] \subseteq j.state[t]
      /\ f.wake_reason[t] = j.wake_reason[t]
      /\ f.sleep_reason[t] = j.sleep_reason[t]
      /\ "EXITED" \in f.state[t] <=> "EXITED" \in j.state[t]
      /\ "SLEEPING" \in f.state[t] <=> "SLEEPING" \in j.state[t]
      /\ t \notin f.timer /\ f.suspend_count[t] = 0
  <2>1. Bits(e, t) => Bits(f, t)
    BY <1>3 DEF Bits, SameQueues, SameWaitQueues
  <2>2. "SLEEPING" \in e.state[t] <=> "SLEEPING" \in j.state[t]
    BY <1>1
  <2> QED
    BY <1>1, <1>3, <2>1, <2>2 DEF Reasons, SameReasons
<1>6. CASE j.wake_reason[t] = "EXIT"
  <2> DEFINE r == wake(f, t)
  <2>1. /\ r \in Kernel /\ OnlyAbout(f, r, t)
        /\ Sane(f) => Sane(r)
        /\ Scheduled(f) => Scheduled(r)
        /\ r.state[t] = f.state[t] \ SLEEPSET
        /\ SameReasons(f, r, t) /\ SameCounts(f, r, t) /\ SameTimer(f, r, t)
        /\ r.queue[t] = IF f.state[t] \cap SLEEPSET = {} THEN f.queue[t] ELSE NULL
    BY <1>3, WakeKeeps
  <2> HIDE DEF r
  <2>2. OnlyAbout(j, r, t)
    BY <1>4, <2>1 DEF OnlyAbout
  <2>3. ASSUME Bits(j, t), Reasons(j, t)
        PROVE  Bits(r, t) /\ Reasons(r, t) /\ Prodded(j, r, t)
    <3>1. "SLEEPING" \notin j.state[t]
      BY <1>6, <2>3 DEF Reasons
    <3>2. r.queue[t] = NULL
      BY <1>5, <2>1, <2>3, <3>1 DEF Bits
    <3>3. Bits(r, t)
      BY <1>5, <2>1, <2>3, <3>1, <3>2 DEF Bits, SameCounts, SLEEPSET
    <3>4. Reasons(r, t)
      BY <1>5, <2>1, <2>3, <3>1 DEF Reasons, SameReasons, SLEEPSET
    <3>5. Prodded(j, r, t)
      BY <1>5, <1>6, <2>1 DEF Prodded, SameReasons, SameTimer, SLEEPSET
    <3> QED
      BY <3>3, <3>4, <3>5
  <2>4. Called(j, r, t)
    BY <1>4, <2>1, <2>2, <2>3, CalledAbout
  <2> QED
    BY <1>2, <1>6, <2>4 DEF r
<1>7. CASE j.wake_reason[t] # "EXIT" /\ j.sleep_reason[t] = "NONE"
  <2>1. /\ s \in Kernel
        /\ SameThreads(f, s) /\ SamePriorities(f, s) /\ SameWaitQueues(f, s)
        /\ Sane(f) /\ t # Idle => Sane(s)
        /\ Scheduled(f) => Queues(s, Runnable(f) \ {t})
    BY <1>3, StoppedKeeps
  <2> HIDE DEF s
  <2>2. /\ x \in Kernel /\ SameQueues(s, x)
        /\ x.state = [s.state EXCEPT ![t] = {"EXITED"}]
        /\ x.suspend_count = s.suspend_count /\ x.wakeup_count = s.wakeup_count
        /\ x.sleep_reason = s.sleep_reason /\ x.wake_reason = s.wake_reason
        /\ x.timer = s.timer
    BY <2>1 DEF Kernel, SameQueues, SamePriorities, SameRunQueues, SameWaitQueues, StateBit
  <2> HIDE DEF x
  <2>3. s.state \in [Thread -> SUBSET StateBit] /\ x.state[t] = {"EXITED"}
    BY <2>1, <2>2 DEF Kernel
  <2>4. kill(j, t) = x
    BY <1>2, <1>7, <2>3 DEF wake, SLEEPSET
  <2>5. OnlyAbout(j, x, t)
    BY <1>4, <2>1, <2>2, <2>3 DEF OnlyAbout, SameThreads, SameWaitQueues, SameQueues
  <2>6. Sane(j) /\ t # Idle => Sane(x)
    BY <1>4, <2>1, <2>2, SameQueuesKeep
  <2>7. Scheduled(j) /\ Bits(j, t) => Scheduled(x)
    <3>1. Runnable(x) = Runnable(f) \ {t}
      BY <2>1, <2>2, <2>3 DEF Runnable, SameThreads, RUNNING
    <3> QED
      BY <1>4, <2>1, <2>2, <3>1, SameQueuesKeep DEF Scheduled
  <2>8. ASSUME Bits(j, t), Reasons(j, t)
        PROVE  Bits(x, t) /\ Reasons(x, t) /\ Prodded(j, x, t)
    <3>1. "SLEEPING" \notin j.state[t]
      BY <1>7, <2>8 DEF Reasons
    <3>2. x.queue[t] = NULL /\ x.suspend_count[t] = 0
      BY <1>5, <2>1, <2>2, <2>8, <3>1 DEF Bits, SameThreads, SameQueues, SameWaitQueues
    <3>3. x.sleep_reason[t] = "NONE" /\ x.wake_reason[t] = j.wake_reason[t] /\ t \notin x.timer
      BY <1>5, <1>7, <2>1, <2>2 DEF SameThreads
    <3>4. Bits(x, t)
      BY <2>3, <3>2 DEF Bits
    <3>5. Reasons(x, t)
      BY <2>3, <3>3 DEF Reasons
    <3>6. Prodded(j, x, t)
      BY <2>3, <3>3 DEF Prodded
    <3> QED
      BY <3>4, <3>5, <3>6
  <2>9. Called(j, x, t)
    BY <2>2, <2>5, <2>6, <2>7, <2>8, CalledAbout
  <2> QED
    BY <2>4, <2>9
<1>8. CASE j.wake_reason[t] # "EXIT" /\ j.sleep_reason[t] # "NONE" /\ Asleep(j, t)
  <2> DEFINE r == WakeFor(f, t, "EXIT")
  <2>1. "EXIT" \in Reason
    BY DEF Reason
  <2>2. /\ r \in Kernel /\ OnlyAbout(f, r, t)
        /\ Sane(f) => Sane(r)
        /\ Scheduled(f) => Scheduled(r)
        /\ r.state[t] = f.state[t] \ SLEEPSET
        /\ r.wake_reason[t] = "EXIT"
        /\ SameTimer(f, r, t)
        /\ Bits(f, t) => Bits(r, t) /\ Reasons(r, t)
    BY <1>3, <2>1, WakeForKeeps
  <2> HIDE DEF r
  <2>3. OnlyAbout(j, r, t)
    BY <1>4, <2>2 DEF OnlyAbout
  <2>4. Reasons(j, t) => Prodded(j, r, t)
    BY <1>5, <1>8, <2>2 DEF Prodded, Reasons, SameTimer, SLEEPSET
  <2>5. Called(j, r, t)
    BY <1>4, <1>5, <2>2, <2>3, <2>4, CalledAbout
  <2> QED
    BY <1>2, <1>8, <2>5 DEF r
<1>9. CASE j.wake_reason[t] # "EXIT" /\ j.sleep_reason[t] # "NONE" /\ ~Asleep(j, t)
  <2>1. Prodded(j, f, t)
    BY <1>5, <1>9 DEF Prodded
  <2>2. Called(j, f, t)
    BY <1>3, <1>4, <1>5, <2>1, CalledAbout
  <2> QED
    BY <1>2, <1>9, <2>2
<1> QED
  BY <1>6, <1>7, <1>8, <1>9

\* exit takes the current thread off the scheduler for good, though it may be
\* suspended when it calls it.
LEMMA ExitKeeps ==
  ASSUME NEW j \in Kernel
  PROVE  LET t == j.current
             r == exit(j)
         IN  /\ r \in Kernel /\ OnlyAbout(j, r, t)
             /\ Sane(j) /\ t # Idle => Sane(r)
             /\ Consistent(j) /\ "SLEEPING" \notin j.state[t] => Consistent(r)
             /\ r.state[t] = {"EXITED"} /\ r.timer = j.timer \ {t}
             /\ r.wake_reason = j.wake_reason
             /\ SamePriorities(j, r)
<1> DEFINE t == j.current
           a == clear_timer(j, t)
           b == [a EXCEPT !.state[t] = {"EXITED"}]
           x == rem_thread(b, t)
<1>0. t \in Thread
  BY DEF Kernel
<1>1. exit(j) = IF j.state[t] = {"EXITED"} THEN a ELSE x
  BY DEF exit
<1> HIDE DEF t
<1>2. /\ a \in Kernel /\ OnlyAbout(j, a, t) /\ SameQueues(j, a)
      /\ a.state = j.state /\ a.timer = j.timer \ {t}
      /\ a.sleep_reason[t] = "NONE" /\ a.wake_reason = j.wake_reason
      /\ a.suspend_count = j.suspend_count /\ a.wakeup_count = j.wakeup_count
      /\ "SLEEPING" \notin j.state[t] => Called(j, a, t)
  BY <1>0, ClearTimerKeeps
<1> HIDE DEF a
<1>3. CASE j.state[t] = {"EXITED"}
  <2>1. Sane(j) => Sane(a)
    BY <1>2, SameQueuesKeep
  <2>2. SamePriorities(j, a)
    BY <1>2 DEF SameQueues
  <2> QED
    BY <1>1, <1>2, <1>3, <2>1, <2>2, Zenon DEF t, Called
<1>4. CASE j.state[t] # {"EXITED"}
  <2>1. /\ b \in Kernel /\ SameQueues(a, b)
        /\ b.state = [a.state EXCEPT ![t] = {"EXITED"}]
        /\ b.suspend_count = a.suspend_count /\ b.wakeup_count = a.wakeup_count
        /\ b.sleep_reason = a.sleep_reason /\ b.wake_reason = a.wake_reason
        /\ b.timer = a.timer
    BY <1>2 DEF Kernel, SameQueues, SamePriorities, SameRunQueues, SameWaitQueues, StateBit
  <2> HIDE DEF b
  <2>2. /\ x \in Kernel
        /\ SameThreads(b, x) /\ SamePriorities(b, x) /\ SameWaitQueues(b, x)
        /\ x.need_reschedule = b.need_reschedule
        /\ Sane(b) /\ t # Idle => Sane(x)
        /\ \A S : Queued(b, S) => Queued(x, S \ {t})
    BY <1>0, <2>1, RemThreadKeeps
  <2> HIDE DEF x
  <2>3. a.state \in [Thread -> SUBSET StateBit]
    BY <1>2 DEF Kernel
  <2>4. x.state = [j.state EXCEPT ![t] = {"EXITED"}] /\ x.state[t] = {"EXITED"}
    BY <1>0, <1>2, <2>1, <2>2, <2>3 DEF SameThreads
  <2>5. OnlyAbout(j, x, t)
    BY <1>2, <2>1, <2>2, <2>3 DEF OnlyAbout, SameThreads, SameWaitQueues, SameQueues
  <2>6. Sane(j) /\ t # Idle => Sane(x)
    BY <1>2, <2>1, <2>2, SameQueuesKeep
  <2>7. Scheduled(j) => Scheduled(x)
    <3>1. Runnable(x) = Runnable(j) \ {t}
      BY <1>0, <1>2, <2>3, <2>4 DEF Runnable, RUNNING
    <3>2. Queues(j, Runnable(j)) => Queues(b, Runnable(j))
      BY <1>2, <2>1, SameQueuesKeep
    <3>3. \A S : Queues(b, S) => Queues(x, S \ {t})
      <4>1. \A S : Asked(b, S) => Asked(x, S \ {t})
        BY <2>2 DEF Asked, SameThreads, SamePriorities
      <4>2. Waiting(b) => Waiting(x)
        BY <2>2 DEF Waiting, SameWaitQueues
      <4> QED
        BY <2>2, <4>1, <4>2 DEF Queues
    <3> QED
      BY <3>1, <3>2, <3>3 DEF Scheduled
  <2>8. ASSUME Bits(j, t), "SLEEPING" \notin j.state[t]
        PROVE  Bits(x, t) /\ Reasons(x, t)
    <3>1. x.queue[t] = NULL
      BY <1>2, <2>1, <2>2, <2>8 DEF Bits, SameQueues, SameWaitQueues
    <3>2. x.sleep_reason[t] = "NONE"
      BY <1>2, <2>1, <2>2 DEF SameThreads
    <3> QED
      BY <2>4, <3>1, <3>2 DEF Bits, Reasons
  <2>9. Consistent(j) /\ "SLEEPING" \notin j.state[t] => Consistent(x)
    <3>1. \A u \in Thread \ {t} : (Bits(j, u) => Bits(x, u)) /\ (Reasons(j, u) => Reasons(x, u))
      BY <2>5 DEF OnlyAbout, Bits, Reasons
    <3> QED
      BY <1>0, <2>7, <2>8, <3>1 DEF Consistent
  <2>10. SamePriorities(j, x)
    BY <1>2, <2>1, <2>2 DEF SameQueues, SamePriorities
  <2>11. x.timer = j.timer \ {t} /\ x.wake_reason = j.wake_reason
    BY <1>2, <2>1, <2>2 DEF SameThreads
  <2> QED
    BY <1>1, <1>4, <2>2, <2>4, <2>5, <2>6, <2>9, <2>10, <2>11, Zenon DEF t
<1> QED
  BY <1>3, <1>4

\* set_sleep_reason changes nothing but the two reasons.
LEMMA SetSleepReasonKeeps ==
  ASSUME NEW j \in Kernel, NEW t \in Thread, NEW why \in Reason
  PROVE  LET r == set_sleep_reason(j, t, why)
         IN  /\ r \in Kernel /\ SameQueues(j, r) /\ OnlyAbout(j, r, t)
             /\ r.state = j.state /\ r.timer = j.timer
             /\ r.suspend_count = j.suspend_count /\ r.wakeup_count = j.wakeup_count
             /\ r.sleep_reason[t] = why /\ r.wake_reason[t] = "NONE"
             /\ Sane(j) => Sane(r)
             /\ Scheduled(j) => Scheduled(r)
<1> DEFINE r == set_sleep_reason(j, t, why)
<1>1. /\ r \in Kernel /\ SameQueues(j, r) /\ OnlyAbout(j, r, t)
      /\ r.state = j.state /\ r.timer = j.timer
      /\ r.suspend_count = j.suspend_count /\ r.wakeup_count = j.wakeup_count
      /\ r.sleep_reason[t] = why /\ r.wake_reason[t] = "NONE"
  <2>1. "NONE" \in Reason
    BY DEF Reason
  <2> QED
    BY <2>1 DEF set_sleep_reason, Kernel, SameQueues, SamePriorities, SameRunQueues,
                SameWaitQueues, OnlyAbout
<1> HIDE DEF r
<1> QED
  BY <1>1, RecordKeeps DEF r

\* sleep marks the current thread and takes it off its run queue.
LEMMA SleepKeeps ==
  ASSUME NEW j \in Kernel
  PROVE  LET t == j.current
             r == sleep(j)
         IN  /\ r \in Kernel /\ OnlyAbout(j, r, t) /\ SamePriorities(j, r)
             /\ SameWaitQueues(j, r)
             /\ r.state = [j.state EXCEPT ![t] = @ \cup {"SLEEPING"}]
             /\ r.sleep_reason = j.sleep_reason /\ r.wake_reason = j.wake_reason
             /\ r.suspend_count = j.suspend_count /\ r.wakeup_count = j.wakeup_count
             /\ r.timer = j.timer
             /\ Sane(j) /\ t # Idle => Sane(r)
             /\ Scheduled(j) => Scheduled(r)
<1> DEFINE t == j.current
           s == Stopped(j, t)
           b == s.state[t] \cup {"SLEEPING"}
           r == [s EXCEPT !.state[t] = b]
<1>0. t \in Thread
  BY DEF Kernel
<1>1. /\ s \in Kernel
      /\ SameThreads(j, s) /\ SamePriorities(j, s) /\ SameWaitQueues(j, s)
      /\ Sane(j) /\ t # Idle => Sane(s)
      /\ Scheduled(j) => Queues(s, Runnable(j) \ {t})
  BY <1>0, StoppedKeeps
<1>2. sleep(j) = r
  <2>1. sleep(j) = [s EXCEPT !.state[t] = @ \cup {"SLEEPING"}]
    BY DEF sleep, Stopped
  <2> HIDE DEF s
  <2> QED
    BY <1>0, <1>1, <2>1 DEF Kernel
<1> HIDE DEF s
<1>3. s.state = j.state /\ j.state \in [Thread -> SUBSET StateBit]
  BY <1>1 DEF Kernel, SameThreads
<1>4. b \in SUBSET StateBit /\ "SLEEPING" \in b /\ b = j.state[t] \cup {"SLEEPING"}
  BY <1>0, <1>3 DEF StateBit
<1> HIDE DEF t, b
<1>5. /\ r \in Kernel /\ SameQueues(s, r)
      /\ r.state = [s.state EXCEPT ![t] = b]
      /\ r.suspend_count = s.suspend_count /\ r.wakeup_count = s.wakeup_count
      /\ r.sleep_reason = s.sleep_reason /\ r.wake_reason = s.wake_reason
      /\ r.timer = s.timer
  BY <1>0, <1>1, <1>4 DEF Kernel, SameQueues, SamePriorities, SameRunQueues, SameWaitQueues
<1> HIDE DEF r
<1>6. OnlyAbout(j, r, t)
  BY <1>1, <1>3, <1>5 DEF OnlyAbout, SameThreads, SameWaitQueues, SameQueues
<1>7. Sane(j) /\ t # Idle => Sane(r)
  BY <1>1, <1>5, SameQueuesKeep
<1>8. Scheduled(j) => Scheduled(r)
  <2>1. Runnable(r) = Runnable(j) \ {t}
    BY <1>0, <1>3, <1>4, <1>5 DEF Runnable, RUNNING
  <2> QED
    BY <1>1, <1>5, <2>1, SameQueuesKeep DEF Scheduled
<1>9. r.state = [j.state EXCEPT ![t] = @ \cup {"SLEEPING"}]
  BY <1>3, <1>4, <1>5
<1>10. SamePriorities(j, r) /\ SameWaitQueues(j, r)
  BY <1>1, <1>5 DEF SameQueues, SamePriorities, SameWaitQueues
<1> QED
  BY <1>1, <1>2, <1>5, <1>6, <1>7, <1>8, <1>9, <1>10 DEF t, SameThreads

\* The effect of a call that may put the current thread to sleep.
Blocked(j, r) ==
  LET t == j.current
  IN  /\ r \in Kernel /\ OnlyAbout(j, r, t) /\ SamePriorities(j, r)
      /\ Sane(j) /\ t # Idle => Sane(r)
      /\ Consistent(j) /\ j.state[t] = RUNNING =>
           Consistent(r) /\ r.state[t] \subseteq SLEEPSET

\* It is enough to look at the current thread.
LEMMA BlockedAbout ==
  ASSUME NEW j \in Kernel, NEW r \in Kernel, NEW t, t = j.current,
         OnlyAbout(j, r, t), SamePriorities(j, r),
         Sane(j) /\ t # Idle => Sane(r),
         Scheduled(j) /\ Bits(j, t) /\ Reasons(j, t) /\ j.state[t] = RUNNING
           => Scheduled(r) /\ Bits(r, t) /\ Reasons(r, t) /\ r.state[t] \subseteq SLEEPSET
  PROVE  Blocked(j, r)
<1>1. t \in Thread
  BY DEF Kernel
<1>2. \A u \in Thread \ {t} : (Bits(j, u) => Bits(r, u)) /\ (Reasons(j, u) => Reasons(r, u))
  BY DEF OnlyAbout, Bits, Reasons
<1>3. Consistent(j) /\ j.state[t] = RUNNING => Consistent(r) /\ r.state[t] \subseteq SLEEPSET
  BY <1>1, <1>2 DEF Consistent
<1> QED
  BY <1>3 DEF Blocked

\* What the sleeping calls share: a reason to sleep, then sleep.
SleepFor(j, why) == sleep(set_sleep_reason(j, j.current, why))

\* The current thread sleeps; the other threads are as they were.
LEMMA SleepForKeeps ==
  ASSUME NEW j \in Kernel, NEW why \in Reason
  PROVE  LET t == j.current
             r == SleepFor(j, why)
         IN  /\ r \in Kernel /\ OnlyAbout(j, r, t) /\ SamePriorities(j, r)
             /\ SameWaitQueues(j, r)
             /\ r.state[t] = j.state[t] \cup {"SLEEPING"}
             /\ r.sleep_reason[t] = why /\ r.wake_reason[t] = "NONE"
             /\ SameCounts(j, r, t) /\ SameTimer(j, r, t)
             /\ Sane(j) /\ t # Idle => Sane(r)
             /\ Scheduled(j) => Scheduled(r)
<1> DEFINE t == j.current
           a == set_sleep_reason(j, t, why)
           r == sleep(a)
<1>1. t \in Thread
  BY DEF Kernel
<1>2. /\ a \in Kernel /\ SameQueues(j, a) /\ OnlyAbout(j, a, t)
      /\ a.state = j.state /\ a.timer = j.timer
      /\ a.suspend_count = j.suspend_count /\ a.wakeup_count = j.wakeup_count
      /\ a.sleep_reason[t] = why /\ a.wake_reason[t] = "NONE"
      /\ Sane(j) => Sane(a)
      /\ Scheduled(j) => Scheduled(a)
  BY <1>1, SetSleepReasonKeeps
<1> HIDE DEF a
<1>3. /\ r \in Kernel /\ OnlyAbout(a, r, a.current) /\ SamePriorities(a, r)
      /\ SameWaitQueues(a, r)
      /\ r.state = [a.state EXCEPT ![a.current] = @ \cup {"SLEEPING"}]
      /\ r.sleep_reason = a.sleep_reason /\ r.wake_reason = a.wake_reason
      /\ r.suspend_count = a.suspend_count /\ r.wakeup_count = a.wakeup_count
      /\ r.timer = a.timer
      /\ Sane(a) /\ a.current # Idle => Sane(r)
      /\ Scheduled(a) => Scheduled(r)
  BY <1>2, SleepKeeps
<1>4. a.current = t /\ SleepFor(j, why) = r
  BY <1>2 DEF SameQueues, SleepFor, a
<1> HIDE DEF r, t
<1>5. OnlyAbout(j, r, t)
  BY <1>2, <1>3, <1>4 DEF OnlyAbout
<1>6. r.state[t] = j.state[t] \cup {"SLEEPING"}
  <2>1. j.state \in [Thread -> SUBSET StateBit]
    BY DEF Kernel
  <2> QED
    BY <1>1, <1>2, <1>3, <1>4, <2>1
<1>7. SamePriorities(j, r) /\ SameWaitQueues(j, r)
  BY <1>2, <1>3 DEF SameQueues, SamePriorities, SameWaitQueues
<1> QED
  BY <1>2, <1>3, <1>4, <1>5, <1>6, <1>7 DEF SameCounts, SameTimer, t

\* The sleep of counted_sleep, with or without a timeout.
CountedSleepFor(j, why) ==
  [SleepFor(j, why) EXCEPT !.state[j.current] = @ \cup {"COUNTSLEEP"}]

\* The current thread sleeps until a counted wake; the others are as they were.
LEMMA CountedSleepForKeeps ==
  ASSUME NEW j \in Kernel, NEW why \in Reason
  PROVE  LET t == j.current
             r == CountedSleepFor(j, why)
         IN  /\ r \in Kernel /\ OnlyAbout(j, r, t) /\ SamePriorities(j, r)
             /\ SameWaitQueues(j, r)
             /\ r.state[t] = j.state[t] \cup SLEEPSET
             /\ r.sleep_reason[t] = why /\ r.wake_reason[t] = "NONE"
             /\ SameCounts(j, r, t) /\ SameTimer(j, r, t)
             /\ Sane(j) /\ t # Idle => Sane(r)
             /\ Scheduled(j) => Scheduled(r)
<1> DEFINE t == j.current
           s == SleepFor(j, why)
           b == s.state[t] \cup {"COUNTSLEEP"}
           r == [s EXCEPT !.state[t] = b]
<1>1. t \in Thread
  BY DEF Kernel
<1>2. /\ s \in Kernel /\ OnlyAbout(j, s, t) /\ SamePriorities(j, s)
      /\ SameWaitQueues(j, s)
      /\ s.state[t] = j.state[t] \cup {"SLEEPING"}
      /\ s.sleep_reason[t] = why /\ s.wake_reason[t] = "NONE"
      /\ SameCounts(j, s, t) /\ SameTimer(j, s, t)
      /\ Sane(j) /\ t # Idle => Sane(s)
      /\ Scheduled(j) => Scheduled(s)
  BY SleepForKeeps
<1>3. CountedSleepFor(j, why) = r
  <2>1. CountedSleepFor(j, why) = [s EXCEPT !.state[t] = @ \cup {"COUNTSLEEP"}]
    BY DEF CountedSleepFor
  <2> HIDE DEF s
  <2> QED
    BY <1>1, <1>2, <2>1 DEF Kernel
<1> HIDE DEF s
<1>4. s.state \in [Thread -> SUBSET StateBit]
  BY <1>2 DEF Kernel
<1>5. b \in SUBSET StateBit /\ b = j.state[t] \cup SLEEPSET
  BY <1>1, <1>2, <1>4 DEF StateBit, SLEEPSET
<1> HIDE DEF t, b
<1>6. /\ r \in Kernel /\ SameQueues(s, r)
      /\ r.state = [s.state EXCEPT ![t] = b]
      /\ r.suspend_count = s.suspend_count /\ r.wakeup_count = s.wakeup_count
      /\ r.sleep_reason = s.sleep_reason /\ r.wake_reason = s.wake_reason
      /\ r.timer = s.timer
  BY <1>1, <1>2, <1>5 DEF Kernel, SameQueues, SamePriorities, SameRunQueues, SameWaitQueues
<1> HIDE DEF r
<1>7. OnlyAbout(j, r, t)
  BY <1>2, <1>4, <1>6 DEF OnlyAbout, SameQueues, SameWaitQueues
<1>8. Sane(s) => Sane(r)
  BY <1>2, <1>6, SameQueuesKeep
<1>9. Scheduled(s) => Scheduled(r)
  <2>1. Runnable(r) = Runnable(s)
    BY <1>1, <1>2, <1>4, <1>5, <1>6 DEF Runnable, RUNNING, SLEEPSET
  <2> QED
    BY <1>2, <1>6, <2>1, SameQueuesKeep DEF Scheduled
<1>10. SamePriorities(j, r) /\ SameWaitQueues(j, r)
  BY <1>2, <1>6 DEF SameQueues, SamePriorities, SameWaitQueues
<1>11. r.state[t] = j.state[t] \cup SLEEPSET
  BY <1>1, <1>4, <1>5, <1>6
<1> QED
  BY <1>2, <1>3, <1>6, <1>7, <1>8, <1>9, <1>10, <1>11 DEF SameCounts, SameTimer, t

\* counted_sleep uses up a wakeup or sleeps; it arms no timer.
LEMMA UsedWakeup ==
  ASSUME NEW j \in Kernel, j.wakeup_count[j.current] > 0
  PROVE  LET t == j.current
             r == [j EXCEPT !.wakeup_count[t] = @ - 1]
         IN  /\ Blocked(j, r)
             /\ r.state = j.state /\ r.queue = j.queue /\ SameTimer(j, r, t)
<1> DEFINE t == j.current
           n == j.wakeup_count[t] - 1
           r == [j EXCEPT !.wakeup_count[t] = n]
<1>1. t \in Thread /\ j.wakeup_count \in [Thread -> Nat]
  BY DEF Kernel
<1>2. n \in Nat
  BY <1>1
<1> HIDE DEF t, n
<1>3. /\ r \in Kernel /\ SameQueues(j, r) /\ OnlyAbout(j, r, t)
      /\ r.state = j.state /\ r.timer = j.timer
      /\ r.suspend_count = j.suspend_count
      /\ r.sleep_reason = j.sleep_reason /\ r.wake_reason = j.wake_reason
  BY <1>1, <1>2 DEF Kernel, SameQueues, SamePriorities, SameRunQueues, SameWaitQueues, OnlyAbout
<1> HIDE DEF r
<1>4. (Sane(j) => Sane(r)) /\ (Scheduled(j) => Scheduled(r))
  BY <1>1, <1>3, RecordKeeps
<1>5. Bits(j, t) /\ Reasons(j, t) /\ j.state[t] = RUNNING
        => Bits(r, t) /\ Reasons(r, t) /\ r.state[t] \subseteq SLEEPSET
  BY <1>3 DEF Bits, Reasons, RUNNING, SameQueues, SameWaitQueues
<1>6. Blocked(j, r)
  BY <1>3, <1>4, <1>5, BlockedAbout DEF t, SameQueues
<1>7. r = [j EXCEPT !.wakeup_count[t] = @ - 1]
  BY DEF r, n
<1> QED
  BY <1>3, <1>6, <1>7 DEF t, SameTimer, SameQueues, SameWaitQueues

\* counted_sleep blocks the current thread, or takes one of its wakeups.
LEMMA CountedSleepBlocks ==
  ASSUME NEW j \in Kernel
  PROVE  LET r == counted_sleep(j)
         IN  Blocked(j, r) /\ SameTimer(j, r, j.current) /\ r.queue = j.queue
<1> DEFINE t == j.current
           r == CountedSleepFor(j, "WAIT")
<1>1. counted_sleep(j) = IF j.wakeup_count[t] = 0 THEN r
                         ELSE [j EXCEPT !.wakeup_count[t] = @ - 1]
  BY DEF counted_sleep, CountedSleepFor, SleepFor
<1>2. "WAIT" \in Reason
  BY DEF Reason
<1>3. /\ r \in Kernel /\ OnlyAbout(j, r, t) /\ SamePriorities(j, r)
      /\ SameWaitQueues(j, r)
      /\ r.state[t] = j.state[t] \cup SLEEPSET
      /\ r.sleep_reason[t] = "WAIT" /\ r.wake_reason[t] = "NONE"
      /\ SameCounts(j, r, t) /\ SameTimer(j, r, t)
      /\ Sane(j) /\ t # Idle => Sane(r)
      /\ Scheduled(j) => Scheduled(r)
  BY <1>2, CountedSleepForKeeps
<1>4. t \in Thread /\ j.wakeup_count[t] \in Nat
  BY DEF Kernel
<1> HIDE DEF r
<1>5. CASE j.wakeup_count[t] = 0
  <2>1. Bits(j, t) /\ j.state[t] = RUNNING
          => Bits(r, t) /\ Reasons(r, t) /\ r.state[t] \subseteq SLEEPSET
    BY <1>3, <1>5 DEF Bits, Reasons, RUNNING, SLEEPSET, SameWaitQueues, SameCounts
  <2>2. Blocked(j, r)
    BY <1>3, <2>1, BlockedAbout
  <2> QED
    BY <1>1, <1>3, <1>5, <2>2 DEF SameWaitQueues
<1>6. CASE j.wakeup_count[t] > 0
  BY <1>1, <1>6, UsedWakeup
<1> QED
  BY <1>4, <1>5, <1>6

\* counted_sleep with a timeout leaves its timer armed only if it sleeps.
LEMMA CountedSleepUntilBlocks ==
  ASSUME NEW j \in Kernel, NEW past \in BOOLEAN
  PROVE  LET t == j.current
             r == counted_sleep_until(j, past)
         IN  /\ Blocked(j, r)
             /\ j.state[t] = RUNNING /\ r.state[t] = RUNNING => SameTimer(j, r, t)
<1> DEFINE t == j.current
           a == set_sleep_reason(j, t, "TIMEOUT")
           armed == set_timer(j, t, "TIMEOUT", past)
           s == CountedSleepFor(armed, "TIMEOUT")
           b == [a EXCEPT !.timer = @ \cup {t}]
           w == WakeFor(a, t, "TIMEOUT")
<1>1. t \in Thread /\ j.wakeup_count[t] \in Nat
  BY DEF Kernel
<1>2. "TIMEOUT" \in Reason
  BY DEF Reason
<1>3. /\ a \in Kernel /\ SameQueues(j, a) /\ OnlyAbout(j, a, t)
      /\ a.state = j.state /\ a.timer = j.timer
      /\ a.suspend_count = j.suspend_count /\ a.wakeup_count = j.wakeup_count
      /\ a.sleep_reason[t] = "TIMEOUT" /\ a.wake_reason[t] = "NONE"
      /\ Sane(j) => Sane(a)
      /\ Scheduled(j) => Scheduled(a)
  BY <1>1, <1>2, SetSleepReasonKeeps
<1>4. armed = IF past THEN w ELSE b
  BY <1>3 DEF set_timer, alarm, WakeFor
<1>5. armed.current = t => counted_sleep_until(j, past) =
        IF j.wakeup_count[t] > 0 THEN [j EXCEPT !.wakeup_count[t] = @ - 1]
        ELSE IF armed.wake_reason[t] # "NONE" THEN armed ELSE s
  BY DEF counted_sleep_until, CountedSleepFor, SleepFor
<1> HIDE DEF a, armed
<1>6. CASE past
  <2>1. /\ w \in Kernel /\ OnlyAbout(a, w, t) /\ SamePriorities(a, w)
        /\ Sane(a) => Sane(w)
        /\ Scheduled(a) => Scheduled(w)
        /\ w.state[t] = a.state[t] \ SLEEPSET
        /\ w.wake_reason[t] = "TIMEOUT"
        /\ SameTimer(a, w, t)
        /\ Bits(a, t) => Bits(w, t) /\ Reasons(w, t)
    BY <1>1, <1>2, <1>3, WakeForKeeps
  <2> HIDE DEF w
  <2>2. OnlyAbout(j, w, t) /\ SamePriorities(j, w) /\ SameTimer(j, w, t)
    BY <1>3, <2>1 DEF OnlyAbout, SamePriorities, SameTimer, SameQueues
  <2>3. Bits(j, t) => Bits(a, t)
    BY <1>3 DEF Bits, SameQueues, SameWaitQueues
  <2>4. j.state[t] = RUNNING => w.state[t] \subseteq SLEEPSET
    BY <1>3, <2>1 DEF RUNNING, SLEEPSET
  <2>5. Blocked(j, w)
    BY <1>1, <1>3, <2>1, <2>2, <2>3, <2>4, BlockedAbout
  <2>6. CASE j.wakeup_count[t] > 0
    BY <1>4, <1>5, <1>6, <2>2, <2>6, UsedWakeup DEF OnlyAbout
  <2>7. CASE ~(j.wakeup_count[t] > 0)
    BY <1>4, <1>5, <1>6, <2>1, <2>2, <2>5, <2>7 DEF OnlyAbout
  <2> QED
    BY <2>6, <2>7
<1>7. CASE ~past
  <2>1. /\ b \in Kernel /\ SameQueues(a, b) /\ OnlyAbout(a, b, t)
        /\ b.state = a.state
        /\ b.suspend_count = a.suspend_count /\ b.wakeup_count = a.wakeup_count
        /\ b.sleep_reason = a.sleep_reason /\ b.wake_reason = a.wake_reason
    BY <1>1, <1>3 DEF Kernel, SameQueues, SamePriorities, SameRunQueues, SameWaitQueues, OnlyAbout
  <2>2. armed = b
    BY <1>4, <1>7
  <2> HIDE DEF b
  <2>3. b.current = t
    BY <1>3, <2>1 DEF SameQueues
  <2> DEFINE c == CountedSleepFor(b, "TIMEOUT")
  <2>4. /\ c \in Kernel /\ OnlyAbout(b, c, t) /\ SamePriorities(b, c)
        /\ SameWaitQueues(b, c)
        /\ c.state[t] = b.state[t] \cup SLEEPSET
        /\ c.sleep_reason[t] = "TIMEOUT" /\ c.wake_reason[t] = "NONE"
        /\ SameCounts(b, c, t)
        /\ Sane(b) /\ t # Idle => Sane(c)
        /\ Scheduled(b) => Scheduled(c)
    BY <1>2, <2>1, <2>3, CountedSleepForKeeps
  <2> HIDE DEF c
  <2>5. OnlyAbout(j, c, t) /\ SamePriorities(j, c)
    BY <1>3, <2>1, <2>4 DEF OnlyAbout, SamePriorities, SameQueues
  <2>6. (Sane(a) => Sane(b)) /\ (Scheduled(a) => Scheduled(b))
    BY <1>1, <1>3, <2>1, RecordKeeps
  <2>7. CASE j.wakeup_count[t] > 0
    BY <1>5, <2>2, <2>3, <2>7, UsedWakeup
  <2>8. CASE ~(j.wakeup_count[t] > 0)
    <3>1. counted_sleep_until(j, past) = c
      BY <1>3, <1>5, <2>1, <2>2, <2>3, <2>8 DEF c
    <3>2. c.wakeup_count[t] = 0 /\ c.suspend_count[t] = j.suspend_count[t]
          /\ c.queue = j.queue /\ c.state[t] = j.state[t] \cup SLEEPSET
      BY <1>1, <1>3, <2>1, <2>4, <2>8 DEF SameCounts, SameQueues, SameWaitQueues
    <3>3. Bits(j, t) /\ j.state[t] = RUNNING
            => Bits(c, t) /\ Reasons(c, t) /\ c.state[t] \subseteq SLEEPSET
      BY <2>4, <3>2 DEF Bits, Reasons, RUNNING, SLEEPSET
    <3>4. Blocked(j, c)
      BY <1>3, <2>4, <2>5, <2>6, <3>3, BlockedAbout
    <3>5. c.state[t] # RUNNING
      BY <3>2 DEF RUNNING, SLEEPSET
    <3> QED
      BY <3>1, <3>4, <3>5
  <2> QED
    BY <2>7, <2>8
<1> QED
  BY <1>6, <1>7

\* delay sleeps and arms the timer; a time in the past wakes it at once.
LEMMA DelayBlocks ==
  ASSUME NEW j \in Kernel, NEW past \in BOOLEAN
  PROVE  Blocked(j, delay(j, past))
<1> DEFINE t == j.current
           s == sleep(j)
           a == set_sleep_reason(s, t, "DELAY")
           b == [a EXCEPT !.timer = @ \cup {t}]
           w == WakeFor(a, t, "DONE")
<1>1. t \in Thread
  BY DEF Kernel
<1>2. "DELAY" \in Reason /\ "DONE" \in Reason
  BY DEF Reason
<1>3. /\ s \in Kernel /\ OnlyAbout(j, s, t) /\ SamePriorities(j, s)
      /\ SameWaitQueues(j, s)
      /\ s.state = [j.state EXCEPT ![t] = @ \cup {"SLEEPING"}]
      /\ s.suspend_count = j.suspend_count /\ s.wakeup_count = j.wakeup_count
      /\ Sane(j) /\ t # Idle => Sane(s)
      /\ Scheduled(j) => Scheduled(s)
  BY SleepKeeps
<1>4. delay(j, past) = set_timer(s, t, "DELAY", past)
  BY DEF delay
<1> HIDE DEF s
<1>5. /\ a \in Kernel /\ SameQueues(s, a) /\ OnlyAbout(s, a, t)
      /\ a.state = s.state /\ a.timer = s.timer
      /\ a.suspend_count = s.suspend_count /\ a.wakeup_count = s.wakeup_count
      /\ a.sleep_reason[t] = "DELAY" /\ a.wake_reason[t] = "NONE"
      /\ Sane(s) => Sane(a)
      /\ Scheduled(s) => Scheduled(a)
  BY <1>1, <1>2, <1>3, SetSleepReasonKeeps
<1>6. delay(j, past) = IF past THEN w ELSE b
  BY <1>4, <1>5 DEF set_timer, alarm, WakeFor
<1> HIDE DEF a
<1>7. OnlyAbout(j, a, t) /\ SamePriorities(j, a) /\ a.queue = j.queue
  BY <1>3, <1>5 DEF OnlyAbout, SamePriorities, SameQueues, SameWaitQueues
<1>8. a.state[t] = j.state[t] \cup {"SLEEPING"}
  <2>1. j.state \in [Thread -> SUBSET StateBit]
    BY DEF Kernel
  <2> QED
    BY <1>1, <1>3, <1>5, <2>1
<1>9. Bits(j, t) /\ j.state[t] = RUNNING => Bits(a, t)
  BY <1>3, <1>5, <1>7, <1>8 DEF Bits, RUNNING
<1>10. CASE past
  <2>1. /\ w \in Kernel /\ OnlyAbout(a, w, t) /\ SamePriorities(a, w)
        /\ Sane(a) => Sane(w)
        /\ Scheduled(a) => Scheduled(w)
        /\ w.state[t] = a.state[t] \ SLEEPSET
        /\ Bits(a, t) => Bits(w, t) /\ Reasons(w, t)
    BY <1>1, <1>2, <1>5, WakeForKeeps
  <2> HIDE DEF w
  <2>2. OnlyAbout(j, w, t) /\ SamePriorities(j, w)
    BY <1>7, <2>1 DEF OnlyAbout, SamePriorities
  <2>3. j.state[t] = RUNNING => w.state[t] \subseteq SLEEPSET
    BY <1>8, <2>1 DEF RUNNING, SLEEPSET
  <2>4. Blocked(j, w)
    BY <1>3, <1>5, <1>9, <2>1, <2>2, <2>3, BlockedAbout
  <2> QED
    BY <1>6, <1>10, <2>4
<1>11. CASE ~past
  <2>1. /\ b \in Kernel /\ SameQueues(a, b) /\ OnlyAbout(a, b, t)
        /\ b.state = a.state
        /\ b.suspend_count = a.suspend_count /\ b.wakeup_count = a.wakeup_count
        /\ b.sleep_reason = a.sleep_reason /\ b.wake_reason = a.wake_reason
    BY <1>1, <1>5 DEF Kernel, SameQueues, SamePriorities, SameRunQueues, SameWaitQueues, OnlyAbout
  <2> HIDE DEF b
  <2>2. OnlyAbout(j, b, t) /\ SamePriorities(j, b)
    BY <1>7, <2>1 DEF OnlyAbout, SamePriorities, SameQueues
  <2>3. (Sane(a) => Sane(b)) /\ (Scheduled(a) => Scheduled(b))
    BY <1>1, <1>5, <2>1, RecordKeeps
  <2>4. Bits(a, t) => Bits(b, t)
    BY <2>1 DEF Bits, SameQueues, SameWaitQueues
  <2>5. Reasons(b, t)
    BY <1>5, <1>8, <2>1 DEF Reasons
  <2>6. j.state[t] = RUNNING => b.state[t] \subseteq SLEEPSET
    BY <1>8, <2>1 DEF RUNNING, SLEEPSET
  <2>7. Blocked(j, b)
    BY <1>3, <1>5, <1>9, <2>1, <2>2, <2>3, <2>4, <2>5, <2>6, BlockedAbout
  <2> QED
    BY <1>6, <1>11, <2>7
<1> QED
  BY <1>10, <1>11

\* A thread that waits for a synchronization object sleeps on its queue.
LEMMA WaitBlocks ==
  ASSUME NEW j \in Kernel, NEW q \in WaitQueue
  PROVE  LET t == j.current
             r == enqueue(SleepFor(j, "WAIT"), q, t)
         IN  /\ Blocked(j, r) /\ SameTimer(j, r, t)
             /\ r.queue = [j.queue EXCEPT ![t] = q]
             /\ r.state[t] = j.state[t] \cup {"SLEEPING"}
<1> DEFINE t == j.current
           s == SleepFor(j, "WAIT")
           r == enqueue(s, q, t)
<1>1. t \in Thread /\ j.queue \in [Thread -> WaitQueue \cup {NULL}]
  BY DEF Kernel
<1>2. "WAIT" \in Reason
  BY DEF Reason
<1>3. /\ s \in Kernel /\ OnlyAbout(j, s, t) /\ SamePriorities(j, s)
      /\ SameWaitQueues(j, s)
      /\ s.state[t] = j.state[t] \cup {"SLEEPING"}
      /\ s.sleep_reason[t] = "WAIT" /\ s.wake_reason[t] = "NONE"
      /\ SameCounts(j, s, t) /\ SameTimer(j, s, t)
      /\ Sane(j) /\ t # Idle => Sane(s)
      /\ Scheduled(j) => Scheduled(s)
  BY <1>2, SleepForKeeps
<1> HIDE DEF s
<1>4. /\ r \in Kernel
      /\ SameThreads(s, r) /\ SamePriorities(s, r)
      /\ SameRunQueues(s, r)
      /\ r.queue = [s.queue EXCEPT ![t] = q]
      /\ Waiting(s) /\ s.queue[t] = NULL => Waiting(r)
  BY <1>1, <1>3, EnqueueKeeps
<1> HIDE DEF r
<1>5. s.queue = j.queue /\ r.queue = [j.queue EXCEPT ![t] = q] /\ r.queue[t] = q
  BY <1>1, <1>3, <1>4 DEF SameWaitQueues
<1>6. OnlyAbout(j, r, t) /\ SamePriorities(j, r)
  BY <1>1, <1>3, <1>4, <1>5 DEF OnlyAbout, SamePriorities, SameThreads
<1>7. Sane(s) => Sane(r)
  BY <1>4 DEF Sane, MapAgrees, IdleQueued, SameRunQueues
<1>8. Scheduled(s) /\ s.queue[t] = NULL => Scheduled(r)
  <2>1. Runnable(r) = Runnable(s)
    BY <1>4 DEF Runnable, SameThreads
  <2> QED
    BY <1>4, <2>1
    DEF Scheduled, Queues, Queued, Asked, SameRunQueues, SamePriorities, SameThreads
<1>9. Bits(j, t) /\ j.state[t] = RUNNING
        => /\ s.queue[t] = NULL
           /\ Bits(r, t) /\ Reasons(r, t) /\ r.state[t] \subseteq SLEEPSET
  <2>1. /\ r.state[t] = j.state[t] \cup {"SLEEPING"}
        /\ r.sleep_reason[t] = "WAIT" /\ r.wake_reason[t] = "NONE"
        /\ r.suspend_count[t] = j.suspend_count[t]
    BY <1>3, <1>4 DEF SameThreads, SameCounts
  <2> QED
    BY <1>5, <2>1 DEF Bits, Reasons, RUNNING, SLEEPSET
<1>10. Blocked(j, r)
  BY <1>3, <1>4, <1>6, <1>7, <1>8, <1>9, BlockedAbout
<1>11. SameTimer(j, r, t) /\ r.state[t] = j.state[t] \cup {"SLEEPING"}
  BY <1>3, <1>4 DEF SameTimer, SameThreads
<1> QED
  BY <1>5, <1>10, <1>11 DEF r, s

\* set_priority takes a thread off the queue it is on, ...
Waits(j, t) == j.queue[t] # NULL /\ "SLEEPING" \in j.state[t]

OffQueue(j, t) ==
  IF j.state[t] = RUNNING THEN rem_thread(j, t)
  ELSE IF Waits(j, t) THEN remove(j, t)
  ELSE j

\* set_priority takes the thread off the queue it is on and changes nothing else.
LEMMA OffQueueKeeps ==
  ASSUME NEW j \in Kernel, NEW t \in Thread
  PROVE  LET r == OffQueue(j, t)
         IN  /\ r \in Kernel
             /\ SameThreads(j, r) /\ SamePriorities(j, r)
             /\ r.need_reschedule = j.need_reschedule
             /\ r.queue = IF j.state[t] # RUNNING /\ Waits(j, t)
                            THEN [j.queue EXCEPT ![t] = NULL] ELSE j.queue
             /\ Sane(j) /\ t # Idle => Sane(r)
             /\ Queued(j, Runnable(j)) => Queued(r, Runnable(j) \ {t})
             /\ Waiting(j) => Waiting(r)
<1>1. CASE j.state[t] = RUNNING
  <2> DEFINE r == rem_thread(j, t)
  <2>1. OffQueue(j, t) = r
    BY <1>1 DEF OffQueue
  <2>2. /\ r \in Kernel
        /\ SameThreads(j, r) /\ SamePriorities(j, r) /\ SameWaitQueues(j, r)
        /\ r.need_reschedule = j.need_reschedule
        /\ Sane(j) /\ t # Idle => Sane(r)
        /\ \A S : Queued(j, S) => Queued(r, S \ {t})
    BY RemThreadKeeps
  <2> HIDE DEF r
  <2>3. r.queue = j.queue /\ (Waiting(j) => Waiting(r))
    BY <2>2 DEF Waiting, SameWaitQueues
  <2> QED
    BY <1>1, <2>1, <2>2, <2>3
<1>2. CASE j.state[t] # RUNNING /\ Waits(j, t)
  <2> DEFINE r == remove(j, t)
  <2>1. OffQueue(j, t) = r
    BY <1>2 DEF OffQueue
  <2>2. /\ r \in Kernel
        /\ SameThreads(j, r) /\ SamePriorities(j, r)
        /\ SameRunQueues(j, r)
        /\ r.queue = [j.queue EXCEPT ![t] = NULL]
        /\ Waiting(j) => Waiting(r)
    BY RemoveKeeps
  <2> HIDE DEF r
  <2>3. Runnable(j) \ {t} = Runnable(j)
    BY <1>2 DEF Runnable
  <2>4. /\ Sane(j) => Sane(r)
        /\ Queued(j, Runnable(j)) => Queued(r, Runnable(j))
    BY <2>2 DEF Sane, MapAgrees, IdleQueued, Queued, SameRunQueues, SamePriorities
  <2> QED
    BY <1>2, <2>1, <2>2, <2>3, <2>4 DEF SameRunQueues
<1>3. CASE j.state[t] # RUNNING /\ ~Waits(j, t)
  <2>1. OffQueue(j, t) = j
    BY <1>3 DEF OffQueue
  <2>2. Runnable(j) \ {t} = Runnable(j)
    BY <1>3 DEF Runnable
  <2> QED
    BY <1>3, <2>1, <2>2 DEF SameThreads, SamePriorities
<1> QED
  BY <1>1, <1>2, <1>3

\* ... gives it the priority, ...
Better(p, q) == IF p > q THEN q ELSE p

NewPriority(j, t, new) ==
  IF t \notin j.priority_inherited THEN [j EXCEPT !.priority[t] = new]
  ELSE [j EXCEPT !.original_priority[t] = new,
                 !.priority[t] = Better(@, new)]

\* It changes the priorities of the one thread only.
LEMMA NewPriorityKeeps ==
  ASSUME NEW j \in Kernel, NEW t \in Thread, NEW new \in Pri
  PROVE  LET r == NewPriority(j, t, new)
             inherited == t \in j.priority_inherited
         IN  /\ r \in Kernel
             /\ SameThreads(j, r) /\ SameRunQueues(j, r) /\ SameWaitQueues(j, r)
             /\ r.priority_inherited = j.priority_inherited
             /\ r.mutex_count = j.mutex_count
             /\ r.priority = [j.priority EXCEPT ![t] =
                                IF inherited THEN Better(@, new) ELSE new]
             /\ r.original_priority = IF inherited
                                        THEN [j.original_priority EXCEPT ![t] = new]
                                        ELSE j.original_priority
<1> DEFINE b == Better(j.priority[t], new)
<1>1. b \in Pri
  BY DEF Better, Kernel
<1> HIDE DEF b
<1>2. CASE t \notin j.priority_inherited
  <2> DEFINE r == [j EXCEPT !.priority[t] = new]
  <2>1. r \in Kernel
    BY DEF Kernel
  <2>2. NewPriority(j, t, new) = r
    BY <1>2 DEF NewPriority
  <2> QED
    BY <1>2, <2>1, <2>2 DEF Kernel, SameThreads, SameRunQueues, SameWaitQueues
<1>3. CASE t \in j.priority_inherited
  <2> DEFINE r == [j EXCEPT !.original_priority[t] = new, !.priority[t] = b]
  <2>1. r \in Kernel
    BY <1>1 DEF Kernel
  <2>2. NewPriority(j, t, new) = r
    BY <1>3 DEF NewPriority, b
  <2>3. r.priority = [j.priority EXCEPT ![t] = Better(@, new)]
    BY DEF b, Kernel
  <2> QED
    BY <1>3, <2>1, <2>2, <2>3 DEF Kernel, SameThreads, SameRunQueues, SameWaitQueues
<1> QED
  BY <1>2, <1>3

\* ... and puts it back on the queue it was on, by the new priority.
OnQueue(j, x, t) ==
  IF j.state[t] = RUNNING THEN add_thread(x, t)
  ELSE IF Waits(j, t) THEN enqueue(x, j.queue[t], t)
  ELSE x

\* set_priority puts the thread back on the queue it came from.
LEMMA OnQueueKeeps ==
  ASSUME NEW j \in Kernel, NEW x \in Kernel, NEW t \in Thread, x.state = j.state,
         x.queue = IF j.state[t] # RUNNING /\ Waits(j, t)
                     THEN [j.queue EXCEPT ![t] = NULL] ELSE j.queue
  PROVE  LET r == OnQueue(j, x, t)
         IN  /\ r \in Kernel
             /\ SameThreads(x, r) /\ SamePriorities(x, r)
             /\ r.queue = IF j.state[t] = RUNNING
                            THEN [j.queue EXCEPT ![t] = NULL] ELSE j.queue
             /\ Sane(x) => Sane(r)
             /\ Queued(x, Runnable(j) \ {t}) => Queued(r, Runnable(j))
             /\ Waiting(x) => Waiting(r)
             /\ \A S : Asked(x, S \ {t}) => Asked(r, S \ {t})
<1>0. j.queue \in [Thread -> WaitQueue \cup {NULL}]
  BY DEF Kernel
<1>1. CASE j.state[t] = RUNNING
  <2> DEFINE r == add_thread(x, t)
  <2>1. OnQueue(j, x, t) = r
    BY <1>1 DEF OnQueue
  <2>2. /\ r \in Kernel
        /\ SameThreads(x, r) /\ SamePriorities(x, r)
        /\ r.queue = [x.queue EXCEPT ![t] = NULL]
        /\ Sane(x) => Sane(r)
        /\ Waiting(x) => Waiting(r)
        /\ \A S : Queued(x, S) /\ t \notin S => Queued(r, S \cup {t})
        /\ \A S : Asked(x, S) => Asked(r, S \cup {t})
    BY AddThreadKeeps
  <2> HIDE DEF r
  <2>3. (Runnable(j) \ {t}) \cup {t} = Runnable(j) /\ t \notin Runnable(j) \ {t}
    BY <1>1 DEF Runnable
  <2>4. Queued(x, Runnable(j) \ {t}) => Queued(r, Runnable(j))
    BY <2>2, <2>3
  <2>5. \A S : Asked(x, S \ {t}) => Asked(r, S \ {t})
    BY <2>2 DEF Asked
  <2>6. r.queue = [j.queue EXCEPT ![t] = NULL]
    BY <1>1, <2>2
  <2> QED
    BY <1>1, <2>1, <2>2, <2>4, <2>5, <2>6
<1>2. CASE j.state[t] # RUNNING /\ Waits(j, t)
  <2> DEFINE q == j.queue[t]
             r == enqueue(x, q, t)
  <2>1. OnQueue(j, x, t) = r /\ q \in WaitQueue
    BY <1>0, <1>2 DEF OnQueue, Waits
  <2> HIDE DEF q
  <2>2. /\ r \in Kernel
        /\ SameThreads(x, r) /\ SamePriorities(x, r)
        /\ SameRunQueues(x, r)
        /\ r.queue = [x.queue EXCEPT ![t] = q]
        /\ Waiting(x) /\ x.queue[t] = NULL => Waiting(r)
    BY <2>1, EnqueueKeeps
  <2> HIDE DEF r
  <2>3. x.queue = [j.queue EXCEPT ![t] = NULL] /\ x.queue[t] = NULL
    BY <1>0, <1>2
  <2>4. r.queue = j.queue
    BY <1>0, <2>2, <2>3 DEF q
  <2>5. Runnable(j) \ {t} = Runnable(j)
    BY <1>2 DEF Runnable
  <2>6. /\ Sane(x) => Sane(r)
        /\ Queued(x, Runnable(j)) => Queued(r, Runnable(j))
        /\ \A S : Asked(x, S) => Asked(r, S)
    BY <2>2
    DEF Sane, MapAgrees, IdleQueued, Queued, Asked, SameRunQueues, SamePriorities, SameThreads
  <2> QED
    BY <1>2, <2>1, <2>2, <2>3, <2>4, <2>5, <2>6
<1>3. CASE j.state[t] # RUNNING /\ ~Waits(j, t)
  <2>1. OnQueue(j, x, t) = x
    BY <1>3 DEF OnQueue
  <2>2. Runnable(j) \ {t} = Runnable(j)
    BY <1>3 DEF Runnable
  <2> QED
    BY <1>3, <2>1, <2>2 DEF SameThreads, SamePriorities
<1> QED
  BY <1>1, <1>2, <1>3

\* set_priority changes the priority of one thread and moves it to the queue
\* of its new priority.
LEMMA SetPriorityKeeps ==
  ASSUME NEW j \in Kernel, NEW t \in Thread, NEW new \in Pri
  PROVE  LET r == set_priority(j, t, new)
             inherited == t \in j.priority_inherited
         IN  /\ Called(j, r, t)
             /\ SameThreads(j, r)
             /\ r.queue = IF j.state[t] = RUNNING
                            THEN [j.queue EXCEPT ![t] = NULL] ELSE j.queue
             /\ Scheduled(j) => Scheduled(r)
             /\ r.priority_inherited = j.priority_inherited
             /\ r.mutex_count = j.mutex_count
             /\ r.priority = [j.priority EXCEPT ![t] =
                                IF inherited THEN Better(@, new) ELSE new]
             /\ r.original_priority = IF inherited
                                        THEN [j.original_priority EXCEPT ![t] = new]
                                        ELSE j.original_priority
<1> DEFINE off == OffQueue(j, t)
           x == NewPriority(off, t, new)
           on == OnQueue(j, x, t)
           a == [on EXCEPT !.need_reschedule = TRUE]
           b == set_need_reschedule(on, t)
           r == set_priority(j, t, new)
<1>1. r = IF t = j.current THEN a ELSE b
  <2>1. NewPriority(off, t, new) =
          IF t \notin j.priority_inherited THEN [off EXCEPT !.priority[t] = new]
          ELSE [off EXCEPT !.original_priority[t] = new,
                           !.priority[t] = IF @ > new THEN new ELSE @]
    <3>1. off.priority_inherited = j.priority_inherited
      BY OffQueueKeeps DEF SamePriorities
    <3> QED
      BY <3>1 DEF NewPriority, Better
  <2> DEFINE y == IF t \notin j.priority_inherited THEN [off EXCEPT !.priority[t] = new]
                  ELSE [off EXCEPT !.original_priority[t] = new,
                                   !.priority[t] = IF @ > new THEN new ELSE @]
             ony == OnQueue(j, y, t)
  <2>2. r = IF t = j.current THEN [ony EXCEPT !.need_reschedule = TRUE]
                             ELSE set_need_reschedule(ony, t)
    BY DEF set_priority, OffQueue, OnQueue, Waits
  <2>3. ony = on
    BY <2>1
  <2> QED
    BY <2>2, <2>3
<1>2. /\ off \in Kernel
      /\ SameThreads(j, off) /\ SamePriorities(j, off)
      /\ off.need_reschedule = j.need_reschedule
      /\ off.queue = IF j.state[t] # RUNNING /\ Waits(j, t)
                       THEN [j.queue EXCEPT ![t] = NULL] ELSE j.queue
      /\ Sane(j) /\ t # Idle => Sane(off)
      /\ Queued(j, Runnable(j)) => Queued(off, Runnable(j) \ {t})
      /\ Waiting(j) => Waiting(off)
  BY OffQueueKeeps
<1> HIDE DEF off, r
<1>3. /\ x \in Kernel
      /\ SameThreads(off, x) /\ SameRunQueues(off, x) /\ SameWaitQueues(off, x)
      /\ x.priority_inherited = j.priority_inherited
      /\ x.mutex_count = j.mutex_count
      /\ x.priority = [j.priority EXCEPT ![t] =
                         IF t \in j.priority_inherited THEN Better(@, new) ELSE new]
      /\ x.original_priority = IF t \in j.priority_inherited
                                 THEN [j.original_priority EXCEPT ![t] = new]
                                 ELSE j.original_priority
  BY <1>2, NewPriorityKeeps DEF SamePriorities
<1> HIDE DEF x
<1>4. /\ Sane(off) => Sane(x)
      /\ Queued(off, Runnable(j) \ {t}) => Queued(x, Runnable(j) \ {t})
      /\ Waiting(off) => Waiting(x)
  <2>1. Sane(off) => Sane(x)
    BY <1>3 DEF Sane, MapAgrees, IdleQueued, SameRunQueues
  <2>2. \A u \in Thread \ {t} : x.priority[u] = off.priority[u]
    BY <1>2, <1>3 DEF Kernel, SamePriorities
  <2>3. Queued(off, Runnable(j) \ {t}) => Queued(x, Runnable(j) \ {t})
    BY <1>3, <2>2 DEF Queued, SameRunQueues
  <2>4. Waiting(off) => Waiting(x)
    BY <1>3 DEF Waiting, SameWaitQueues
  <2> QED
    BY <2>1, <2>3, <2>4
<1>5. t # j.current /\ Asked(j, Runnable(j)) => Asked(x, Runnable(j) \ {t})
  <2>1. \A u \in Thread \ {t} : x.priority[u] = j.priority[u]
    BY <1>3 DEF Kernel
  <2>2. /\ x.current = j.current /\ j.current \in Thread
        /\ x.need_reschedule = j.need_reschedule
    BY <1>2, <1>3 DEF SameThreads, SameRunQueues, Kernel
  <2> QED
    BY <2>1, <2>2 DEF Asked, Runnable
<1>6. /\ on \in Kernel
      /\ SameThreads(x, on) /\ SamePriorities(x, on)
      /\ on.queue = IF j.state[t] = RUNNING
                      THEN [j.queue EXCEPT ![t] = NULL] ELSE j.queue
      /\ Sane(x) => Sane(on)
      /\ Queued(x, Runnable(j) \ {t}) => Queued(on, Runnable(j))
      /\ Waiting(x) => Waiting(on)
      /\ \A S : Asked(x, S \ {t}) => Asked(on, S \ {t})
  <2>1. x.state = j.state
    BY <1>2, <1>3 DEF SameThreads
  <2>2. x.queue = off.queue
    BY <1>3 DEF SameWaitQueues
  <2> QED
    BY <1>2, <1>3, <2>1, <2>2, OnQueueKeeps
<1> HIDE DEF on
<1>7. /\ r \in Kernel
      /\ SameThreads(on, r) /\ SamePriorities(on, r) /\ SameWaitQueues(on, r)
      /\ r.run_queue = on.run_queue /\ r.queue_map = on.queue_map
      /\ t = j.current => r.need_reschedule
      /\ t # j.current => \A S : Asked(on, S) => Asked(r, S \cup {t})
  <2>1. CASE t = j.current
    <3>1. a \in Kernel
      BY <1>6 DEF Kernel
    <3> QED
      BY <1>1, <2>1, <3>1 DEF SameThreads, SamePriorities, SameWaitQueues, Kernel
  <2>2. CASE t # j.current
    BY <1>1, <1>6, <2>2, SetNeedKeeps
  <2> QED
    BY <2>1, <2>2
<1>8. SameThreads(j, r)
  BY <1>2, <1>3, <1>6, <1>7 DEF SameThreads
<1>9. r.queue = on.queue
  BY <1>7 DEF SameWaitQueues
<1>10. Sane(j) /\ t # Idle => Sane(r)
  BY <1>2, <1>4, <1>6, <1>7 DEF Sane, MapAgrees, IdleQueued
<1>11. Scheduled(j) => Scheduled(r)
  <2>1. Runnable(r) = Runnable(j)
    BY <1>8 DEF Runnable, SameThreads
  <2>2. Queued(j, Runnable(j)) => Queued(r, Runnable(j))
    BY <1>2, <1>4, <1>6, <1>7 DEF Queued, SamePriorities
  <2>3. Waiting(j) => Waiting(r)
    BY <1>2, <1>4, <1>6, <1>7 DEF Waiting, SameWaitQueues
  <2>4. Asked(j, Runnable(j)) => Asked(r, Runnable(j))
    <3>1. CASE t = j.current
      BY <1>7, <3>1 DEF Asked
    <3>2. CASE t # j.current
      <4>1. Asked(j, Runnable(j)) => Asked(r, (Runnable(j) \ {t}) \cup {t})
        BY <1>5, <1>6, <1>7, <3>2
      <4> QED
        BY <4>1 DEF Asked
    <3> QED
      BY <3>1, <3>2
  <2> QED
    BY <2>1, <2>2, <2>3, <2>4 DEF Scheduled, Queues
<1>12. r.priority_inherited = j.priority_inherited /\ r.mutex_count = j.mutex_count
       /\ r.priority = x.priority /\ r.original_priority = x.original_priority
  BY <1>3, <1>6, <1>7 DEF SamePriorities
<1>13. Called(j, r, t)
  <2>1. OnlyAbout(j, r, t)
    <3>1. \A u \in Thread \ {t} : r.queue[u] = j.queue[u]
      BY <1>6, <1>9 DEF Kernel
    <3> QED
      BY <1>8, <3>1 DEF OnlyAbout, SameThreads
  <2>2. r.queue[t] = j.queue[t] \/ r.queue[t] = NULL
    BY <1>6, <1>9 DEF Kernel
  <2>3. Bits(j, t) /\ Reasons(j, t) => Bits(r, t) /\ Reasons(r, t)
    BY <1>8, <2>2 DEF Bits, Reasons, SameThreads
  <2>4. Prodded(j, r, t)
    BY <1>8 DEF Prodded, SameThreads
  <2> QED
    BY <1>7, <1>10, <1>11, <2>1, <2>3, <2>4, CalledAbout
<1> QED
  BY <1>3, <1>6, <1>8, <1>9, <1>11, <1>12, <1>13 DEF r

\* A method that only reorders queues is a call about nobody.
LEMMA ReorderedCalled ==
  ASSUME NEW j \in Kernel, NEW r, Reordered(j, r), NEW t \in Thread
  PROVE  /\ Called(j, r, t)
         /\ Sane(j) => Sane(r)
         /\ r.state = j.state
<1>1. Runnable(r) = Runnable(j)
  BY DEF Reordered, Runnable, SameThreads
<1>2. Scheduled(j) => Scheduled(r)
  BY <1>1 DEF Scheduled, Queues, Reordered
<1>3. OnlyAbout(j, r, t)
  BY DEF Reordered, SameThreads, OnlyAbout
<1>4. Bits(j, t) /\ Reasons(j, t) => Bits(r, t) /\ Reasons(r, t) /\ Prodded(j, r, t)
  BY DEF Reordered, SameThreads, Bits, Reasons, Prodded
<1> QED
  BY <1>2, <1>3, <1>4, CalledAbout DEF Reordered, SameThreads

\* The constructor, called on an exited thread that is not the current one,
\* finds it on no queue and leaves it suspended.
LEMMA ReinitializeKeeps ==
  ASSUME NEW j \in Kernel, NEW t \in Thread
  PROVE  LET r == reinitialize(j, t)
         IN  /\ r \in Kernel /\ OnlyAbout(j, r, t)
             /\ Sane(j) => Sane(r)
             /\ r.state[t] = {"SUSPENDED"} /\ r.timer = j.timer \ {t}
             /\ r.wake_reason[t] = "NONE"
             /\ Consistent(j) /\ "EXITED" \in j.state[t] /\ t # j.current => Consistent(r)
<1> DEFINE p == IF t \in j.priority_inherited THEN j.original_priority[t] ELSE j.priority[t]
           st == [j.state EXCEPT ![t] = {"SUSPENDED"}]
           sc == [j.suspend_count EXCEPT ![t] = 1]
           wc == [j.wakeup_count EXCEPT ![t] = 0]
           sr == [j.sleep_reason EXCEPT ![t] = "NONE"]
           wr == [j.wake_reason EXCEPT ![t] = "NONE"]
           qu == [j.queue EXCEPT ![t] = NULL]
           pr == [j.priority EXCEPT ![t] = p]
           mc == [j.mutex_count EXCEPT ![t] = 0]
           r == [j EXCEPT !.timer = @ \ {t}, !.state = st, !.suspend_count = sc,
                          !.wakeup_count = wc, !.sleep_reason = sr, !.wake_reason = wr,
                          !.queue = qu, !.priority = pr,
                          !.priority_inherited = @ \ {t}, !.mutex_count = mc]
<1>1. p \in Pri
  BY DEF Kernel
<1>2. reinitialize(j, t) = r
  BY DEF reinitialize
<1> HIDE DEF p
<1>3. /\ st \in [Thread -> SUBSET StateBit]
      /\ sc \in [Thread -> Nat] /\ wc \in [Thread -> Nat] /\ mc \in [Thread -> Nat]
      /\ sr \in [Thread -> Reason] /\ wr \in [Thread -> Reason]
      /\ qu \in [Thread -> WaitQueue \cup {NULL}] /\ pr \in [Thread -> Pri]
  BY <1>1 DEF Kernel, StateBit, Reason
<1> HIDE DEF st, sc, wc, sr, wr, qu, pr, mc
<1>4. r \in Kernel
  BY <1>3 DEF Kernel
<1>5. /\ r.state = [j.state EXCEPT ![t] = {"SUSPENDED"}]
      /\ r.suspend_count = [j.suspend_count EXCEPT ![t] = 1]
      /\ r.wakeup_count = [j.wakeup_count EXCEPT ![t] = 0]
      /\ r.sleep_reason = [j.sleep_reason EXCEPT ![t] = "NONE"]
      /\ r.wake_reason = [j.wake_reason EXCEPT ![t] = "NONE"]
      /\ r.queue = [j.queue EXCEPT ![t] = NULL]
      /\ r.priority = [j.priority EXCEPT ![t] = p]
      /\ r.timer = j.timer \ {t}
      /\ r.waitq = j.waitq /\ r.current = j.current /\ SameRunQueues(j, r)
  BY DEF Kernel, SameRunQueues, st, sc, wc, sr, wr, qu, pr
<1> HIDE DEF r
<1>6. /\ j.state \in [Thread -> SUBSET StateBit]
      /\ j.suspend_count \in [Thread -> Nat] /\ j.wakeup_count \in [Thread -> Nat]
      /\ j.sleep_reason \in [Thread -> Reason] /\ j.wake_reason \in [Thread -> Reason]
      /\ j.queue \in [Thread -> WaitQueue \cup {NULL}]
      /\ j.priority \in [Thread -> Pri] /\ j.current \in Thread
  BY DEF Kernel
<1>7. OnlyAbout(j, r, t)
  BY <1>5, <1>6 DEF OnlyAbout
<1>8. Sane(j) => Sane(r)
  BY <1>4, <1>5 DEF Sane, MapAgrees, IdleQueued, SameRunQueues
<1>9. r.state[t] = {"SUSPENDED"} /\ r.wake_reason[t] = "NONE"
  BY <1>5, <1>6
<1>10. ASSUME Consistent(j), "EXITED" \in j.state[t], t # j.current PROVE Consistent(r)
  <2>1. t \notin Runnable(j) /\ Runnable(r) = Runnable(j)
    BY <1>5, <1>6, <1>9, <1>10 DEF Runnable, RUNNING
  <2>2. j.queue[t] = NULL /\ r.queue = j.queue
    BY <1>5, <1>6, <1>10 DEF Consistent, Bits
  <2>3. \A u \in Thread \ {t} : r.priority[u] = j.priority[u]
    BY <1>5, <1>6
  <2>4. Queued(r, Runnable(r))
    <3>1. Queued(j, Runnable(j))
      BY <1>10 DEF Consistent, Scheduled, Queues
    <3> QED
      BY <1>5, <2>1, <2>3, <3>1 DEF Queued, SameRunQueues
  <2>5. Asked(r, Runnable(r))
    <3>1. Asked(j, Runnable(j))
      BY <1>10 DEF Consistent, Scheduled, Queues
    <3> QED
      BY <1>5, <1>6, <1>10, <2>1, <2>3, <3>1 DEF Asked, SameRunQueues, Runnable
  <2>6. Waiting(r)
    BY <1>5, <1>10, <2>2 DEF Consistent, Scheduled, Queues, Waiting
  <2>7. Bits(r, t) /\ Reasons(r, t)
    BY <1>5, <1>6, <1>9 DEF Bits, Reasons
  <2>8. \A u \in Thread \ {t} : Bits(r, u) /\ Reasons(r, u)
    BY <1>7, <1>10 DEF OnlyAbout, Bits, Reasons, Consistent
  <2> QED
    BY <2>4, <2>5, <2>6, <2>7, <2>8 DEF Consistent, Scheduled, Queues
<1> QED
  BY <1>2, <1>4, <1>5, <1>7, <1>8, <1>9, <1>10

\* What a method called while no thread goes to sleep leaves of all threads.
Moved(j, r) ==
  /\ r \in Kernel /\ r.current = j.current
  /\ Sane(j) => Sane(r)
  /\ Consistent(j) /\ j.state[Idle] = RUNNING =>
       Consistent(r) /\ r.state[Idle] = RUNNING /\ \A u \in Thread : Prodded(j, r, u)

\* Being called on is such a method.
LEMMA CalledMoved ==
  ASSUME NEW j \in Kernel, NEW t \in Thread, NEW r, Called(j, r, t),
         t # Idle \/ ((Sane(j) => Sane(r)) /\ r.state[t] \subseteq j.state[t])
  PROVE  Moved(j, r)
<1>1. \A u \in Thread \ {t} : Prodded(j, r, u)
  BY DEF Called, OnlyAbout, Prodded
<1>2. j.state[Idle] = RUNNING => r.state[Idle] = RUNNING
  <2>1. CASE t = Idle
    BY <2>1 DEF RUNNING
  <2>2. CASE t # Idle
    BY <2>2, ThreadAssumption DEF Called, OnlyAbout
  <2> QED
    BY <2>1, <2>2
<1>3. r.current = j.current
  BY DEF Called, OnlyAbout
<1> QED
  BY <1>1, <1>2, <1>3 DEF Called, Moved

\* The same, with the timeslice counted at the end, as by the clock's DSR.
LEMMA MovedReordered ==
  ASSUME NEW j \in Kernel, NEW a, Moved(j, a), NEW r, Reordered(a, r)
  PROVE  Moved(j, r)
<1>1. a \in Kernel
  BY DEF Moved
<1>2. /\ Called(a, r, Idle) /\ (Sane(a) => Sane(r)) /\ r.state = a.state
  BY <1>1, ThreadAssumption, ReorderedCalled
<1>3. SameThreads(a, r)
  BY DEF Reordered
<1>4. \A u \in Thread : Prodded(j, a, u) => Prodded(j, r, u)
  BY <1>3 DEF Prodded, SameThreads
<1>5. Consistent(a) => Consistent(r)
  BY <1>2 DEF Called
<1> QED
  BY <1>2, <1>3, <1>4, <1>5 DEF Moved, Called, SameThreads

\* A call that leaves the record alone.
LEMMA MovedSelf ==
  ASSUME NEW j \in Kernel
  PROVE  Moved(j, j)
<1>1. \A u \in Thread : Prodded(j, j, u)
  BY DEF Prodded
<1> QED
  BY <1>1 DEF Moved
-----------------------------------------------------------------------------
(***************************************************************************)
(* The context switch.                                                     *)
(***************************************************************************)

\* The effect of a context switch on the objects: the same threads on the same
\* queues, and the best of them is the current one.
Switched(j, r) ==
  /\ r \in Kernel /\ r.current = schedule(j) /\ ~r.need_reschedule
  /\ r.state = j.state
  /\ r.suspend_count = j.suspend_count /\ r.wakeup_count = j.wakeup_count
  /\ r.sleep_reason = j.sleep_reason /\ r.wake_reason = j.wake_reason
  /\ r.timer = j.timer
  /\ r.run_queue = j.run_queue /\ r.queue_map = j.queue_map
  /\ SamePriorities(j, r) /\ SameWaitQueues(j, r)

\* A switch keeps the kernel's objects well formed.
LEMMA SwitchedSane ==
  ASSUME NEW j, Sane(j), NEW r, Switched(j, r)
  PROVE  Sane(r)
BY DEF Sane, MapAgrees, IdleQueued, Switched

\* A switch leaves the records of the threads, and runs the best of those that
\* can run: the idle thread is always one.
LEMMA SwitchedThreads ==
  ASSUME NEW j, Sane(j), Consistent(j), NEW r, Switched(j, r)
  PROVE  Consistent(r) /\ r.state[r.current] = RUNNING
<1> DEFINE next == schedule(j)
<1>1. j \in Kernel /\ Queued(j, Runnable(j)) /\ Waiting(j)
  BY DEF Sane, Consistent, Scheduled, Queues
<1>2. Runnable(r) = Runnable(j)
  BY DEF Runnable, Switched
<1>3. next \in Runnable(j) /\ \A u \in Runnable(j) : j.priority[next] <= j.priority[u]
  <2>1. /\ next \in Runnable(j)
        /\ \A u \in Runnable(j) \cap Thread : j.priority[next] <= j.priority[u]
    BY <1>1, ScheduleBest
  <2>2. Runnable(j) \cap Thread = Runnable(j)
    BY DEF Runnable
  <2> QED
    BY <2>1, <2>2
<1>4. r.current = next
  BY DEF Switched
<1> HIDE DEF next
<1>5. Queued(r, Runnable(r)) /\ Waiting(r) /\ Asked(r, Runnable(r))
  BY <1>1, <1>2, <1>3, <1>4
  DEF Switched, Queued, Waiting, Asked, SamePriorities, SameWaitQueues
<1>6. \A u \in Thread : Bits(r, u) /\ Reasons(r, u)
  BY DEF Consistent, Bits, Reasons, Switched, SameWaitQueues
<1> QED
  BY <1>3, <1>4, <1>5, <1>6 DEF Consistent, Scheduled, Queues, Runnable, Switched

\* SwitchContext and Inherit's Switch switch in one of two ways: the current
\* thread is the best one, or its timeslice is saved and that of the best one
\* is loaded.
LEMMA SwitchedTo ==
  ASSUME NEW j, Sane(j)
  PROVE  LET next == schedule(j)
             saved == [j EXCEPT !.slice[j.current] = j.timeslice_count]
         IN  /\ next = j.current => Switched(j, [j EXCEPT !.need_reschedule = FALSE])
             /\ Switched(j, [saved EXCEPT !.current = next, !.need_reschedule = FALSE,
                                          !.timeslice_count = saved.slice[next]])
<1> DEFINE next == schedule(j)
           c == j.timeslice_count
           saved == [j EXCEPT !.slice[j.current] = c]
           n == saved.slice[next]
           r == [saved EXCEPT !.current = next, !.need_reschedule = FALSE,
                              !.timeslice_count = n]
<1>1. j \in Kernel /\ next \in Thread /\ c \in Count /\ j.current \in Thread
  BY ScheduleBest DEF Sane, Kernel
<1>2. saved \in Kernel
  BY <1>1 DEF Kernel
<1>3. n \in Count
  BY <1>1, <1>2 DEF Kernel
<1>4. /\ saved.state = j.state
      /\ saved.suspend_count = j.suspend_count /\ saved.wakeup_count = j.wakeup_count
      /\ saved.sleep_reason = j.sleep_reason /\ saved.wake_reason = j.wake_reason
      /\ saved.timer = j.timer
      /\ saved.run_queue = j.run_queue /\ saved.queue_map = j.queue_map
      /\ SamePriorities(j, saved) /\ SameWaitQueues(j, saved)
  BY <1>1 DEF Kernel, SamePriorities, SameWaitQueues
<1>5. ASSUME next = j.current
      PROVE  Switched(j, [j EXCEPT !.need_reschedule = FALSE])
  <2> DEFINE b == [j EXCEPT !.need_reschedule = FALSE]
  <2>1. b \in Kernel
    BY <1>1 DEF Kernel
  <2>2. Switched(j, b)
    BY <1>1, <1>5, <2>1 DEF Kernel, Switched, SamePriorities, SameWaitQueues
  <2> QED
    BY <2>2
<1> HIDE DEF n, next, c, saved
<1>6. r \in Kernel
  BY <1>1, <1>2, <1>3 DEF Kernel
<1>7. /\ r.current = next /\ ~r.need_reschedule
      /\ r.state = saved.state
      /\ r.suspend_count = saved.suspend_count /\ r.wakeup_count = saved.wakeup_count
      /\ r.sleep_reason = saved.sleep_reason /\ r.wake_reason = saved.wake_reason
      /\ r.timer = saved.timer
      /\ r.run_queue = saved.run_queue /\ r.queue_map = saved.queue_map
      /\ SamePriorities(saved, r) /\ SameWaitQueues(saved, r)
  BY <1>1, <1>2, <1>3 DEF Kernel, SamePriorities, SameWaitQueues
<1> HIDE DEF r
<1>8. Switched(j, r)
  BY <1>4, <1>6, <1>7 DEF Switched, SamePriorities, SameWaitQueues, next
<1> QED
  BY <1>5, <1>8 DEF r, n, next, saved, c
=============================================================================
