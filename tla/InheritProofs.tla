---------------------------- MODULE InheritProofs ----------------------------
(***************************************************************************)
(* Proofs about the priority protocols: no priority a thread was given is  *)
(* lost, and an owner runs at least at the priority of the threads that    *)
(* wait for it.                                                            *)
(***************************************************************************)
EXTENDS Inherit, ThreadProofs, FiniteSetTheorems

USE DEF current
-----------------------------------------------------------------------------
(***************************************************************************)
(* The methods of Cyg_SchedThread.                                         *)
(***************************************************************************)

\* Putting the flag down, or counting a mutex, changes no queue.
LEMMA FlagDown ==
  ASSUME NEW j \in Kernel, NEW t \in Thread
  PROVE  LET r == [j EXCEPT !.priority_inherited = @ \ {t}]
         IN  /\ r \in Kernel /\ SameThreads(j, r) /\ SameRunQueues(j, r)
             /\ SameWaitQueues(j, r)
             /\ r.priority = j.priority /\ r.original_priority = j.original_priority
             /\ r.mutex_count = j.mutex_count
             /\ r.priority_inherited = j.priority_inherited \ {t}
  BY DEF Kernel, SameThreads, SameRunQueues, SameWaitQueues

\* Records that differ in what no queue depends on.
LEMMA SameQueuesAndThreads ==
  ASSUME NEW j \in Kernel, NEW r \in Kernel,
         SameThreads(j, r), SameRunQueues(j, r), SameWaitQueues(j, r),
         r.priority = j.priority
  PROVE  /\ Sane(j) => Sane(r)
         /\ Scheduled(j) => Scheduled(r)
         /\ Consistent(j) => Consistent(r)
<1>1. Runnable(r) = Runnable(j)
  BY DEF Runnable, SameThreads
<1>2. Sane(j) => Sane(r)
  BY DEF Sane, MapAgrees, IdleQueued, SameRunQueues
<1>3. Scheduled(j) => Scheduled(r)
  BY <1>1 DEF Scheduled, Queues, Queued, Asked, Waiting, SameThreads, SameRunQueues,
              SameWaitQueues
<1>4. \A u \in Thread : (Bits(j, u) => Bits(r, u)) /\ (Reasons(j, u) => Reasons(r, u))
  BY DEF Bits, Reasons, SameThreads, SameWaitQueues
<1> QED
  BY <1>2, <1>3, <1>4 DEF Consistent

\* set_priority while the flag is down (sched.cxx:610) gives the thread exactly
\* the new priority and leaves the saved one alone.
LEMMA SetOwnPriorityKeeps ==
  ASSUME NEW j \in Kernel, NEW t \in Thread, NEW new \in Pri, t \notin j.priority_inherited,
         j.state[t] = RUNNING => j.queue[t] = NULL
  PROVE  LET r == set_priority(j, t, new)
         IN  /\ r \in Kernel /\ SameThreads(j, r) /\ r.queue = j.queue
             /\ Sane(j) /\ t # Idle => Sane(r)
             /\ Scheduled(j) => Scheduled(r)
             /\ r.priority_inherited = j.priority_inherited
             /\ r.mutex_count = j.mutex_count
             /\ r.priority = [j.priority EXCEPT ![t] = new]
             /\ r.original_priority = j.original_priority
<1> DEFINE r == set_priority(j, t, new)
           inherited == t \in j.priority_inherited
<1>1. /\ Called(j, r, t)
      /\ SameThreads(j, r)
      /\ r.queue = IF j.state[t] = RUNNING THEN [j.queue EXCEPT ![t] = NULL] ELSE j.queue
      /\ Scheduled(j) => Scheduled(r)
      /\ r.priority_inherited = j.priority_inherited
      /\ r.mutex_count = j.mutex_count
      /\ r.priority = [j.priority EXCEPT ![t] = IF inherited THEN Better(@, new) ELSE new]
      /\ r.original_priority = IF inherited THEN [j.original_priority EXCEPT ![t] = new]
                               ELSE j.original_priority
  BY SetPriorityKeeps
<1>2. j.queue[t] = NULL => [j.queue EXCEPT ![t] = NULL] = j.queue
  BY DEF Kernel
<1> HIDE DEF r
<1>3. r \in Kernel /\ (Sane(j) /\ t # Idle => Sane(r))
  BY <1>1 DEF Called
<1>4. ~inherited
  OBVIOUS
<1> HIDE DEF inherited
<1>5. r.queue = j.queue
  BY <1>1, <1>2
<1>6. r.priority = [j.priority EXCEPT ![t] = new] /\ r.original_priority = j.original_priority
  BY <1>1, <1>4
<1> QED
  BY <1>1, <1>3, <1>5, <1>6 DEF r

\* set_inherited_priority only improves a priority, and saves the one to come
\* back to the first time (sched.cxx:599).
LEMMA SetInheritedKeeps ==
  ASSUME NEW j \in Kernel, NEW t \in Thread, NEW pri \in Pri,
         j.state[t] = RUNNING => j.queue[t] = NULL
  PROVE  LET r == set_inherited_priority(j, t, pri)
         IN  /\ r \in Kernel /\ SameThreads(j, r) /\ r.queue = j.queue
             /\ Sane(j) /\ t # Idle => Sane(r)
             /\ Scheduled(j) => Scheduled(r)
             /\ r.mutex_count = j.mutex_count
             /\ r.priority = [j.priority EXCEPT ![t] = Better(@, pri)]
             /\ r.priority_inherited = IF pri >= j.priority[t] THEN j.priority_inherited
                                       ELSE j.priority_inherited \cup {t}
             /\ r.original_priority =
                  IF pri >= j.priority[t] \/ t \in j.priority_inherited
                    THEN j.original_priority
                    ELSE [j.original_priority EXCEPT ![t] = j.priority[t]]
<1> DEFINE d == [j EXCEPT !.priority_inherited = @ \ {t}]
           s == set_priority(d, t, pri)
           o == IF t \in j.priority_inherited THEN s.original_priority[t] ELSE j.priority[t]
           i == s.priority_inherited \cup {t}
           r == [s EXCEPT !.original_priority[t] = o, !.priority_inherited = i]
<1>1. /\ j.priority \in [Thread -> Pri] /\ j.original_priority \in [Thread -> Pri]
      /\ j.priority[t] \in Nat /\ pri \in Nat
  BY DEF Kernel, Pri
<1>2. CASE pri >= j.priority[t]
  <2>1. set_inherited_priority(j, t, pri) = j
    BY <1>2 DEF set_inherited_priority
  <2>2. Better(j.priority[t], pri) = j.priority[t]
    BY <1>1, <1>2 DEF Better
  <2>3. j.priority = [j.priority EXCEPT ![t] = Better(@, pri)]
    BY <1>1, <2>2
  <2>4. SameThreads(j, j)
    BY DEF SameThreads
  <2> HIDE DEF r, i, o, s, d
  <2> QED
    BY <1>2, <2>1, <2>3, <2>4
<1>3. CASE ~(pri >= j.priority[t])
  <2>1. /\ d \in Kernel /\ SameThreads(j, d) /\ SameRunQueues(j, d) /\ SameWaitQueues(j, d)
        /\ d.priority = j.priority /\ d.original_priority = j.original_priority
        /\ d.mutex_count = j.mutex_count
        /\ d.priority_inherited = j.priority_inherited \ {t}
    BY FlagDown
  <2>2. (Sane(j) => Sane(d)) /\ (Scheduled(j) => Scheduled(d))
    BY <2>1, SameQueuesAndThreads
  <2> HIDE DEF d
  <2>3. t \notin d.priority_inherited /\ (d.state[t] = RUNNING => d.queue[t] = NULL)
    BY <2>1 DEF SameThreads, SameWaitQueues
  <2>4. /\ s \in Kernel /\ SameThreads(d, s) /\ s.queue = d.queue
        /\ Sane(d) /\ t # Idle => Sane(s)
        /\ Scheduled(d) => Scheduled(s)
        /\ s.priority_inherited = d.priority_inherited
        /\ s.mutex_count = d.mutex_count
        /\ s.priority = [d.priority EXCEPT ![t] = pri]
        /\ s.original_priority = d.original_priority
    BY <2>1, <2>3, SetOwnPriorityKeeps
  <2> HIDE DEF s
  <2>5. o \in Pri /\ i \in SUBSET Thread
    BY <1>1, <2>1, <2>4 DEF Kernel
  <2>6. /\ o = IF t \in j.priority_inherited THEN j.original_priority[t] ELSE j.priority[t]
        /\ i = j.priority_inherited \cup {t}
    BY <2>1, <2>4
  <2>7. set_inherited_priority(j, t, pri) = r
    <3>1. set_inherited_priority(j, t, pri) =
            [s EXCEPT !.original_priority[t] = IF t \in j.priority_inherited THEN @
                                                                     ELSE j.priority[t],
                      !.priority_inherited = @ \cup {t}]
      BY <1>3 DEF set_inherited_priority, s, d
    <3> QED
      BY <2>4, <3>1 DEF Kernel
  <2> HIDE DEF o, i
  <2>8. /\ r \in Kernel /\ SameThreads(s, r) /\ SameRunQueues(s, r) /\ SameWaitQueues(s, r)
        /\ r.priority = s.priority /\ r.mutex_count = s.mutex_count
        /\ r.priority_inherited = i
        /\ r.original_priority = [s.original_priority EXCEPT ![t] = o]
    BY <2>4, <2>5 DEF Kernel, SameThreads, SameRunQueues, SameWaitQueues
  <2> HIDE DEF r
  <2>9. (Sane(s) => Sane(r)) /\ (Scheduled(s) => Scheduled(r))
    BY <2>4, <2>8, SameQueuesAndThreads
  <2>10. r.priority = [j.priority EXCEPT ![t] = Better(@, pri)]
    BY <1>1, <1>3, <2>1, <2>4, <2>8 DEF Better
  <2>11. r.original_priority =
           IF t \in j.priority_inherited THEN j.original_priority
           ELSE [j.original_priority EXCEPT ![t] = j.priority[t]]
    BY <1>1, <2>1, <2>4, <2>6, <2>8
  <2>12. SameThreads(j, r) /\ r.queue = j.queue /\ r.mutex_count = j.mutex_count
    BY <2>1, <2>4, <2>8 DEF SameThreads, SameWaitQueues
  <2>13. r.priority_inherited = j.priority_inherited \cup {t}
    BY <2>6, <2>8
  <2> QED
    BY <1>3, <2>2, <2>4, <2>7, <2>8, <2>9, <2>10, <2>11, <2>12, <2>13
<1> QED
  BY <1>2, <1>3

\* clear_inherited_priority gives back what was inherited once no mutex is
\* counted (sched.cxx:665).
LEMMA ClearInheritedKeeps ==
  ASSUME NEW j \in Kernel, NEW t \in Thread,
         j.state[t] = RUNNING => j.queue[t] = NULL
  PROVE  LET r == clear_inherited_priority(j, t)
             held == j.mutex_count[t] > 0 \/ t \notin j.priority_inherited
         IN  /\ r \in Kernel /\ SameThreads(j, r) /\ r.queue = j.queue
             /\ Sane(j) /\ t # Idle => Sane(r)
             /\ Scheduled(j) => Scheduled(r)
             /\ r.mutex_count = j.mutex_count
             /\ r.original_priority = j.original_priority
             /\ r.priority_inherited = IF held THEN j.priority_inherited
                                       ELSE j.priority_inherited \ {t}
             /\ r.priority = IF held \/ j.priority[t] >= j.original_priority[t]
                               THEN j.priority
                               ELSE [j.priority EXCEPT ![t] = j.original_priority[t]]
<1> DEFINE held == j.mutex_count[t] > 0 \/ t \notin j.priority_inherited
           d == [j EXCEPT !.priority_inherited = @ \ {t}]
           o == j.original_priority[t]
           s == set_priority(d, t, o)
<1>1. /\ j.priority \in [Thread -> Pri] /\ o \in Pri
      /\ j.priority[t] \in Nat /\ o \in Nat
  BY DEF Kernel, Pri
<1>2. /\ d \in Kernel /\ SameThreads(j, d) /\ SameRunQueues(j, d) /\ SameWaitQueues(j, d)
      /\ d.priority = j.priority /\ d.original_priority = j.original_priority
      /\ d.mutex_count = j.mutex_count
      /\ d.priority_inherited = j.priority_inherited \ {t}
  BY FlagDown
<1>3. clear_inherited_priority(j, t) =
        IF held THEN j ELSE IF j.priority[t] < o THEN s ELSE d
  BY DEF clear_inherited_priority
<1> HIDE DEF d, o
<1>4. (Sane(j) => Sane(d)) /\ (Scheduled(j) => Scheduled(d))
  BY <1>2, SameQueuesAndThreads
<1>5. CASE held
  BY <1>3, <1>5 DEF SameThreads
<1>6. CASE ~held /\ ~(j.priority[t] < o)
  <2>1. clear_inherited_priority(j, t) = d
    BY <1>3, <1>6
  <2>2. j.priority[t] >= o
    BY <1>1, <1>6
  <2> QED
    BY <1>2, <1>4, <1>6, <2>1, <2>2 DEF o, SameWaitQueues
<1>7. CASE ~held /\ j.priority[t] < o
  <2>1. t \notin d.priority_inherited /\ (d.state[t] = RUNNING => d.queue[t] = NULL)
    BY <1>2 DEF SameThreads, SameWaitQueues
  <2>2. /\ s \in Kernel /\ SameThreads(d, s) /\ s.queue = d.queue
        /\ Sane(d) /\ t # Idle => Sane(s)
        /\ Scheduled(d) => Scheduled(s)
        /\ s.priority_inherited = d.priority_inherited
        /\ s.mutex_count = d.mutex_count
        /\ s.priority = [d.priority EXCEPT ![t] = o]
        /\ s.original_priority = d.original_priority
    BY <1>1, <1>2, <2>1, SetOwnPriorityKeeps
  <2> HIDE DEF s
  <2>3. clear_inherited_priority(j, t) = s /\ ~(j.priority[t] >= o)
    BY <1>1, <1>3, <1>7
  <2>4. SameThreads(j, s) /\ s.queue = j.queue
    BY <1>2, <2>2 DEF SameThreads, SameWaitQueues
  <2> QED
    BY <1>2, <1>4, <1>7, <2>2, <2>3, <2>4 DEF o
<1> QED
  BY <1>5, <1>6, <1>7
-----------------------------------------------------------------------------
(***************************************************************************)
(* The invariant.                                                          *)
(***************************************************************************)

\* The thread that runs can run, and no reschedule is left to do.
Settled ==
  /\ Sane(k) /\ Consistent(k)
  /\ k.state[current] = RUNNING /\ ~k.need_reschedule

Types ==
  /\ owner \in [Mutex -> AppThread \cup {NULL}]
  /\ wants \in [Thread -> Mutex \cup {NULL}] /\ wants[Idle] = NULL
  /\ wanted \in [Thread -> Pri] /\ bid \in [Thread -> Pri]
  /\ demoted \in BOOLEAN

\* A thread is on the queue of the mutex it wants, asleep, or off it, awake.
Placed(t) ==
  /\ k.queue[t] # NULL => k.queue[t] = wants[t]
  /\ wants[t] # NULL => k.state[t] = IF k.queue[t] = NULL THEN RUNNING ELSE {"SLEEPING"}

\* It counts the mutexes it owns and the one it wants.
Owned(t) == {m \in Mutex : owner[m] = t}
Counted(t) ==
  k.mutex_count[t] = Cardinality(Owned(t)) + IF wants[t] = NULL THEN 0 ELSE 1

\* The priority it was last given is where it is expected, and what it
\* inherited is no worse.
Own(j, t) == IF t \in j.priority_inherited THEN j.original_priority[t] ELSE j.priority[t]
Sound(j, t) == t \in j.priority_inherited => j.priority[t] <= j.original_priority[t]
Based(t) ==
  /\ wanted[t] = Own(k, t)
  /\ t \in k.priority_inherited => k.mutex_count[t] > 0
  /\ Sound(k, t)

MutexInv ==
  /\ Settled /\ Types
  /\ \A t \in Thread : Placed(t) /\ Counted(t) /\ Based(t)

\* Outranks, of the threads whose queue pointer says that they wait.
Leads(t, m) == \A u \in Thread : k.queue[u] = m => k.priority[t] <= bid[u]

\* The owner leads, or a thread that was woken to become it.
Led(m) ==
  IF owner[m] # NULL THEN Leads(owner[m], m)
  ELSE \/ \A u \in Thread : k.queue[u] # m
       \/ \E t \in AppThread : wants[t] = m /\ k.queue[t] = NULL /\ Leads(t, m)

BoostInv ==
  ~demoted =>
    /\ \A m \in Inheriting : Led(m)
    /\ \A m \in DOMAIN Ceiling :
         owner[m] # NULL => k.priority[owner[m]] <= Ceiling[m]

\* What inheritance does: no priority gets worse or is lost, and no thread but
\* t begins to inherit.
Gained(j, r, t) ==
  \A u \in Thread :
    /\ r.priority[u] <= j.priority[u]
    /\ Own(r, u) = Own(j, u)
    /\ Sound(j, u) => Sound(r, u)
    /\ u \in r.priority_inherited => u = t \/ u \in j.priority_inherited

\* set_inherited_priority (sched.cxx:581) raises its thread to pri and loses no
\* priority.
LEMMA InheritedGained ==
  ASSUME NEW j \in Kernel, NEW t \in Thread, NEW pri \in Pri,
         j.state[t] = RUNNING => j.queue[t] = NULL
  PROVE  LET r == set_inherited_priority(j, t, pri)
         IN  /\ r \in Kernel /\ SameThreads(j, r) /\ r.queue = j.queue
             /\ Sane(j) /\ t # Idle => Sane(r)
             /\ Scheduled(j) => Scheduled(r)
             /\ r.mutex_count = j.mutex_count
             /\ Gained(j, r, t) /\ r.priority[t] <= pri
<1> DEFINE r == set_inherited_priority(j, t, pri)
           better == Better(j.priority[t], pri)
<1>1. /\ r.priority = [j.priority EXCEPT ![t] = Better(@, pri)]
      /\ r.priority_inherited = IF pri >= j.priority[t] THEN j.priority_inherited
                                ELSE j.priority_inherited \cup {t}
      /\ r.original_priority =
           IF pri >= j.priority[t] \/ t \in j.priority_inherited
             THEN j.original_priority
             ELSE [j.original_priority EXCEPT ![t] = j.priority[t]]
      /\ r \in Kernel /\ SameThreads(j, r) /\ r.queue = j.queue
      /\ Sane(j) /\ t # Idle => Sane(r)
      /\ Scheduled(j) => Scheduled(r)
      /\ r.mutex_count = j.mutex_count
  BY SetInheritedKeeps
<1>2. /\ j.priority \in [Thread -> Pri] /\ j.original_priority \in [Thread -> Pri]
      /\ pri \in Nat
      /\ \A u \in Thread : j.priority[u] \in Nat /\ j.original_priority[u] \in Nat
  BY DEF Kernel, Pri
<1>3. /\ better <= j.priority[t] /\ better <= pri
      /\ better = IF pri >= j.priority[t] THEN j.priority[t] ELSE pri
  BY <1>2 DEF Better
<1>4. \A u \in Thread : r.priority[u] = IF u = t THEN better ELSE j.priority[u]
  BY <1>1, <1>2
<1> HIDE DEF r, better
<1>5. ASSUME NEW u \in Thread
      PROVE  /\ r.priority[u] <= j.priority[u]
             /\ Own(r, u) = Own(j, u)
             /\ Sound(j, u) => Sound(r, u)
             /\ u \in r.priority_inherited => u = t \/ u \in j.priority_inherited
  <2>1. CASE u # t
    BY <1>1, <1>2, <1>4, <2>1 DEF Own, Sound
  <2>2. CASE u = t /\ pri >= j.priority[t]
    BY <1>1, <1>2, <1>3, <1>4, <2>2 DEF Own, Sound
  <2>3. CASE u = t /\ ~(pri >= j.priority[t])
    BY <1>1, <1>2, <1>3, <1>4, <2>3 DEF Own, Sound
  <2> QED
    BY <2>1, <2>2, <2>3
<1> QED
  BY <1>1, <1>3, <1>4, <1>5 DEF Gained, r

\* The switch at the end of a method settles what the method left to do.
LEMMA SwitchSettles ==
  ASSUME NEW r, Sane(r), Consistent(r), r.current = current, k' = Switch(r)
  PROVE  /\ Settled' /\ k' \in Kernel
         /\ k'.state = r.state /\ k'.queue = r.queue /\ SamePriorities(r, k')
<1> DEFINE next == schedule(r)
           saved == [r EXCEPT !.slice[current] = r.timeslice_count]
           other == [saved EXCEPT !.current = next, !.need_reschedule = FALSE,
                                  !.timeslice_count = saved.slice[next]]
<1>1. k' = IF r.state[current] = RUNNING /\ ~r.need_reschedule THEN r
           ELSE IF next = current THEN [r EXCEPT !.need_reschedule = FALSE]
           ELSE other
  BY DEF Switch
<1>2. /\ next = current => Switched(r, [r EXCEPT !.need_reschedule = FALSE])
      /\ Switched(r, other)
  BY SwitchedTo
<1> HIDE DEF next, other
<1>3. CASE k' = r /\ r.state[current] = RUNNING /\ ~r.need_reschedule
  BY <1>3 DEF Settled, Sane, SamePriorities
<1>4. CASE Switched(r, k')
  <2>1. Sane(k') /\ Consistent(k') /\ k'.state[k'.current] = RUNNING
    BY <1>4, SwitchedSane, SwitchedThreads
  <2>2. /\ ~k'.need_reschedule /\ k' \in Kernel
        /\ k'.state = r.state /\ k'.queue = r.queue /\ SamePriorities(r, k')
    BY <1>4 DEF Switched, SameWaitQueues
  <2> QED
    BY <2>1, <2>2 DEF Settled
<1> QED
  BY <1>1, <1>2, <1>3, <1>4

\* No runnable thread is better than the one that runs.
LEMMA BestRuns ==
  ASSUME Settled
  PROVE  /\ k \in Kernel /\ current \in Thread /\ k.queue[current] = NULL
         /\ \A t \in Thread : k.state[t] = RUNNING => k.priority[current] <= k.priority[t]
<1>1. k \in Kernel /\ current \in Thread
  BY DEF Settled, Sane, Kernel
<1>2. Asked(k, Runnable(k)) /\ Bits(k, current)
  BY <1>1 DEF Settled, Consistent, Scheduled, Queues
<1> QED
  BY <1>1, <1>2 DEF Settled, Asked, Runnable, Bits, RUNNING

\* A list of a finite set without repetitions names every element.
LEMMA ListsAll ==
  ASSUME NEW S, IsFiniteSet(S)
  PROVE  LET Lists == [1 .. Cardinality(S) -> S]
             Apart(q) == \A i, j \in DOMAIN q : q[i] = q[j] => i = j
         IN  /\ \E q \in Lists : Apart(q)
             /\ \A q \in Lists : Apart(q) =>
                  q \in Seq(S) /\ Once(q) /\ \A t : On(q, t) <=> t \in S
<1> DEFINE n == Cardinality(S)
           Lists == [1 .. n -> S]
           Apart(q) == \A i, j \in DOMAIN q : q[i] = q[j] => i = j
<1>1. n \in Nat /\ ExistsBijection(1 .. n, S)
  BY FS_CardinalityType
<1>2. IsFiniteSet(1 .. n) /\ Cardinality(1 .. n) = n
  BY <1>1, FS_Interval
<1> HIDE DEF n
<1>3. \E q \in Lists : Apart(q)
  <2>1. PICK q \in Bijection(1 .. n, S) : TRUE
    BY <1>1 DEF ExistsBijection
  <2>2. q \in Lists /\ \A i, j \in 1 .. n : q[i] = q[j] => i = j
    BY <2>1 DEF Bijection, Injection, IsInjective
  <2>3. DOMAIN q = 1 .. n
    BY <2>2
  <2> QED
    BY <2>2, <2>3
<1>4. ASSUME NEW q \in Lists, Apart(q)
      PROVE  q \in Seq(S) /\ Once(q) /\ \A t : On(q, t) <=> t \in S
  <2>1. DOMAIN q = 1 .. n
    OBVIOUS
  <2>2. q \in Seq(S) /\ Len(q) = n
    BY <1>1, <2>1
  <2>3. q \in Injection(1 .. n, S)
    BY <1>4, <2>1 DEF Injection, IsInjective
  <2>4. q \in Surjection(1 .. n, S)
    BY <1>2, <2>3, FS_Injection DEF n
  <2>5. \A t \in S : \E i \in 1 .. n : q[i] = t
    BY <2>4 DEF Surjection
  <2>6. \A t : On(q, t) <=> t \in S
    BY <2>2, <2>5 DEF On
  <2> QED
    BY <1>4, <2>1, <2>2, <2>6 DEF Once
<1> QED
  BY <1>3, <1>4 DEF n

\* A method that leaves the threads and their queue pointers alone keeps the
\* records consistent if it keeps the queues so.
LEMMA StillConsistent ==
  ASSUME NEW j, NEW r, SameThreads(j, r), r.queue = j.queue,
         Scheduled(j) => Scheduled(r)
  PROVE  Consistent(j) => Consistent(r)
<1>1. \A u \in Thread : (Bits(j, u) => Bits(r, u)) /\ (Reasons(j, u) => Reasons(r, u))
  BY DEF Bits, Reasons, SameThreads
<1> QED
  BY <1>1 DEF Consistent

\* What inheritance does depends on the priorities alone.
LEMMA GainedPriorities ==
  ASSUME NEW i, NEW j, NEW r, NEW s, NEW t, SamePriorities(i, j), SamePriorities(r, s),
         Gained(j, r, t)
  PROVE  Gained(i, s, t)
BY DEF Gained, Own, Sound, SamePriorities

\* Where nobody changes priority nobody gains one.
LEMMA GainedSelf ==
  ASSUME NEW j \in Kernel, NEW r, SamePriorities(j, r), NEW t
  PROVE  Gained(j, r, t)
<1>1. \A u \in Thread : j.priority[u] \in Nat
  BY DEF Kernel, Pri
<1>2. \A u \in Thread : j.priority[u] <= j.priority[u]
  BY <1>1
<1> QED
  BY <1>2 DEF Gained, Own, Sound, SamePriorities

\* Where the kernel is when a thread tries a mutex: k with the mutex counted.
Locking(j) ==
  /\ j \in Kernel /\ Sane(j) /\ Consistent(j)
  /\ SameThreads(k, j) /\ j.queue = k.queue
  /\ j.priority = k.priority /\ j.original_priority = k.original_priority
  /\ j.priority_inherited = k.priority_inherited
  /\ \A u \in Thread :
       j.mutex_count[u] = k.mutex_count[u]
                          + IF u = current /\ wants[u] = NULL THEN 1 ELSE 0

\* A lock that finds the mutex owned (cyg_mutex_lock) puts the thread on its
\* queue, and the owner runs at least at its priority.
LEMMA WaitStep ==
  ASSUME MutexInv, current # Idle, NEW m \in Mutex, owner[m] # NULL,
         NEW j, Locking(j), TryLock(j, m)
  PROVE  /\ Settled' /\ k' \in Kernel /\ k'.mutex_count = j.mutex_count
         /\ k'.queue = [k.queue EXCEPT ![current] = m]
         /\ k'.state[current] = {"SLEEPING"}
         /\ \A u \in Thread \ {current} : k'.state[u] = k.state[u]
         /\ Gained(k, k', owner[m])
         /\ m \in Inheriting => k'.priority[owner[m]] <= k.priority[current]
<1> DEFINE t == current
           w == enqueue(SleepFor(j, "WAIT"), m, t)
           o == owner[m]
           r == IF m \in Inheriting THEN set_inherited_priority(w, o, w.priority[t]) ELSE w
<1>1. /\ k \in Kernel /\ t \in Thread /\ k.state[t] = {} /\ k.queue[t] = NULL
      /\ j.current = t
  BY BestRuns DEF MutexInv, Settled, Locking, SameThreads, RUNNING
<1>2. o \in Thread /\ o # Idle /\ m \in WaitQueue
  BY MutexAssumption DEF MutexInv, Types, AppThread
<1>3. k' = Switch(r)
  <2>1. TryLock(j, m) => k' = Switch(IF m \in Inheriting THEN inherit_priority(w, o, t) ELSE w)
    BY DEF TryLock, SleepFor, Locking, SameThreads
  <2> HIDE DEF w, t, o
  <2>2. inherit_priority(w, o, t) = set_inherited_priority(w, o, w.priority[t])
    BY DEF inherit_priority
  <2> QED
    BY <2>1, <2>2
<1>4. /\ w \in Kernel /\ Sane(w) /\ Consistent(w) /\ SamePriorities(j, w)
      /\ OnlyAbout(j, w, t)
      /\ w.queue = [j.queue EXCEPT ![t] = m] /\ w.state[t] = {"SLEEPING"}
  <2>1. /\ Blocked(j, w)
        /\ w.queue = [j.queue EXCEPT ![t] = m]
        /\ w.state[t] = j.state[t] \cup {"SLEEPING"}
    BY <1>1, <1>2, WaitBlocks DEF Locking
  <2> HIDE DEF w
  <2>2. j.state[t] = {}
    BY <1>1 DEF Locking, SameThreads
  <2> QED
    BY <1>1, <2>1, <2>2 DEF Blocked, Locking, RUNNING
<1> HIDE DEF w
<1>5. w.priority[t] \in Pri /\ w.priority[t] = k.priority[t]
  BY <1>1, <1>4 DEF Kernel, SamePriorities, Locking
<1>6. w.state[o] = RUNNING => w.queue[o] = NULL
  BY <1>2, <1>4 DEF Consistent, Bits, RUNNING
<1>7. /\ r \in Kernel /\ SameThreads(w, r) /\ r.queue = w.queue
      /\ Sane(r) /\ (Scheduled(w) => Scheduled(r))
      /\ r.mutex_count = w.mutex_count
      /\ Gained(w, r, o)
      /\ m \in Inheriting => r.priority[o] <= w.priority[t]
  <2>1. CASE m \in Inheriting
    <3> DEFINE pri == w.priority[t]
               s == set_inherited_priority(w, o, pri)
    <3>0. r = s /\ pri \in Pri /\ pri = w.priority[t]
      BY <1>5, <2>1
    <3> HIDE DEF pri, o, r
    <3>1. /\ s \in Kernel /\ SameThreads(w, s) /\ s.queue = w.queue
          /\ Sane(w) /\ o # Idle => Sane(s)
          /\ Scheduled(w) => Scheduled(s)
          /\ s.mutex_count = w.mutex_count
          /\ Gained(w, s, o) /\ s.priority[o] <= pri
      BY <1>2, <1>4, <1>6, <3>0, InheritedGained
    <3> HIDE DEF s
    <3> QED
      BY <1>2, <1>4, <3>0, <3>1
  <2>2. CASE m \notin Inheriting
    <3>1. r = w /\ SameThreads(w, w) /\ SamePriorities(w, w)
      BY <2>2 DEF SameThreads, SamePriorities
    <3> HIDE DEF r
    <3> QED
      BY <1>4, <2>2, <3>1, GainedSelf
  <2> QED
    BY <2>1, <2>2
<1> HIDE DEF r
<1>8. Consistent(r) /\ r.current = current
  BY <1>1, <1>4, <1>7, StillConsistent DEF SameThreads, OnlyAbout
<1>9. /\ Settled' /\ k' \in Kernel
      /\ k'.state = r.state /\ k'.queue = r.queue /\ SamePriorities(r, k')
  BY <1>3, <1>7, <1>8, SwitchSettles
<1>10. Gained(k, k', o)
  <2>1. /\ k.priority = w.priority /\ k.original_priority = w.original_priority
        /\ k.priority_inherited = w.priority_inherited
    BY <1>4 DEF Locking, SamePriorities
  <2> QED
    BY <1>7, <1>9, <2>1 DEF Gained, Own, Sound, SamePriorities
<1>11. /\ k'.state[t] = {"SLEEPING"}
       /\ \A u \in Thread \ {t} : k'.state[u] = k.state[u]
  BY <1>4, <1>7, <1>9 DEF SameThreads, OnlyAbout, Locking
<1>12. k'.queue = [k.queue EXCEPT ![t] = m] /\ k'.mutex_count = j.mutex_count
  BY <1>4, <1>7, <1>9 DEF SamePriorities, Locking
<1>13. m \in Inheriting => k'.priority[o] <= k.priority[t]
  BY <1>5, <1>7, <1>9 DEF SamePriorities
<1> QED
  BY <1>9, <1>10, <1>11, <1>12, <1>13

\* A lock that finds the mutex free takes it, at the ceiling if it has one.
LEMMA TakeStep ==
  ASSUME MutexInv, current # Idle, NEW m \in Mutex, owner[m] = NULL,
         NEW j, Locking(j), TryLock(j, m)
  PROVE  /\ Settled' /\ k' \in Kernel /\ k'.mutex_count = j.mutex_count
         /\ k'.queue = k.queue /\ k'.state = k.state
         /\ Gained(k, k', current)
         /\ m \notin Inheriting => k'.priority[current] <= Ceiling[m]
<1> DEFINE t == current
           r == IF m \in Inheriting THEN j ELSE set_inherited_priority(j, t, Ceiling[m])
<1>1. /\ t \in Thread /\ k.queue[t] = NULL /\ j.current = t
      /\ j \in Kernel /\ Sane(j) /\ Consistent(j)
  BY BestRuns DEF MutexInv, Locking, SameThreads
<1>2. k' = Switch(r)
  BY DEF TryLock, set_priority_ceiling
<1> HIDE DEF t
<1>3. /\ r \in Kernel /\ SameThreads(j, r) /\ r.queue = j.queue
      /\ Sane(r) /\ (Scheduled(j) => Scheduled(r))
      /\ r.mutex_count = j.mutex_count
      /\ Gained(j, r, t)
      /\ m \notin Inheriting => r.priority[t] <= Ceiling[m]
  <2>1. CASE m \notin Inheriting
    <3> DEFINE pri == Ceiling[m]
               s == set_inherited_priority(j, t, pri)
    <3>1. r = s /\ pri \in Pri
      BY <2>1, CeilingAssumption DEF Inheriting
    <3>2. j.state[t] = RUNNING => j.queue[t] = NULL
      BY <1>1 DEF Locking
    <3> HIDE DEF pri, r
    <3>3. /\ s \in Kernel /\ SameThreads(j, s) /\ s.queue = j.queue
          /\ Sane(j) /\ t # Idle => Sane(s)
          /\ Scheduled(j) => Scheduled(s)
          /\ s.mutex_count = j.mutex_count
          /\ Gained(j, s, t) /\ s.priority[t] <= pri
      BY <1>1, <3>1, <3>2, InheritedGained
    <3> HIDE DEF s
    <3> QED
      BY <1>1, <3>1, <3>3 DEF pri, t
  <2>2. CASE m \in Inheriting
    <3>1. r = j /\ SameThreads(j, j) /\ SamePriorities(j, j)
      BY <2>2 DEF SameThreads, SamePriorities
    <3> HIDE DEF r
    <3> QED
      BY <1>1, <2>2, <3>1, GainedSelf
  <2> QED
    BY <2>1, <2>2
<1> HIDE DEF r
<1>4. Consistent(r) /\ r.current = current
  BY <1>1, <1>3, StillConsistent DEF SameThreads, t
<1>5. /\ Settled' /\ k' \in Kernel
      /\ k'.state = r.state /\ k'.queue = r.queue /\ SamePriorities(r, k')
  BY <1>2, <1>3, <1>4, SwitchSettles
<1>6. Gained(k, k', t)
  BY <1>3, <1>5 DEF Gained, Own, Sound, SamePriorities, Locking
<1>7. k'.state = k.state /\ k'.queue = k.queue /\ k'.mutex_count = j.mutex_count
  BY <1>3, <1>5 DEF SameThreads, SamePriorities, Locking
<1>8. m \notin Inheriting => k'.priority[t] <= Ceiling[m]
  BY <1>3, <1>5 DEF SamePriorities
<1> QED
  BY <1>5, <1>6, <1>7, <1>8 DEF t

\* A thread that owns a mutex counts it, as set_inherited_priority asserts
\* (sched.cxx:595).
LEMMA OwnersCount ==
  ASSUME MutexInv
  PROVE  /\ \A t \in Thread : IsFiniteSet(Owned(t)) /\ Cardinality(Owned(t)) \in Nat
         /\ \A m \in Mutex : owner[m] # NULL => k.mutex_count[owner[m]] > 0
<1>1. ASSUME NEW t \in Thread
      PROVE  IsFiniteSet(Owned(t)) /\ Cardinality(Owned(t)) \in Nat
  BY FiniteAssumption, FS_Subset, FS_CardinalityType DEF Owned
<1>2. ASSUME NEW m \in Mutex, owner[m] # NULL
      PROVE  k.mutex_count[owner[m]] > 0
  <2> DEFINE t == owner[m]
             n == Cardinality(Owned(t))
             mine == IF wants[t] = NULL THEN 0 ELSE 1
  <2>1. t \in Thread
    BY <1>2 DEF MutexInv, Types, AppThread
  <2>2. n \in Nat /\ IsFiniteSet(Owned(t))
    BY <1>1, <2>1
  <2>3. m \in Owned(t)
    BY DEF Owned
  <2>4. n # 0
    BY <2>2, <2>3, FS_EmptySet
  <2>5. k.mutex_count[t] = n + mine /\ mine \in Nat
    BY <2>1 DEF MutexInv, Counted
  <2> HIDE DEF n, t, mine
  <2>6. k.mutex_count[t] > 0
    BY <2>2, <2>4, <2>5
  <2> QED
    BY <2>6 DEF t
<1> QED
  BY <1>1, <1>2

\* A mutex that nobody begins to wait for is led as before, unless a thread
\* that may lead it gets a worse priority.
LEMMA LedKept ==
  ASSUME MutexInv, k' \in Kernel, NEW n \in Mutex, Led(n), owner'[n] = owner[n],
         \A u \in Thread : k'.queue[u] = n => k.queue[u] = n /\ bid'[u] = bid[u],
         \A u \in Thread : owner[n] = u \/ wants[u] = n => k'.priority[u] <= k.priority[u],
         \A u \in Thread : wants[u] = n /\ k.queue[u] = NULL
                            => wants'[u] = n /\ k'.queue[u] = NULL
  PROVE  Led(n)'
<1>1. ASSUME NEW h \in Thread, owner[n] = h \/ wants[h] = n, Leads(h, n),
             NEW u \in Thread, k'.queue[u] = n
      PROVE  k'.priority[h] <= bid'[u]
  <2>1. k.queue[u] = n /\ bid'[u] = bid[u]
    BY <1>1
  <2>2. bid[u] \in Nat /\ k.priority[h] <= bid[u]
    BY <1>1, <2>1 DEF Leads, MutexInv, Types, Pri
  <2>3. k.priority[h] \in Nat /\ k'.priority[h] \in Nat
    BY <1>1, BestRuns DEF MutexInv, Kernel, Pri
  <2> QED
    BY <1>1, <2>1, <2>2, <2>3
<1>2. CASE owner[n] # NULL
  <2>1. owner[n] \in Thread /\ Leads(owner[n], n)
    BY <1>2 DEF MutexInv, Types, AppThread, Led
  <2>2. \A u \in Thread : k'.queue[u] = n => k'.priority[owner'[n]] <= bid'[u]
    BY <1>1, <2>1
  <2> QED
    BY <1>2, <2>2 DEF Led, Leads
<1>3. CASE owner[n] = NULL /\ \A u \in Thread : k.queue[u] # n
  <2>1. \A u \in Thread : k'.queue[u] # n
    BY <1>3
  <2> QED
    BY <1>3, <2>1 DEF Led
<1>4. ASSUME owner[n] = NULL,
             NEW v \in AppThread, wants[v] = n, k.queue[v] = NULL, Leads(v, n)
      PROVE  Led(n)'
  <2>1. v \in Thread
    BY DEF AppThread
  <2>2. wants'[v] = n /\ k'.queue[v] = NULL
    BY <1>4, <2>1
  <2>3. Leads(v, n)'
    BY <1>1, <1>4, <2>1 DEF Leads
  <2> QED
    BY <1>4, <2>2, <2>3 DEF Led
<1> QED
  BY <1>2, <1>3, <1>4 DEF Led

\* The same of the owner of a mutex with a ceiling.
LEMMA CeilingKept ==
  ASSUME MutexInv, k' \in Kernel, NEW n \in DOMAIN Ceiling, owner[n] # NULL,
         k.priority[owner[n]] <= Ceiling[n], owner'[n] = owner[n],
         k'.priority[owner[n]] <= k.priority[owner[n]]
  PROVE  k'.priority[owner'[n]] <= Ceiling[n]
<1>1. n \in Mutex /\ Ceiling[n] \in Nat
  BY CeilingAssumption DEF Pri
<1>2. owner[n] \in Thread
  BY <1>1 DEF MutexInv, Types, AppThread
<1>3. \A u \in Thread : k.priority[u] \in Nat /\ k'.priority[u] \in Nat
  BY BestRuns DEF MutexInv, Kernel, Pri
<1> QED
  BY <1>1, <1>2, <1>3

\* What a lock keeps when it waits.
LEMMA WaitKeeps ==
  ASSUME MutexInv, current # Idle, NEW m \in Mutex, owner[m] # NULL,
         wants[current] \in {NULL, m},
         NEW j, Locking(j), TryLock(j, m), UNCHANGED <<wanted, demoted>>
  PROVE  MutexInv' /\ (BoostInv => BoostInv')
<1> DEFINE t == current
           o == owner[m]
<1>1. /\ Settled' /\ k' \in Kernel /\ k'.mutex_count = j.mutex_count
      /\ k'.queue = [k.queue EXCEPT ![t] = m]
      /\ k'.state[t] = {"SLEEPING"}
      /\ \A u \in Thread \ {t} : k'.state[u] = k.state[u]
      /\ Gained(k, k', o)
      /\ m \in Inheriting => k'.priority[o] <= k.priority[t]
  BY WaitStep
<1>2. /\ wants' = [wants EXCEPT ![t] = m]
      /\ bid' = [bid EXCEPT ![t] = k.priority[t]]
      /\ owner' = owner
  <2>1. wants' = [wants EXCEPT ![t] = m] /\ bid' = [bid EXCEPT ![t] = j.priority[t]]
        /\ owner' = owner
    BY DEF TryLock
  <2> QED
    BY <2>1 DEF Locking
<1>3. /\ k \in Kernel /\ t \in Thread /\ o \in AppThread /\ o \in Thread
      /\ NULL \notin Mutex /\ Mutex = WaitQueue
      /\ \A u \in Thread : k.priority[u] \in Nat /\ k'.priority[u] \in Nat
  <2>1. k \in Kernel /\ t \in Thread
    BY BestRuns DEF MutexInv
  <2>2. o \in AppThread /\ o \in Thread
    BY DEF MutexInv, Types, AppThread
  <2> HIDE DEF t, o
  <2>3. \A u \in Thread : k.priority[u] \in Nat /\ k'.priority[u] \in Nat
    BY <1>1, <2>1 DEF Kernel, Pri
  <2> QED
    BY <2>1, <2>2, <2>3, QueueAssumption, MutexAssumption
<1>4. /\ \A u \in Thread : k'.queue[u] = IF u = t THEN m ELSE k.queue[u]
      /\ \A u \in Thread : wants'[u] = IF u = t THEN m ELSE wants[u]
      /\ \A u \in Thread : bid'[u] = IF u = t THEN k.priority[t] ELSE bid[u]
  <2>1. k.queue \in [Thread -> WaitQueue \cup {NULL}]
    BY <1>3 DEF Kernel
  <2> QED
    BY <1>1, <1>2, <1>3, <2>1 DEF MutexInv, Types
<1>5. \A u \in Thread : /\ k.mutex_count[u] \in Nat
                        /\ k'.mutex_count[u] = k.mutex_count[u]
                             + IF u = t /\ wants[u] = NULL THEN 1 ELSE 0
  BY <1>1, <1>3 DEF Locking, Kernel
<1>6. Types'
  BY <1>2, <1>3 DEF MutexInv, Types, Kernel
<1>7. k.mutex_count[o] > 0
  BY OwnersCount
<1> HIDE DEF t, o
<1>8. ASSUME NEW u \in Thread
      PROVE  Placed(u)' /\ Counted(u)' /\ Based(u)'
  <2>1. Placed(u)'
    BY <1>1, <1>3, <1>4 DEF MutexInv, Placed, RUNNING
  <2>2. Counted(u)'
    <3>1. Owned(u)' = Owned(u) /\ Cardinality(Owned(u)) \in Nat
      BY <1>2, OwnersCount DEF Owned
    <3>2. k.mutex_count[u] = Cardinality(Owned(u)) + IF wants[u] = NULL THEN 0 ELSE 1
      BY DEF MutexInv, Counted
    <3>3. k'.mutex_count[u] = Cardinality(Owned(u)) + IF wants'[u] = NULL THEN 0 ELSE 1
      BY <1>3, <1>4, <1>5, <3>1, <3>2 DEF t
    <3> QED
      BY <3>1, <3>3 DEF Counted
  <2>3. k'.mutex_count[u] \in Nat /\ k.mutex_count[u] <= k'.mutex_count[u]
    BY <1>5
  <2>4. Based(u)'
    BY <1>1, <1>5, <1>7, <2>3 DEF MutexInv, Based, Gained
  <2> QED
    BY <2>1, <2>2, <2>4
<1>9. ASSUME BoostInv, ~demoted'
      PROVE  /\ \A n \in Inheriting : Led(n)'
             /\ \A n \in DOMAIN Ceiling :
                  owner'[n] # NULL => k'.priority[owner'[n]] <= Ceiling[n]
  <2>1. ~demoted
    BY <1>9
  <2>2. ASSUME NEW n \in Inheriting
        PROVE  Led(n)'
    <3>1. n \in Mutex /\ Led(n)
      BY <1>9, <2>1, <2>2 DEF BoostInv, Inheriting
    <3>2. CASE n = m
      <4>1. Leads(o, m)
        BY <3>1, <3>2 DEF Led, o
      <4>2. ASSUME NEW u \in Thread, k'.queue[u] = m
            PROVE  k'.priority[o] <= bid'[u]
        <5>1. CASE u = t
          BY <1>1, <1>4, <2>2, <3>2, <5>1
        <5>2. CASE u # t
          <6>1. k.queue[u] = m /\ bid'[u] = bid[u]
            BY <1>4, <4>2, <5>2
          <6>2. bid[u] \in Nat /\ k.priority[o] <= bid[u]
            BY <4>1, <6>1 DEF Leads, MutexInv, Types, Pri
          <6>3. k'.priority[o] <= k.priority[o]
            BY <1>1, <1>3 DEF Gained
          <6> QED
            BY <1>3, <6>1, <6>2, <6>3
        <5> QED
          BY <5>1, <5>2
      <4>3. \A u \in Thread : k'.queue[u] = m => k'.priority[owner'[m]] <= bid'[u]
        BY <1>2, <4>2 DEF o
      <4> QED
        BY <1>2, <3>2, <4>3 DEF Led, Leads
    <3>3. CASE n # m
      <4>1. \A u \in Thread : k'.queue[u] = n => k.queue[u] = n /\ bid'[u] = bid[u]
        BY <1>4, <3>3
      <4>2. \A u \in Thread : k'.priority[u] <= k.priority[u]
        BY <1>1 DEF Gained
      <4>3. \A u \in Thread : wants[u] = n /\ k.queue[u] = NULL
                               => wants'[u] = n /\ k'.queue[u] = NULL
        BY <1>3, <1>4, <3>1, <3>3 DEF t
      <4> QED
        BY <1>1, <1>2, <3>1, <4>1, <4>2, <4>3, LedKept
    <3> QED
      BY <3>2, <3>3
  <2>3. ASSUME NEW n \in DOMAIN Ceiling, owner'[n] # NULL
        PROVE  k'.priority[owner'[n]] <= Ceiling[n]
    <3>1. /\ owner[n] # NULL /\ owner[n] \in Thread
          /\ k.priority[owner[n]] <= Ceiling[n]
      BY <1>2, <1>9, <2>1, <2>3, CeilingAssumption DEF BoostInv, MutexInv, Types, AppThread
    <3>2. k'.priority[owner[n]] <= k.priority[owner[n]]
      BY <1>1, <3>1 DEF Gained
    <3> QED
      BY <1>1, <1>2, <3>1, <3>2, CeilingKept
  <2> QED
    BY <2>2, <2>3
<1>10. MutexInv'
  BY <1>1, <1>6, <1>8 DEF MutexInv
<1> QED
  BY <1>9, <1>10 DEF BoostInv

\* What a lock keeps when it takes the mutex: a waiter that was woken for it is
\* no better than the thread that runs.
LEMMA TakeKeeps ==
  ASSUME MutexInv, current # Idle, NEW m \in Mutex, owner[m] = NULL,
         wants[current] \in {NULL, m},
         NEW j, Locking(j), TryLock(j, m), UNCHANGED <<wanted, demoted>>
  PROVE  MutexInv' /\ (BoostInv => BoostInv')
<1> DEFINE t == current
<1>1. /\ Settled' /\ k' \in Kernel /\ k'.mutex_count = j.mutex_count
      /\ k'.queue = k.queue /\ k'.state = k.state
      /\ Gained(k, k', t)
      /\ m \notin Inheriting => k'.priority[t] <= Ceiling[m]
  BY TakeStep
<1>2. /\ wants' = [wants EXCEPT ![t] = NULL]
      /\ bid' = [bid EXCEPT ![t] = MinPri]
      /\ owner' = [owner EXCEPT ![m] = t]
  BY DEF TryLock
<1>3. /\ k \in Kernel /\ t \in Thread /\ t \in AppThread /\ k.queue[t] = NULL /\ t # NULL
      /\ NULL \notin Mutex /\ NULL \notin Thread
      /\ \A u \in Thread : k.priority[u] \in Nat /\ k'.priority[u] \in Nat
  <2>1. k \in Kernel /\ t \in Thread /\ t \in AppThread /\ k.queue[t] = NULL
    BY BestRuns DEF MutexInv, AppThread
  <2> HIDE DEF t
  <2>2. \A u \in Thread : k.priority[u] \in Nat /\ k'.priority[u] \in Nat
    BY <1>1, <2>1 DEF Kernel, Pri
  <2> QED
    BY <2>1, <2>2, QueueAssumption, MutexAssumption
<1>4. /\ \A u \in Thread : wants'[u] = IF u = t THEN NULL ELSE wants[u]
      /\ \A u \in Thread : bid'[u] = IF u = t THEN MinPri ELSE bid[u]
      /\ \A n \in Mutex : owner'[n] = IF n = m THEN t ELSE owner[n]
  BY <1>2 DEF MutexInv, Types
<1>5. \A u \in Thread : /\ k.mutex_count[u] \in Nat
                        /\ k'.mutex_count[u] = k.mutex_count[u]
                             + IF u = t /\ wants[u] = NULL THEN 1 ELSE 0
  BY <1>1, <1>3 DEF Locking, Kernel
<1>6. Types'
  <2>1. MinPri \in Pri
    BY PriAssumption DEF Pri
  <2> QED
    BY <1>2, <1>3, <2>1 DEF MutexInv, Types
<1> HIDE DEF t
<1>7. ASSUME NEW u \in Thread
      PROVE  /\ Counted(u)'
             /\ k'.mutex_count[u] \in Nat /\ k.mutex_count[u] <= k'.mutex_count[u]
             /\ u = t => k'.mutex_count[u] > 0
  <2> DEFINE n == Cardinality(Owned(u))
             mine == IF wants[u] = NULL THEN 0 ELSE 1
  <2>1. k.mutex_count[u] = n + mine /\ mine \in {0, 1}
    BY DEF MutexInv, Counted
  <2>2. n \in Nat /\ IsFiniteSet(Owned(u))
    BY OwnersCount
  <2>3. CASE u = t
    <3>1. Owned(u)' = Owned(u) \cup {m} /\ m \notin Owned(u)
      BY <1>3, <1>4, <2>3 DEF Owned
    <3>2. Cardinality(Owned(u))' = n + 1
      BY <2>2, <3>1, FS_AddElement
    <3>3. k'.mutex_count[u] = n + 1
      BY <1>5, <2>1, <2>2, <2>3
    <3>4. wants'[u] = NULL
      BY <1>4, <2>3
    <3> HIDE DEF n
    <3> QED
      BY <1>5, <2>2, <3>2, <3>3, <3>4 DEF Counted
  <2>4. CASE u # t
    <3>1. Owned(u)' = Owned(u)
      BY <1>3, <1>4, <2>4 DEF Owned
    <3>2. k'.mutex_count[u] = n + mine /\ wants'[u] = wants[u]
      BY <1>4, <1>5, <2>1, <2>2, <2>4
    <3> QED
      BY <1>5, <2>2, <2>4, <3>1, <3>2 DEF Counted
  <2> QED
    BY <2>3, <2>4
<1>8. ASSUME NEW u \in Thread
      PROVE  Placed(u)' /\ Based(u)'
  <2>1. Placed(u)'
    BY <1>1, <1>3, <1>4 DEF MutexInv, Placed
  <2>2. k.mutex_count[u] > 0 => k'.mutex_count[u] > 0
    BY <1>5, <1>7
  <2>3. Based(u)'
    BY <1>1, <1>7, <2>2 DEF MutexInv, Based, Gained
  <2> QED
    BY <2>1, <2>3
<1>9. ASSUME BoostInv, ~demoted'
      PROVE  /\ \A n \in Inheriting : Led(n)'
             /\ \A n \in DOMAIN Ceiling :
                  owner'[n] # NULL => k'.priority[owner'[n]] <= Ceiling[n]
  <2>1. ~demoted
    BY <1>9
  <2>2. ASSUME NEW n \in Inheriting
        PROVE  Led(n)'
    <3>1. n \in Mutex /\ Led(n)
      BY <1>9, <2>1, <2>2 DEF BoostInv, Inheriting
    <3>2. CASE n = m
      <4>1. ASSUME NEW u \in Thread, k'.queue[u] = m
            PROVE  k'.priority[t] <= bid'[u]
        <5>1. k.queue[u] = m /\ u # t
          BY <1>1, <1>3, <4>1
        <5>2. PICK v \in AppThread : wants[v] = m /\ k.queue[v] = NULL /\ Leads(v, m)
          BY <3>1, <3>2, <5>1 DEF Led
        <5>3. v \in Thread /\ k.state[v] = RUNNING
          BY <1>3, <5>2 DEF MutexInv, Placed, AppThread
        <5>4. k.priority[t] <= k.priority[v]
          BY <5>3, BestRuns DEF MutexInv, t
        <5>5. k.priority[v] <= bid[u] /\ bid[u] \in Nat /\ bid'[u] = bid[u]
          BY <1>4, <5>1, <5>2 DEF Leads, MutexInv, Types, Pri
        <5>6. k'.priority[t] <= k.priority[t]
          BY <1>1, <1>3 DEF Gained
        <5> QED
          BY <1>3, <5>3, <5>4, <5>5, <5>6
      <4>2. owner'[m] = t
        BY <1>4
      <4> QED
        BY <1>3, <3>2, <4>1, <4>2 DEF Led, Leads
    <3>3. CASE n # m
      <4>1. \A u \in Thread : k'.queue[u] = n => k.queue[u] = n /\ bid'[u] = bid[u]
        BY <1>1, <1>3, <1>4, <3>1
      <4>2. \A u \in Thread : k'.priority[u] <= k.priority[u]
        BY <1>1 DEF Gained
      <4>3. \A u \in Thread : wants[u] = n /\ k.queue[u] = NULL
                               => wants'[u] = n /\ k'.queue[u] = NULL
        <5>1. wants[t] # n
          BY <1>3, <3>1, <3>3 DEF t
        <5> QED
          BY <1>1, <1>4, <5>1
      <4>4. owner'[n] = owner[n]
        BY <1>4, <3>1, <3>3
      <4> QED
        BY <1>1, <3>1, <4>1, <4>2, <4>3, <4>4, LedKept
    <3> QED
      BY <3>2, <3>3
  <2>3. ASSUME NEW n \in DOMAIN Ceiling, owner'[n] # NULL
        PROVE  k'.priority[owner'[n]] <= Ceiling[n]
    <3>1. n \in Mutex
      BY CeilingAssumption
    <3>2. CASE n = m
      <4>1. m \notin Inheriting
        BY <3>2 DEF Inheriting
      <4> QED
        BY <1>1, <1>4, <3>2, <4>1
    <3>3. CASE n # m
      <4>1. owner'[n] = owner[n]
        BY <1>4, <3>1, <3>3
      <4>2. owner[n] # NULL /\ owner[n] \in Thread /\ k.priority[owner[n]] <= Ceiling[n]
        BY <1>9, <2>1, <2>3, <3>1, <4>1 DEF BoostInv, MutexInv, Types, AppThread
      <4>3. k'.priority[owner[n]] <= k.priority[owner[n]]
        BY <1>1, <4>2 DEF Gained
      <4> QED
        BY <1>1, <4>1, <4>2, <4>3, CeilingKept
    <3> QED
      BY <3>2, <3>3
  <2> QED
    BY <2>2, <2>3
<1>10. MutexInv'
  BY <1>1, <1>6, <1>7, <1>8 DEF MutexInv
<1> QED
  BY <1>9, <1>10 DEF BoostInv
-----------------------------------------------------------------------------
(***************************************************************************)
(* The steps.                                                              *)
(***************************************************************************)

\* A thread begins to lock a mutex.
LEMMA LockKeeps ==
  ASSUME MutexInv, NEW m \in Mutex, Lock(m)
  PROVE  MutexInv' /\ (BoostInv => BoostInv')
<1> DEFINE n == k.mutex_count[current] + 1
           counts == [k.mutex_count EXCEPT ![current] = n]
           j == [k EXCEPT !.mutex_count = counts]
<1>1. /\ k \in Kernel /\ current \in Thread
      /\ Sane(k) /\ Consistent(k)
  BY BestRuns DEF MutexInv, Settled
<1>2. counts \in [Thread -> Nat] /\ TryLock(j, m)
  BY <1>1 DEF Kernel, Lock
<1>3. \A u \in Thread :
        counts[u] = k.mutex_count[u] + IF u = current /\ wants[u] = NULL THEN 1 ELSE 0
  BY <1>1 DEF Kernel, Lock, Outside
<1> HIDE DEF n, counts
<1>4. j \in Kernel
  BY <1>1, <1>2 DEF Kernel
<1>5. /\ SameThreads(k, j) /\ SameRunQueues(k, j) /\ SameWaitQueues(k, j)
      /\ j.priority = k.priority /\ j.original_priority = k.original_priority
      /\ j.priority_inherited = k.priority_inherited /\ j.mutex_count = counts
  BY <1>1 DEF Kernel, SameThreads, SameRunQueues, SameWaitQueues
<1> HIDE DEF j
<1>6. Locking(j)
  BY <1>1, <1>3, <1>4, <1>5, SameQueuesAndThreads DEF Locking, SameWaitQueues
<1>7. current # Idle /\ wants[current] = NULL /\ UNCHANGED <<wanted, demoted>>
  BY DEF Lock, Outside
<1> QED
  BY <1>2, <1>6, <1>7, WaitKeeps, TakeKeeps

\* A thread that was woken tries again.
LEMMA LockAgainKeeps ==
  ASSUME MutexInv, LockAgain
  PROVE  MutexInv' /\ (BoostInv => BoostInv')
<1> DEFINE m == wants[current]
<1>1. /\ k \in Kernel /\ current \in Thread
      /\ Sane(k) /\ Consistent(k)
  BY BestRuns DEF MutexInv, Settled
<1>2. m \in Mutex /\ current # Idle
  BY <1>1 DEF MutexInv, Types, LockAgain
<1>3. \A u \in Thread : k.mutex_count[u] \in Nat
  BY <1>1 DEF Kernel
<1>4. \A u \in Thread :
        k.mutex_count[u] = k.mutex_count[u]
                           + IF u = current /\ wants[u] = NULL THEN 1 ELSE 0
  BY <1>3 DEF LockAgain
<1>5. Locking(k)
  BY <1>1, <1>4 DEF Locking, SameThreads
<1>6. TryLock(k, m) /\ UNCHANGED <<wanted, demoted>>
  BY DEF LockAgain
<1> QED
  BY <1>2, <1>5, <1>6, WaitKeeps, TakeKeeps

\* cyg_mutex_unlock takes the first waiter off the queue, relays to it and
\* wakes it: it runs at least at the priority of the thread that releases, if
\* anybody is left on the queue (sched.cxx:638).
LEMMA WokenStep ==
  ASSUME MutexInv, NEW m \in Mutex, k.waitq[m] # <<>>
  PROVE  LET t == Head(k.waitq[m])
             next == set_wake_reason(dequeue(k, m), t, "DONE")
             relayed == IF m \in Inheriting THEN relay_priority(next, t, current, m)
                                            ELSE next
             w == wake(relayed, t)
         IN  /\ t \in Thread /\ k.queue[t] = m
             /\ w \in Kernel /\ Sane(w) /\ Consistent(w) /\ w.current = current
             /\ w.mutex_count = k.mutex_count
             /\ \A u \in Thread : w.queue[u] = IF u = t THEN NULL ELSE k.queue[u]
             /\ \A u \in Thread : w.state[u] = IF u = t THEN RUNNING ELSE k.state[u]
             /\ Gained(k, w, t)
             /\ m \in Inheriting => \/ w.priority[t] <= k.priority[current]
                                    \/ \A u \in Thread : w.queue[u] # m
<1> DEFINE t == Head(k.waitq[m])
           d == dequeue(k, m)
           next == set_wake_reason(d, t, "DONE")
           relayed == IF m \in Inheriting THEN relay_priority(next, t, current, m) ELSE next
           w == wake(relayed, t)
           left == next.waitq[m] # <<>>
<1>1. /\ k \in Kernel /\ current \in Thread /\ m \in WaitQueue /\ m # NULL
      /\ Sane(k) /\ Consistent(k)
  BY BestRuns, MutexAssumption, QueueAssumption DEF MutexInv, Settled
<1>2. /\ t \in Thread /\ On(k.waitq[m], t)
      /\ d \in Kernel
      /\ SameThreads(k, d) /\ SamePriorities(k, d) /\ SameRunQueues(k, d)
      /\ d.queue = [k.queue EXCEPT ![t] = NULL]
      /\ Waiting(k) => Waiting(d)
  BY <1>1, DequeueKeeps
<1> HIDE DEF t, d
<1>3. k.queue[t] = m /\ k.state[t] = {"SLEEPING"}
  <2>1. Waiting(k)
    BY <1>1 DEF Consistent, Scheduled, Queues
  <2>2. k.queue[t] = m
    BY <1>1, <1>2, <2>1 DEF Waiting
  <2> QED
    BY <1>1, <1>2, <2>2 DEF MutexInv, Placed
<1>4. Sane(d) /\ Scheduled(d)
  <2>1. Sane(d)
    BY <1>1, <1>2 DEF Sane, MapAgrees, IdleQueued, SameRunQueues
  <2>2. Runnable(d) = Runnable(k)
    BY <1>2 DEF Runnable, SameThreads
  <2> QED
    BY <1>1, <1>2, <2>1, <2>2
    DEF Consistent, Scheduled, Queues, Queued, Asked, SameRunQueues, SamePriorities, SameThreads
<1>5. /\ next \in Kernel /\ SameQueues(d, next) /\ next.state = d.state
      /\ OnlyAbout(d, next, t) /\ SameCounts(d, next, t)
      /\ next.sleep_reason[t] = "NONE" /\ next.wake_reason[t] = "DONE"
  <2>1. next \in Kernel
    BY <1>2 DEF set_wake_reason, Kernel, Reason
  <2>2. SameQueues(d, next) /\ next.state = d.state
    BY <1>2, <2>1 DEF set_wake_reason, Kernel, SameQueues, SamePriorities, SameRunQueues,
                      SameWaitQueues
  <2>3. OnlyAbout(d, next, t) /\ SameCounts(d, next, t)
    BY <1>2 DEF set_wake_reason, Kernel, OnlyAbout, SameCounts
  <2>4. next.sleep_reason[t] = "NONE" /\ next.wake_reason[t] = "DONE"
    BY <1>2 DEF set_wake_reason, Kernel
  <2> QED
    BY <2>1, <2>2, <2>3, <2>4
<1> HIDE DEF next
<1>6. Sane(next) /\ Scheduled(next)
  BY <1>2, <1>4, <1>5, RecordKeeps
<1>7. next.state[t] = {"SLEEPING"} /\ next.priority = k.priority
  BY <1>2, <1>3, <1>5 DEF SameThreads, SameQueues, SamePriorities
<1>8. /\ relayed \in Kernel /\ SameThreads(next, relayed) /\ relayed.queue = next.queue
      /\ Sane(relayed) /\ Scheduled(relayed)
      /\ relayed.mutex_count = next.mutex_count
      /\ Gained(next, relayed, t)
      /\ m \in Inheriting /\ left => relayed.priority[t] <= k.priority[current]
  <2>1. CASE m \in Inheriting /\ left
    <3> DEFINE pri == next.priority[current]
               s == set_inherited_priority(next, t, pri)
    <3>1. relayed = s
      BY <2>1 DEF relay_priority
    <3>2. pri \in Pri /\ pri = k.priority[current]
      BY <1>1, <1>5, <1>7 DEF Kernel
    <3>3. t # Idle /\ (next.state[t] = RUNNING => next.queue[t] = NULL)
      BY <1>1, <1>2, <1>3, <1>7 DEF MutexInv, Types, Placed, RUNNING
    <3> HIDE DEF pri, relayed
    <3>4. /\ s \in Kernel /\ SameThreads(next, s) /\ s.queue = next.queue
          /\ Sane(next) /\ t # Idle => Sane(s)
          /\ Scheduled(next) => Scheduled(s)
          /\ s.mutex_count = next.mutex_count
          /\ Gained(next, s, t) /\ s.priority[t] <= pri
      BY <1>2, <1>5, <3>2, <3>3, InheritedGained
    <3> HIDE DEF s
    <3> QED
      BY <1>6, <3>1, <3>2, <3>3, <3>4
  <2>2. CASE ~(m \in Inheriting /\ left)
    <3>1. relayed = next /\ SameThreads(next, next) /\ SamePriorities(next, next)
      BY <2>2 DEF relay_priority, SameThreads, SamePriorities
    <3> HIDE DEF relayed
    <3> QED
      BY <1>5, <1>6, <2>2, <3>1, GainedSelf
  <2> QED
    BY <2>1, <2>2
<1> HIDE DEF relayed
<1>9. /\ w \in Kernel /\ OnlyAbout(relayed, w, t) /\ SamePriorities(relayed, w)
      /\ Sane(relayed) => Sane(w)
      /\ Scheduled(relayed) => Scheduled(w)
      /\ w.state[t] = relayed.state[t] \ SLEEPSET
      /\ SameReasons(relayed, w, t) /\ SameCounts(relayed, w, t)
      /\ w.queue[t] = IF relayed.state[t] \cap SLEEPSET = {} THEN relayed.queue[t] ELSE NULL
  BY <1>2, <1>8, WakeKeeps
<1> HIDE DEF w
<1>10. relayed.state[t] = {"SLEEPING"}
  BY <1>7, <1>8 DEF SameThreads
<1>11. w.state[t] = RUNNING /\ w.queue[t] = NULL
  BY <1>9, <1>10 DEF SLEEPSET, RUNNING
<1>12. OnlyAbout(k, w, t)
  <2>1. OnlyAbout(k, d, t)
    BY <1>1, <1>2 DEF OnlyAbout, SameThreads, Kernel
  <2>2. OnlyAbout(next, relayed, t)
    BY <1>8 DEF OnlyAbout, SameThreads
  <2> QED
    BY <1>5, <1>9, <2>1, <2>2 DEF OnlyAbout
<1>13. Consistent(w)
  <2>1. \A u \in Thread \ {t} : Bits(w, u) /\ Reasons(w, u)
    BY <1>1, <1>12 DEF Consistent, Bits, Reasons, OnlyAbout
  <2>2. Bits(k, t)
    BY <1>1, <1>2 DEF Consistent
  <2>3. w.suspend_count[t] = k.suspend_count[t]
    BY <1>2, <1>5, <1>8, <1>9 DEF SameThreads, SameCounts
  <2>4. ~(w.suspend_count[t] > 0)
    BY <1>3, <2>2, <2>3 DEF Bits
  <2>5. Bits(w, t)
    BY <1>11, <2>4 DEF Bits, RUNNING
  <2>6. Reasons(w, t)
    BY <1>5, <1>8, <1>9, <1>11 DEF Reasons, SameThreads, SameReasons, RUNNING
  <2> QED
    BY <1>8, <1>9, <2>1, <2>5, <2>6 DEF Consistent
<1>14. Gained(k, w, t)
  <2>1. SamePriorities(k, next)
    BY <1>2, <1>5 DEF SamePriorities, SameQueues
  <2> QED
    BY <1>8, <1>9, <2>1, GainedPriorities
<1>15. /\ \A u \in Thread : w.queue[u] = IF u = t THEN NULL ELSE k.queue[u]
       /\ \A u \in Thread : w.state[u] = IF u = t THEN RUNNING ELSE k.state[u]
  BY <1>11, <1>12 DEF OnlyAbout
<1>16. w.mutex_count = k.mutex_count /\ w.current = current
  BY <1>2, <1>5, <1>8, <1>9, <1>12 DEF SamePriorities, SameQueues, OnlyAbout
<1>17. m \in Inheriting => \/ w.priority[t] <= k.priority[current]
                           \/ \A u \in Thread : w.queue[u] # m
  <2>1. CASE left
    BY <1>8, <1>9, <2>1 DEF SamePriorities
  <2>2. CASE ~left
    <3>1. \A u \in Thread : ~On(next.waitq[m], u)
      BY <2>2 DEF On
    <3>2. \A u \in Thread : next.queue[u] # m
      BY <1>1, <1>6, <3>1 DEF Scheduled, Queues, Waiting
    <3>3. \A u \in Thread \ {t} : w.queue[u] = next.queue[u]
      BY <1>8, <1>9 DEF OnlyAbout
    <3> QED
      BY <1>1, <1>11, <3>2, <3>3
  <2> QED
    BY <2>1, <2>2
<1> QED
  BY <1>2, <1>3, <1>8, <1>9, <1>13, <1>14, <1>15, <1>16, <1>17 DEF t, d, next, relayed, w

\* What the wakeup of an unlock does, if there is one, to the threads that wait
\* for m.
Released(w, m) ==
  /\ w \in Kernel /\ Sane(w) /\ Consistent(w) /\ w.current = current
  /\ w.mutex_count = k.mutex_count
  /\ \A u \in Thread :
       /\ \/ w.queue[u] = k.queue[u] /\ w.state[u] = k.state[u]
          \/ k.queue[u] = m /\ w.queue[u] = NULL /\ w.state[u] = RUNNING
       /\ w.priority[u] <= k.priority[u]
       /\ Own(w, u) = Own(k, u)
       /\ Sound(k, u) => Sound(w, u)
       /\ u \in w.priority_inherited => k.queue[u] = m \/ u \in k.priority_inherited
  /\ m \in Inheriting =>
       \/ \A u \in Thread : w.queue[u] # m
       \/ \E v \in Thread : /\ k.queue[v] = m /\ w.queue[v] = NULL
                            /\ w.priority[v] <= k.priority[current]

\* What unlock makes of the first waiter, if there is one.
LEMMA ReleaseStep ==
  ASSUME MutexInv, NEW m \in Mutex
  PROVE  LET t == Head(k.waitq[m])
             next == set_wake_reason(dequeue(k, m), t, "DONE")
             relayed == IF m \in Inheriting THEN relay_priority(next, t, current, m)
                                            ELSE next
             woken == IF k.waitq[m] = <<>> THEN k ELSE wake(relayed, t)
         IN  Released(woken, m)
<1> DEFINE t == Head(k.waitq[m])
           next == set_wake_reason(dequeue(k, m), t, "DONE")
           relayed == IF m \in Inheriting THEN relay_priority(next, t, current, m) ELSE next
           w == wake(relayed, t)
           woken == IF k.waitq[m] = <<>> THEN k ELSE w
<1>1. /\ k \in Kernel /\ current \in Thread /\ m \in WaitQueue
      /\ Sane(k) /\ Consistent(k)
  BY BestRuns, MutexAssumption DEF MutexInv, Settled
<1>2. CASE k.waitq[m] # <<>>
  <2>1. /\ t \in Thread /\ k.queue[t] = m
        /\ w \in Kernel /\ Sane(w) /\ Consistent(w) /\ w.current = current
        /\ w.mutex_count = k.mutex_count
        /\ \A u \in Thread : w.queue[u] = IF u = t THEN NULL ELSE k.queue[u]
        /\ \A u \in Thread : w.state[u] = IF u = t THEN RUNNING ELSE k.state[u]
        /\ Gained(k, w, t)
        /\ m \in Inheriting => \/ w.priority[t] <= k.priority[current]
                               \/ \A u \in Thread : w.queue[u] # m
    BY <1>2, WokenStep
  <2>2. woken = w
    BY <1>2
  <2> HIDE DEF w, t, woken
  <2>3. Released(w, m)
    BY <2>1 DEF Released, Gained
  <2> QED
    BY <2>2, <2>3 DEF woken, w, relayed, next, t
<1>3. CASE k.waitq[m] = <<>>
  <2>1. \A u \in Thread : ~On(k.waitq[m], u)
    BY <1>3 DEF On
  <2>2. \A u \in Thread : k.queue[u] # m
    BY <1>1, <2>1 DEF Consistent, Scheduled, Queues, Waiting
  <2>3. \A u \in Thread : k.priority[u] <= k.priority[u]
    BY <1>1 DEF Kernel, Pri
  <2>4. Released(k, m)
    BY <1>1, <2>2, <2>3 DEF Released
  <2> QED
    BY <1>3, <2>4
<1> QED
  BY <1>2, <1>3

\* What clear_inherited_priority (sched.cxx:644) does: a thread that counts a
\* mutex keeps what it inherited, and no thread loses its own priority.
LEMMA ClearedKeeps ==
  ASSUME NEW j \in Kernel, NEW t \in Thread, Sound(j, t),
         j.state[t] = RUNNING => j.queue[t] = NULL
  PROVE  LET r == clear_inherited_priority(j, t)
         IN  /\ r \in Kernel /\ SameThreads(j, r) /\ r.queue = j.queue
             /\ Sane(j) /\ t # Idle => Sane(r)
             /\ Scheduled(j) => Scheduled(r)
             /\ r.mutex_count = j.mutex_count
             /\ \A u \in Thread :
                  /\ u # t \/ j.mutex_count[t] > 0 => r.priority[u] <= j.priority[u]
                  /\ Own(r, u) = Own(j, u)
                  /\ Sound(j, u) => Sound(r, u)
                  /\ u \in r.priority_inherited =>
                       u \in j.priority_inherited /\ (u # t \/ j.mutex_count[t] > 0)
<1> DEFINE r == clear_inherited_priority(j, t)
           held == j.mutex_count[t] > 0 \/ t \notin j.priority_inherited
           own == j.original_priority[t]
<1>1. /\ r \in Kernel /\ SameThreads(j, r) /\ r.queue = j.queue
      /\ Sane(j) /\ t # Idle => Sane(r)
      /\ Scheduled(j) => Scheduled(r)
      /\ r.mutex_count = j.mutex_count
      /\ r.original_priority = j.original_priority
      /\ r.priority_inherited = IF held THEN j.priority_inherited
                                ELSE j.priority_inherited \ {t}
      /\ r.priority = IF held \/ j.priority[t] >= own THEN j.priority
                      ELSE [j.priority EXCEPT ![t] = own]
  BY ClearInheritedKeeps
<1>2. /\ j.priority \in [Thread -> Pri]
      /\ \A u \in Thread : j.priority[u] \in Nat /\ j.original_priority[u] \in Nat
  BY DEF Kernel, Pri
<1>3. \A u \in Thread : j.priority[u] <= j.priority[u]
  BY <1>2
<1> HIDE DEF r
<1>4. ASSUME NEW u \in Thread
      PROVE  /\ u # t \/ j.mutex_count[t] > 0 => r.priority[u] <= j.priority[u]
             /\ Own(r, u) = Own(j, u)
             /\ Sound(j, u) => Sound(r, u)
             /\ u \in r.priority_inherited =>
                  u \in j.priority_inherited /\ (u # t \/ j.mutex_count[t] > 0)
  <2>1. CASE held
    BY <1>1, <1>3, <2>1 DEF Own, Sound
  <2>2. CASE ~held /\ u # t
    <3>1. r.priority[u] = j.priority[u]
      BY <1>1, <1>2, <2>2
    <3> QED
      BY <1>1, <1>3, <2>2, <3>1 DEF Own, Sound
  <2>3. CASE ~held /\ u = t
    <3>1. r.priority[t] = own
      <4>1. CASE j.priority[t] >= own
        <5>1. j.priority[t] <= own
          BY <2>3 DEF Sound
        <5> QED
          BY <1>1, <1>2, <4>1, <5>1
      <4>2. CASE ~(j.priority[t] >= own)
        BY <1>1, <1>2, <2>3, <4>2
      <4> QED
        BY <4>1, <4>2
    <3> QED
      BY <1>1, <2>3, <3>1 DEF Own, Sound
  <2> QED
    BY <2>1, <2>2, <2>3
<1> QED
  BY <1>1, <1>4 DEF r

\* An unlock releases the mutex, wakes a waiter and ends the inheritance of a
\* thread that counts no other mutex.
LEMMA UnlockStep ==
  ASSUME MutexInv, NEW m \in Mutex, Unlock(m)
  PROVE  \E w : /\ Released(w, m)
                /\ Settled' /\ k' \in Kernel
                /\ k'.state = w.state /\ k'.queue = w.queue
                /\ \A u \in Thread :
                     /\ k'.mutex_count[u] = IF u = current THEN k.mutex_count[u] - 1
                                                           ELSE k.mutex_count[u]
                     /\ u # current \/ k'.mutex_count[u] > 0 =>
                          k'.priority[u] <= w.priority[u]
                     /\ Own(k', u) = Own(w, u)
                     /\ Sound(w, u) => Sound(k', u)
                     /\ u \in k'.priority_inherited =>
                          /\ u \in w.priority_inherited
                          /\ u # current \/ k'.mutex_count[u] > 0
<1> DEFINE t == Head(k.waitq[m])
           next == set_wake_reason(dequeue(k, m), t, "DONE")
           relayed == IF m \in Inheriting THEN relay_priority(next, t, current, m) ELSE next
           w == IF k.waitq[m] = <<>> THEN k ELSE wake(relayed, t)
           n == w.mutex_count[current] - 1
           counts == [w.mutex_count EXCEPT ![current] = n]
           j == [w EXCEPT !.mutex_count = counts]
           r == clear_inherited_priority(j, current)
<1>1. Released(w, m)
  BY ReleaseStep
<1>2. k' = Switch(clear_inherited_priority([w EXCEPT !.mutex_count[current] = @ - 1], current))
  BY DEF Unlock
<1> HIDE DEF w, t, next, relayed
<1>3. /\ w \in Kernel /\ Sane(w) /\ Consistent(w) /\ w.current = current
      /\ w.mutex_count = k.mutex_count
  BY <1>1 DEF Released
<1>4. /\ k \in Kernel /\ current \in Thread /\ current # Idle
      /\ owner[m] = current /\ current # NULL
  BY BestRuns, MutexAssumption DEF MutexInv, Unlock, Holds, Outside
<1>5. k' = Switch(r)
  BY <1>2, <1>3 DEF Kernel
<1>6. w.mutex_count \in [Thread -> Nat] /\ w.mutex_count[current] > 0
  BY <1>3, <1>4, OwnersCount DEF Kernel
<1>7. n \in Nat
  BY <1>4, <1>6
<1>8. /\ counts \in [Thread -> Nat]
      /\ \A u \in Thread : counts[u] = IF u = current THEN k.mutex_count[u] - 1
                                                      ELSE k.mutex_count[u]
  BY <1>3, <1>4, <1>6, <1>7
<1> HIDE DEF counts, n
<1>9. j \in Kernel
  BY <1>3, <1>8 DEF Kernel
<1>10. /\ SameThreads(w, j) /\ SameRunQueues(w, j) /\ SameWaitQueues(w, j)
       /\ j.priority = w.priority /\ j.original_priority = w.original_priority
       /\ j.priority_inherited = w.priority_inherited /\ j.mutex_count = counts
  BY <1>3 DEF Kernel, SameThreads, SameRunQueues, SameWaitQueues
<1> HIDE DEF j
<1>11. Sane(j) /\ Consistent(j)
  BY <1>3, <1>9, <1>10, SameQueuesAndThreads
<1>12. Sound(j, current) /\ (j.state[current] = RUNNING => j.queue[current] = NULL)
  <2>1. Sound(w, current)
    BY <1>1, <1>4 DEF Released, MutexInv, Based
  <2>2. Bits(j, current)
    BY <1>4, <1>11 DEF Consistent
  <2> QED
    BY <1>10, <2>1, <2>2 DEF Sound, Bits, RUNNING
<1>13. /\ r \in Kernel /\ SameThreads(j, r) /\ r.queue = j.queue
       /\ Sane(j) /\ current # Idle => Sane(r)
       /\ Scheduled(j) => Scheduled(r)
       /\ r.mutex_count = j.mutex_count
       /\ \A u \in Thread :
            /\ u # current \/ j.mutex_count[current] > 0 => r.priority[u] <= j.priority[u]
            /\ Own(r, u) = Own(j, u)
            /\ Sound(j, u) => Sound(r, u)
            /\ u \in r.priority_inherited =>
                 u \in j.priority_inherited /\ (u # current \/ j.mutex_count[current] > 0)
  BY <1>4, <1>9, <1>12, ClearedKeeps
<1> HIDE DEF r
<1>14. Sane(r) /\ Consistent(r) /\ r.current = current
  BY <1>3, <1>4, <1>10, <1>11, <1>13, StillConsistent DEF SameThreads
<1>15. /\ Settled' /\ k' \in Kernel
       /\ k'.state = r.state /\ k'.queue = r.queue /\ SamePriorities(r, k')
  BY <1>5, <1>14, SwitchSettles
<1>16. k'.state = w.state /\ k'.queue = w.queue
  BY <1>10, <1>13, <1>15 DEF SameThreads, SameWaitQueues
<1>17. ASSUME NEW u \in Thread
       PROVE  /\ k'.mutex_count[u] = IF u = current THEN k.mutex_count[u] - 1
                                                    ELSE k.mutex_count[u]
              /\ u # current \/ k'.mutex_count[u] > 0 => k'.priority[u] <= w.priority[u]
              /\ Own(k', u) = Own(w, u)
              /\ Sound(w, u) => Sound(k', u)
              /\ u \in k'.priority_inherited =>
                   u \in w.priority_inherited /\ (u # current \/ k'.mutex_count[u] > 0)
  <2>1. k'.mutex_count = counts /\ j.mutex_count = counts
    BY <1>10, <1>13, <1>15 DEF SamePriorities
  <2>2. /\ k'.priority = r.priority /\ k'.original_priority = r.original_priority
        /\ k'.priority_inherited = r.priority_inherited
    BY <1>15 DEF SamePriorities
  <2>3. Own(k', u) = Own(w, u) /\ (Sound(w, u) => Sound(k', u))
    <3>1. Own(k', u) = Own(r, u) /\ (Sound(r, u) => Sound(k', u))
      BY <2>2 DEF Own, Sound
    <3>2. Own(w, u) = Own(j, u) /\ (Sound(w, u) => Sound(j, u))
      BY <1>10 DEF Own, Sound
    <3> QED
      BY <1>13, <3>1, <3>2
  <2> QED
    BY <1>8, <1>10, <1>13, <2>1, <2>2, <2>3
<1> QED
  BY <1>1, <1>15, <1>16, <1>17

\* What an unlock keeps: the waiter it wakes runs at least at the priority the
\* owner had.
LEMMA UnlockKeeps ==
  ASSUME MutexInv, NEW m \in Mutex, Unlock(m)
  PROVE  MutexInv' /\ (BoostInv => BoostInv')
<1> DEFINE t == current
<1>1. PICK w : /\ Released(w, m)
               /\ Settled' /\ k' \in Kernel
               /\ k'.state = w.state /\ k'.queue = w.queue
               /\ \A u \in Thread :
                    /\ k'.mutex_count[u] = IF u = t THEN k.mutex_count[u] - 1
                                                    ELSE k.mutex_count[u]
                    /\ u # t \/ k'.mutex_count[u] > 0 => k'.priority[u] <= w.priority[u]
                    /\ Own(k', u) = Own(w, u)
                    /\ Sound(w, u) => Sound(k', u)
                    /\ u \in k'.priority_inherited =>
                         /\ u \in w.priority_inherited
                         /\ u # t \/ k'.mutex_count[u] > 0
  BY UnlockStep
<1>2. /\ owner' = [owner EXCEPT ![m] = NULL]
      /\ wants' = wants /\ wanted' = wanted /\ bid' = bid /\ demoted' = demoted
  BY DEF Unlock
<1>3. /\ k \in Kernel /\ w \in Kernel /\ t \in Thread /\ k.queue[t] = NULL
      /\ owner[m] = t /\ wants[t] = NULL
      /\ NULL \notin Mutex /\ NULL \notin Thread
  BY <1>1, BestRuns, QueueAssumption, MutexAssumption
     DEF MutexInv, Unlock, Holds, Outside, Released
<1>4. \A u \in Thread : k.priority[u] \in Nat /\ w.priority[u] \in Nat /\ k'.priority[u] \in Nat
  BY <1>1, <1>3 DEF Kernel, Pri
<1>5. /\ \A n \in Mutex : owner'[n] = IF n = m THEN NULL ELSE owner[n]
      /\ Types'
  BY <1>2 DEF MutexInv, Types
<1>6. \A u \in Thread : /\ k.mutex_count[u] \in Nat /\ k'.mutex_count[u] \in Nat
                        /\ wants[u] # NULL => k.mutex_count[u] > 0
  <2>1. \A u \in Thread : k.mutex_count[u] \in Nat /\ k'.mutex_count[u] \in Nat
    BY <1>1, <1>3 DEF Kernel
  <2>2. ASSUME NEW u \in Thread, wants[u] # NULL
        PROVE  k.mutex_count[u] > 0
    <3>1. k.mutex_count[u] = Cardinality(Owned(u)) + 1 /\ Cardinality(Owned(u)) \in Nat
      BY <2>2, OwnersCount DEF MutexInv, Counted
    <3> QED
      BY <3>1
  <2> QED
    BY <2>1, <2>2
<1> HIDE DEF t
<1>7. ASSUME NEW u \in Thread
      PROVE  Counted(u)'
  <2> DEFINE n == Cardinality(Owned(u))
  <2>1. n \in Nat /\ IsFiniteSet(Owned(u))
    BY OwnersCount
  <2>2. k.mutex_count[u] = n + IF wants[u] = NULL THEN 0 ELSE 1
    BY DEF MutexInv, Counted
  <2>3. CASE u = t
    <3>1. Owned(u)' = Owned(u) \ {m} /\ m \in Owned(u)
      BY <1>3, <1>5, <2>3 DEF Owned
    <3>2. Cardinality(Owned(u))' = n - 1
      BY <2>1, <3>1, FS_RemoveElement
    <3> HIDE DEF n
    <3>3. k'.mutex_count[u] = n - 1 /\ n > 0
      BY <1>1, <1>3, <1>6, <2>1, <2>2, <2>3
    <3> QED
      BY <1>2, <1>3, <2>1, <2>3, <3>2, <3>3 DEF Counted
  <2>4. CASE u # t
    <3>1. Owned(u)' = Owned(u)
      BY <1>3, <1>5, <2>4 DEF Owned
    <3> QED
      BY <1>1, <1>2, <2>2, <2>4, <3>1 DEF Counted
  <2> QED
    BY <2>3, <2>4
<1>8. ASSUME NEW u \in Thread
      PROVE  Placed(u)' /\ Based(u)'
  <2>1. Placed(u) /\ Based(u)
    BY DEF MutexInv
  <2>2. \/ k'.queue[u] = k.queue[u] /\ k'.state[u] = k.state[u]
        \/ k.queue[u] = m /\ k'.queue[u] = NULL /\ k'.state[u] = RUNNING
    BY <1>1 DEF Released
  <2>3. Placed(u)'
    BY <1>2, <2>1, <2>2 DEF Placed
  <2>4. u \in w.priority_inherited => k.mutex_count[u] > 0
    <3>1. k.queue[u] = m => wants[u] # NULL
      BY <1>3, <2>1 DEF Placed
    <3> QED
      BY <1>1, <1>6, <2>1, <3>1 DEF Released, Based
  <2>5. u \in k'.priority_inherited => k'.mutex_count[u] > 0
    BY <1>1, <2>4
  <2>6. Own(k', u) = Own(k, u) /\ Sound(k', u)
    BY <1>1, <2>1 DEF Released, Based
  <2>7. Based(u)'
    <3>1. wanted'[u] = Own(k', u)
      BY <1>2, <2>1, <2>6 DEF Based
    <3> QED
      BY <2>5, <2>6, <3>1 DEF Based, Own, Sound
  <2> QED
    BY <2>3, <2>7
<1>9. ASSUME NEW u \in Thread, u # t \/ k'.mutex_count[u] > 0
      PROVE  k'.priority[u] <= w.priority[u] /\ k'.priority[u] <= k.priority[u]
  <2>1. k'.priority[u] <= w.priority[u] /\ w.priority[u] <= k.priority[u]
    BY <1>1, <1>9 DEF Released
  <2> QED
    BY <1>4, <2>1
\* A thread that owns another mutex keeps what it inherited.
<1>10. ASSUME NEW n \in Mutex, n # m, NEW u \in Thread, owner[n] = u \/ wants[u] = n
       PROVE  k'.priority[u] <= k.priority[u]
  <2>1. CASE u # t
    BY <1>9, <2>1
  <2>2. CASE u = t
    <3>1. owner'[n] = t
      BY <1>3, <1>5, <1>10, <2>2
    <3>2. k'.mutex_count[t] > 0
      <4>1. n \in Owned(u)'
        BY <2>2, <3>1 DEF Owned
      <4>2. IsFiniteSet(Owned(u)') /\ Cardinality(Owned(u)') \in Nat
        <5>1. Owned(u)' \subseteq Mutex
          BY DEF Owned
        <5> QED
          BY <5>1, FiniteAssumption, FS_Subset, FS_CardinalityType
      <4>3. Cardinality(Owned(u)') # 0
        BY <4>1, <4>2, FS_EmptySet
      <4>4. k'.mutex_count[u] = Cardinality(Owned(u)') + IF wants'[u] = NULL THEN 0 ELSE 1
        BY <1>7 DEF Counted
      <4>5. wants'[u] = NULL
        BY <1>2, <1>3, <2>2
      <4> QED
        BY <2>2, <4>2, <4>3, <4>4, <4>5
    <3> QED
      BY <1>9, <2>2, <3>2
  <2> QED
    BY <2>1, <2>2
<1>11. ASSUME BoostInv, ~demoted'
       PROVE  /\ \A n \in Inheriting : Led(n)'
              /\ \A n \in DOMAIN Ceiling :
                   owner'[n] # NULL => k'.priority[owner'[n]] <= Ceiling[n]
  <2>1. ~demoted
    BY <1>2, <1>11
  <2>2. ASSUME NEW n \in Inheriting
        PROVE  Led(n)'
    <3>1. n \in Mutex /\ Led(n)
      BY <1>11, <2>1, <2>2 DEF BoostInv, Inheriting
    <3>2. CASE n = m
      <4>1. Leads(t, m) /\ owner'[m] = NULL
        BY <1>3, <1>5, <3>1, <3>2 DEF Led
      <4>2. CASE \A u \in Thread : w.queue[u] # m
        <5>1. \A u \in Thread : k'.queue[u] # m
          BY <1>1, <4>2
        <5> QED
          BY <3>2, <4>1, <5>1 DEF Led
      <4>3. ASSUME NEW v \in Thread, k.queue[v] = m, w.queue[v] = NULL,
                   w.priority[v] <= k.priority[t]
            PROVE  Led(n)'
        <5>1. wants[v] = m /\ v \in AppThread /\ v # t
          BY <1>3, <4>3 DEF MutexInv, Placed, Types, AppThread
        <5>2. ASSUME NEW u \in Thread, k'.queue[u] = m
              PROVE  k'.priority[v] <= bid'[u]
          <6>1. k.queue[u] = m
            BY <1>1, <1>3, <5>2 DEF Released
          <6>2. k.priority[t] <= bid[u] /\ bid[u] \in Nat
            BY <4>1, <6>1 DEF Leads, MutexInv, Types, Pri
          <6>3. k'.priority[v] <= w.priority[v]
            BY <1>9, <5>1
          <6> QED
            BY <1>2, <1>3, <1>4, <4>3, <6>2, <6>3
        <5>3. wants'[v] = m /\ k'.queue[v] = NULL
          BY <1>1, <1>2, <4>3, <5>1
        <5> QED
          BY <3>2, <4>1, <5>1, <5>2, <5>3 DEF Led, Leads
      <4> QED
        BY <1>1, <2>2, <3>2, <4>2, <4>3 DEF Released, t
    <3>3. CASE n # m
      <4>1. \A u \in Thread : k'.queue[u] = n => k.queue[u] = n /\ bid'[u] = bid[u]
        BY <1>1, <1>2, <1>3, <3>1 DEF Released
      <4>2. \A u \in Thread : owner[n] = u \/ wants[u] = n => k'.priority[u] <= k.priority[u]
        BY <1>10, <3>1, <3>3
      <4>3. \A u \in Thread : wants[u] = n /\ k.queue[u] = NULL
                               => wants'[u] = n /\ k'.queue[u] = NULL
        BY <1>1, <1>2 DEF Released
      <4>4. owner'[n] = owner[n]
        BY <1>5, <3>1, <3>3
      <4> QED
        BY <1>1, <3>1, <4>1, <4>2, <4>3, <4>4, LedKept
    <3> QED
      BY <3>2, <3>3
  <2>3. ASSUME NEW n \in DOMAIN Ceiling, owner'[n] # NULL
        PROVE  k'.priority[owner'[n]] <= Ceiling[n]
    <3>1. n \in Mutex /\ n # m
      BY <1>5, <2>3, CeilingAssumption
    <3>2. owner'[n] = owner[n]
      BY <1>5, <3>1
    <3>3. owner[n] # NULL /\ owner[n] \in Thread /\ k.priority[owner[n]] <= Ceiling[n]
      BY <1>11, <2>1, <2>3, <3>1, <3>2 DEF BoostInv, MutexInv, Types, AppThread
    <3>4. k'.priority[owner[n]] <= k.priority[owner[n]]
      BY <1>10, <3>1, <3>3
    <3> QED
      BY <1>1, <3>2, <3>3, <3>4, CeilingKept
  <2> QED
    BY <2>2, <2>3
<1>12. MutexInv'
  BY <1>1, <1>5, <1>7, <1>8 DEF MutexInv
<1> QED
  BY <1>11, <1>12 DEF BoostInv

\* A step that touches no mutex and no wait queue, and gives a worse priority to
\* a thread that counts a mutex only if that is recorded.
LEMMA QuietKeeps ==
  ASSUME MutexInv, Settled', k' \in Kernel, UNCHANGED <<owner, wants, bid>>,
         k'.queue = k.queue, k'.mutex_count = k.mutex_count,
         \A u \in Thread : wants[u] # NULL => k'.state[u] = k.state[u],
         wanted' \in [Thread -> Pri], demoted' \in BOOLEAN, demoted => demoted',
         \A u \in Thread : Based(u)',
         ~demoted' => \A u \in Thread :
                        k.mutex_count[u] > 0 => k'.priority[u] <= k.priority[u]
  PROVE  MutexInv' /\ (BoostInv => BoostInv')
<1>1. Types'
  BY DEF MutexInv, Types
<1>2. ASSUME NEW u \in Thread
      PROVE  Placed(u)' /\ Counted(u)'
  <2>1. Placed(u)'
    BY DEF MutexInv, Placed
  <2>2. Owned(u)' = Owned(u)
    BY DEF Owned
  <2> QED
    BY <2>1, <2>2 DEF MutexInv, Counted
<1>3. MutexInv'
  BY <1>1, <1>2 DEF MutexInv
<1>4. ASSUME NEW n \in Mutex, NEW u \in Thread, owner[n] = u \/ wants[u] = n, ~demoted'
      PROVE  k'.priority[u] <= k.priority[u]
  <2>1. NULL \notin Thread /\ NULL \notin Mutex
    BY MutexAssumption, QueueAssumption
  <2>2. CASE owner[n] = u
    BY <1>4, <2>1, <2>2, OwnersCount
  <2>3. CASE wants[u] = n
    <3>1. k.mutex_count[u] = Cardinality(Owned(u)) + 1 /\ Cardinality(Owned(u)) \in Nat
      BY <2>1, <2>3, OwnersCount DEF MutexInv, Counted
    <3>2. k.mutex_count[u] > 0
      BY <3>1
    <3> QED
      BY <1>4, <3>2
  <2> QED
    BY <1>4, <2>2, <2>3
<1>5. ASSUME BoostInv, ~demoted'
      PROVE  /\ \A n \in Inheriting : Led(n)'
             /\ \A n \in DOMAIN Ceiling :
                  owner'[n] # NULL => k'.priority[owner'[n]] <= Ceiling[n]
  <2>1. ~demoted
    BY <1>5
  <2>2. ASSUME NEW n \in Inheriting
        PROVE  Led(n)'
    <3>1. n \in Mutex /\ Led(n)
      BY <1>5, <2>1, <2>2 DEF BoostInv, Inheriting
    <3>2. \A u \in Thread : owner[n] = u \/ wants[u] = n => k'.priority[u] <= k.priority[u]
      BY <1>4, <1>5, <3>1
    <3> QED
      BY <3>1, <3>2, LedKept
  <2>3. ASSUME NEW n \in DOMAIN Ceiling, owner'[n] # NULL
        PROVE  k'.priority[owner'[n]] <= Ceiling[n]
    <3>1. n \in Mutex
      BY CeilingAssumption
    <3>2. owner[n] # NULL /\ owner[n] \in Thread /\ k.priority[owner[n]] <= Ceiling[n]
      BY <1>5, <2>1, <2>3, <3>1 DEF BoostInv, MutexInv, Types, AppThread
    <3>3. k'.priority[owner[n]] <= k.priority[owner[n]]
      BY <1>4, <1>5, <3>1, <3>2
    <3> QED
      BY <3>2, <3>3, CeilingKept
  <2> QED
    BY <2>2, <2>3
<1> QED
  BY <1>3, <1>5 DEF BoostInv

\* One that leaves the priorities alone too.
LEMMA SamePrioritiesKeeps ==
  ASSUME MutexInv, Settled', k' \in Kernel, SamePriorities(k, k'),
         UNCHANGED <<owner, wants, wanted, bid, demoted>>, k'.queue = k.queue,
         \A u \in Thread : wants[u] # NULL => k'.state[u] = k.state[u]
  PROVE  MutexInv' /\ (BoostInv => BoostInv')
<1>1. \A u \in Thread : Based(u)'
  BY DEF MutexInv, Based, Own, Sound, SamePriorities
<1>2. \A u \in Thread : k'.priority[u] <= k.priority[u]
  BY BestRuns DEF MutexInv, Kernel, Pri, SamePriorities
<1>3. wanted' \in [Thread -> Pri] /\ demoted' \in BOOLEAN
  BY DEF MutexInv, Types
<1> QED
  BY <1>1, <1>2, <1>3, QuietKeeps DEF SamePriorities

\* The current thread sleeps, or uses up a wakeup.
LEMMA SleepStepKeeps ==
  ASSUME MutexInv, Sleep
  PROVE  MutexInv' /\ (BoostInv => BoostInv')
<1> DEFINE r == counted_sleep(k)
<1>1. /\ k \in Kernel /\ current \in Thread /\ current # Idle /\ wants[current] = NULL
      /\ Sane(k) /\ Consistent(k) /\ k.state[current] = RUNNING
  BY BestRuns DEF MutexInv, Settled, Sleep, Outside
<1>2. Blocked(k, r) /\ r.queue = k.queue
  BY <1>1, CountedSleepBlocks
<1>3. k' = Switch(r) /\ UNCHANGED <<owner, wants, wanted, bid, demoted>>
  BY DEF Sleep
<1> HIDE DEF r
<1>4. /\ r \in Kernel /\ Sane(r) /\ Consistent(r) /\ SamePriorities(k, r)
      /\ OnlyAbout(k, r, current) /\ r.current = current
  BY <1>1, <1>2 DEF Blocked, OnlyAbout
<1>5. /\ Settled' /\ k' \in Kernel
      /\ k'.state = r.state /\ k'.queue = r.queue /\ SamePriorities(r, k')
  BY <1>3, <1>4, SwitchSettles
<1>6. SamePriorities(k, k') /\ k'.queue = k.queue
  BY <1>2, <1>4, <1>5 DEF SamePriorities
<1>7. \A u \in Thread : wants[u] # NULL => k'.state[u] = k.state[u]
  BY <1>1, <1>4, <1>5 DEF OnlyAbout
<1> QED
  BY <1>3, <1>5, <1>6, <1>7, SamePrioritiesKeeps

\* A wakeup ends a counted sleep: a thread on the queue of a mutex has none.
LEMMA WakeupKeeps ==
  ASSUME MutexInv, NEW t \in AppThread, Wakeup(t)
  PROVE  MutexInv' /\ (BoostInv => BoostInv')
<1> DEFINE r == counted_wake(k, t)
<1>1. /\ k \in Kernel /\ current \in Thread /\ t \in Thread /\ t # Idle
      /\ Sane(k) /\ Consistent(k)
  BY BestRuns DEF MutexInv, Settled, AppThread
<1>2. "COUNTSLEEP" \in k.state[t]
  BY DEF Wakeup, Sleeps
<1>3. wants[t] = NULL /\ k.queue[t] = NULL
  BY <1>1, <1>2 DEF MutexInv, Placed, RUNNING
<1>4. r = WakeFor(k, t, "DONE")
  BY <1>2 DEF counted_wake, WakeFor
<1> HIDE DEF r
<1>5. Called(k, r, t)
  BY <1>1, CountedWakeCalled DEF r
<1>6. /\ OnlyAbout(k, r, t) /\ SamePriorities(k, r)
      /\ r.queue[t] = IF k.state[t] \cap SLEEPSET = {} THEN k.queue[t] ELSE NULL
  <2>1. "DONE" \in Reason
    BY DEF Reason
  <2> QED
    BY <1>1, <1>4, <2>1, WakeForKeeps
<1>7. k' = Switch(r) /\ UNCHANGED <<owner, wants, wanted, bid, demoted>>
  BY DEF Wakeup, r
<1>8. /\ r \in Kernel /\ Sane(r) /\ Consistent(r) /\ r.current = current
  BY <1>1, <1>5 DEF Called, OnlyAbout
<1>9. r.queue = k.queue
  <2>1. \A u \in Thread : r.queue[u] = k.queue[u]
    BY <1>3, <1>6 DEF OnlyAbout
  <2> QED
    BY <1>1, <1>8, <2>1 DEF Kernel
<1>10. /\ Settled' /\ k' \in Kernel
       /\ k'.state = r.state /\ k'.queue = r.queue /\ SamePriorities(r, k')
  BY <1>7, <1>8, SwitchSettles
<1>11. SamePriorities(k, k') /\ k'.queue = k.queue
  BY <1>6, <1>9, <1>10 DEF SamePriorities
<1>12. \A u \in Thread : wants[u] # NULL => k'.state[u] = k.state[u]
  BY <1>3, <1>6, <1>10 DEF OnlyAbout
<1> QED
  BY <1>7, <1>10, <1>11, <1>12, SamePrioritiesKeeps

\* A tick turns a run queue at most.
LEMMA TickKeeps ==
  ASSUME MutexInv, Tick
  PROVE  MutexInv' /\ (BoostInv => BoostInv')
<1> DEFINE r == timeslice(k)
<1>1. k \in Kernel /\ current \in Thread /\ Sane(k) /\ Consistent(k)
  BY BestRuns DEF MutexInv, Settled
<1>2. Reordered(k, r)
  BY <1>1, TimesliceKeeps
<1>3. k' = Switch(r) /\ UNCHANGED <<owner, wants, wanted, bid, demoted>>
  BY DEF Tick
<1> HIDE DEF r
<1>4. Runnable(r) = Runnable(k)
  BY <1>2 DEF Reordered, SameThreads, Runnable
<1>5. Scheduled(k) => Scheduled(r)
  BY <1>2, <1>4 DEF Reordered, Scheduled, Queues
<1>6. Sane(r) /\ Consistent(r) /\ r.current = current
  BY <1>1, <1>2, <1>5, StillConsistent DEF Reordered, SameThreads
<1>7. /\ Settled' /\ k' \in Kernel
      /\ k'.state = r.state /\ k'.queue = r.queue /\ SamePriorities(r, k')
  BY <1>3, <1>6, SwitchSettles
<1>8. SamePriorities(k, k') /\ k'.queue = k.queue /\ k'.state = k.state
  BY <1>2, <1>7 DEF Reordered, SamePriorities, SameThreads
<1> QED
  BY <1>3, <1>7, <1>8, SamePrioritiesKeeps

\* set_priority (thread.cxx:853) gives a thread that inherits its new priority for
\* later, and improves on the inherited one at once.
LEMMA SetPriorityStepKeeps ==
  ASSUME MutexInv, NEW t \in AppThread, NEW p \in Settable[t], SetPriority(t, p)
  PROVE  MutexInv' /\ (BoostInv => BoostInv')
<1> DEFINE r == set_priority(k, t, p)
           inherited == t \in k.priority_inherited
           new == IF inherited THEN Better(k.priority[t], p) ELSE p
<1>1. /\ k \in Kernel /\ current \in Thread /\ t \in Thread /\ t # Idle
      /\ Sane(k) /\ Consistent(k)
  BY BestRuns DEF MutexInv, Settled, AppThread
<1>2. p \in Pri
  BY SettableAssumption
<1>3. k.state[t] = RUNNING => k.queue[t] = NULL
  BY <1>1 DEF Consistent, Bits, RUNNING
<1>4. /\ Called(k, r, t)
      /\ SameThreads(k, r)
      /\ r.queue = IF k.state[t] = RUNNING THEN [k.queue EXCEPT ![t] = NULL] ELSE k.queue
      /\ Scheduled(k) => Scheduled(r)
      /\ r.priority_inherited = k.priority_inherited
      /\ r.mutex_count = k.mutex_count
      /\ r.priority = [k.priority EXCEPT ![t] = IF inherited THEN Better(@, p) ELSE p]
      /\ r.original_priority = IF inherited THEN [k.original_priority EXCEPT ![t] = p]
                               ELSE k.original_priority
  BY <1>1, <1>2, SetPriorityKeeps
<1>5. k' = Switch(r) /\ UNCHANGED <<owner, wants, bid>>
  BY DEF SetPriority
<1>6. /\ wanted' = [wanted EXCEPT ![t] = p]
      /\ demoted' = (demoted \/ (k.mutex_count[t] > 0 /\ p > wanted[t]))
  BY DEF SetPriority
<1>7. /\ k.priority \in [Thread -> Pri] /\ k.original_priority \in [Thread -> Pri]
      /\ k.queue \in [Thread -> WaitQueue \cup {NULL}]
      /\ p \in Nat /\ \A u \in Thread : k.priority[u] \in Nat
  BY <1>1, <1>2 DEF Kernel, Pri
<1>8. new <= p /\ (inherited => new <= k.priority[t])
  BY <1>1, <1>7 DEF Better
<1>9. /\ \A u \in Thread : r.priority[u] = IF u = t THEN new ELSE k.priority[u]
      /\ \A u \in Thread : r.original_priority[u] = IF u = t /\ inherited THEN p
                                                    ELSE k.original_priority[u]
  BY <1>1, <1>4, <1>7
<1> HIDE DEF r, new
<1>10. r.queue = k.queue
  BY <1>1, <1>3, <1>4, <1>7
<1>11. r \in Kernel /\ Sane(r) /\ Consistent(r) /\ r.current = current
  BY <1>1, <1>4 DEF Called, SameThreads
<1>12. /\ Settled' /\ k' \in Kernel
       /\ k'.state = r.state /\ k'.queue = r.queue /\ SamePriorities(r, k')
  BY <1>5, <1>11, SwitchSettles
<1>13. k'.queue = k.queue /\ k'.state = k.state /\ k'.mutex_count = k.mutex_count
  BY <1>4, <1>10, <1>12 DEF SameThreads, SamePriorities
<1>14. /\ k'.priority = r.priority /\ k'.original_priority = r.original_priority
       /\ k'.priority_inherited = k.priority_inherited
  BY <1>4, <1>12 DEF SamePriorities
<1>15. /\ wanted' \in [Thread -> Pri] /\ demoted' \in BOOLEAN /\ (demoted => demoted')
       /\ \A u \in Thread : wanted'[u] = IF u = t THEN p ELSE wanted[u]
  BY <1>1, <1>2, <1>6 DEF MutexInv, Types
<1>16. ASSUME NEW u \in Thread
       PROVE  Based(u)'
  <2>1. Based(u)
    BY DEF MutexInv
  <2>2. CASE u # t
    <3>1. wanted'[u] = Own(k', u) /\ Sound(k', u)
      BY <1>9, <1>14, <1>15, <2>1, <2>2 DEF Based, Own, Sound
    <3> QED
      BY <1>13, <1>14, <2>1, <3>1 DEF Based
  <2>3. CASE u = t /\ inherited
    <3>1. wanted'[u] = Own(k', u) /\ Sound(k', u)
      BY <1>8, <1>9, <1>14, <1>15, <2>3 DEF Own, Sound
    <3> QED
      BY <1>13, <1>14, <2>1, <3>1 DEF Based
  <2>4. CASE u = t /\ ~inherited
    <3>1. new = p
      BY <2>4 DEF new
    <3>2. wanted'[u] = Own(k', u) /\ Sound(k', u)
      BY <1>9, <1>14, <1>15, <2>4, <3>1 DEF Own, Sound
    <3> QED
      BY <1>13, <1>14, <2>1, <3>2 DEF Based
  <2> QED
    BY <2>2, <2>3, <2>4
<1>17. ASSUME ~demoted', NEW u \in Thread, k.mutex_count[u] > 0
       PROVE  k'.priority[u] <= k.priority[u]
  <2>1. CASE u # t
    BY <1>7, <1>9, <1>14, <2>1
  <2>2. CASE u = t /\ inherited
    BY <1>8, <1>9, <1>14, <2>2
  <2>3. CASE u = t /\ ~inherited
    <3>1. new = p
      BY <2>3 DEF new
    <3>2. wanted[t] = k.priority[t]
      BY <1>1, <2>3 DEF MutexInv, Based, Own
    <3>3. ~(p > k.priority[t])
      BY <1>6, <1>17, <2>3, <3>2
    <3> QED
      BY <1>1, <1>7, <1>9, <1>14, <2>3, <3>1, <3>3
  <2> QED
    BY <2>1, <2>2, <2>3
<1> QED
  BY <1>5, <1>12, <1>13, <1>15, <1>16, <1>17, QuietKeeps

\* No step of a thread, of a DSR or of the clock breaks the invariant.
LEMMA NextKeeps ==
  ASSUME MutexInv, [Next]_vars
  PROVE  MutexInv' /\ (BoostInv => BoostInv')
<1>1. CASE UNCHANGED vars
  BY <1>1 DEF vars, MutexInv, BoostInv, Settled, Types, Placed, Counted, Owned, Based, Own,
              Sound, Led, Leads
<1>2. ASSUME NEW m \in Mutex, Lock(m) \/ Unlock(m)
      PROVE  MutexInv' /\ (BoostInv => BoostInv')
  BY <1>2, LockKeeps, UnlockKeeps
<1>3. ASSUME NEW t \in AppThread,
             Wakeup(t) \/ \E p \in Settable[t] : SetPriority(t, p)
      PROVE  MutexInv' /\ (BoostInv => BoostInv')
  BY <1>3, WakeupKeeps, SetPriorityStepKeeps
<1> QED
  BY <1>1, <1>2, <1>3, LockAgainKeeps, SleepStepKeeps, TickKeeps DEF Next

\* The threads are created runnable, each at its own priority.
LEMMA InitHolds ==
  ASSUME Init
  PROVE  MutexInv /\ BoostInv
<1> DEFINE S(p) == {t \in Thread : InitPri[t] = p}
           Apart(q) == \A i, j \in DOMAIN q : q[i] = q[j] => i = j
           At(p) == CHOOSE q \in [1 .. Cardinality(S(p)) -> S(p)] : Apart(q)
           queues == [p \in Pri |-> At(p)]
           best == CHOOSE t \in Thread : \A u \in Thread : InitPri[t] <= InitPri[u]
           now == Head(queues[InitPri[best]])
           all == [t \in Thread |-> RUNNING]
           none == [t \in Thread |-> "NONE"]
           zero == [t \in Thread |-> 0]
           full == [t \in Thread |-> Ticks]
           off == [t \in Thread |-> NULL]
           empty == [q \in WaitQueue |-> <<>>]
           map == {p \in Pri : queues[p] # <<>>}
<1>1. k = [state |-> all, suspend_count |-> zero, wakeup_count |-> zero,
           sleep_reason |-> none, wake_reason |-> none,
           priority |-> InitPri, original_priority |-> InitPri,
           priority_inherited |-> {}, mutex_count |-> zero, slice |-> full, timer |-> {},
           queue |-> off, waitq |-> empty, run_queue |-> queues, queue_map |-> map,
           need_reschedule |-> FALSE, timeslice_count |-> Ticks, current |-> now]
  BY DEF Init
<1>2. /\ owner = [m \in Mutex |-> NULL] /\ wants = off /\ wanted = InitPri
      /\ bid = [t \in Thread |-> MinPri] /\ demoted = FALSE
  BY DEF Init
<1> HIDE DEF queues, best
<1>3. ASSUME NEW p \in Pri
      PROVE  /\ queues[p] \in Seq(Thread) /\ Once(queues[p])
             /\ \A t \in Thread : On(queues[p], t) <=> InitPri[t] = p
  <2>1. IsFiniteSet(S(p)) /\ S(p) \subseteq Thread
    BY FiniteAssumption, FS_Subset
  <2>2. /\ \E q \in [1 .. Cardinality(S(p)) -> S(p)] : Apart(q)
        /\ \A q \in [1 .. Cardinality(S(p)) -> S(p)] : Apart(q) =>
             q \in Seq(S(p)) /\ Once(q) /\ \A t : On(q, t) <=> t \in S(p)
    BY <2>1, ListsAll
  <2>3. At(p) \in Seq(S(p)) /\ Once(At(p)) /\ \A t : On(At(p), t) <=> t \in S(p)
    <3> HIDE DEF S
    <3> QED
      BY <2>2
  <2>4. queues[p] = At(p)
    BY DEF queues
  <2> HIDE DEF At
  <2> QED
    BY <2>1, <2>3, <2>4
<1>4. /\ InitPri \in [Thread -> Pri] /\ InitPri[Idle] = MinPri
      /\ \A t \in Thread : InitPri[t] = MinPri <=> t = Idle
      /\ Idle \in Thread
  BY InitPriAssumption, ThreadAssumption
<1>5. best \in Thread /\ \A u \in Thread : InitPri[best] <= InitPri[u]
  <2> DEFINE used == {InitPri[t] : t \in Thread}
  <2>1. used \in SUBSET Pri /\ used # {}
    BY <1>4
  <2>2. Lsbit(used) \in used /\ \A q \in used : Lsbit(used) <= q
    BY <2>1, LsbitLeast
  <2>3. PICK t \in Thread : InitPri[t] = Lsbit(used)
    BY <2>2
  <2>4. \A u \in Thread : InitPri[t] <= InitPri[u]
    BY <2>2, <2>3
  <2> QED
    BY <2>4 DEF best
<1>6. now \in Thread /\ InitPri[now] = InitPri[best]
  <2> DEFINE p == InitPri[best]
             q == queues[p]
  <2>1. p \in Pri
    BY <1>4, <1>5
  <2>2. q \in Seq(Thread) /\ \A t \in Thread : On(q, t) <=> InitPri[t] = p
    BY <1>3, <2>1
  <2>3. On(q, best)
    BY <1>5, <2>2
  <2> HIDE DEF p
  <2>4. q # <<>>
    BY <2>3 DEF On
  <2>5. now = Head(q)
    BY DEF p
  <2> HIDE DEF q, now
  <2>6. Head(q) \in Thread /\ On(q, Head(q))
    BY <2>2, <2>4, TailList
  <2> QED
    BY <2>2, <2>5, <2>6 DEF p
<1>7. /\ queues \in [Pri -> Seq(Thread)] /\ map \in SUBSET Pri
      /\ Pri \subseteq Nat /\ MinPri \in Pri
      /\ Ticks \in Count
  <2>1. queues \in [Pri -> Seq(Thread)]
    <3>1. queues = [p \in Pri |-> At(p)]
      BY DEF queues
    <3> HIDE DEF At
    <3>2. \A p \in Pri : At(p) \in Seq(Thread)
      BY <1>3, <3>1
    <3> QED
      BY <3>1, <3>2
  <2> QED
    BY <2>1, PriAssumption, TickAssumption DEF Pri, Count
<1> HIDE DEF now, map
<1>8. k \in Kernel
  <2>1. /\ all \in [Thread -> SUBSET StateBit] /\ none \in [Thread -> Reason]
        /\ zero \in [Thread -> Nat] /\ full \in [Thread -> Count]
        /\ off \in [Thread -> WaitQueue \cup {NULL}] /\ empty \in [WaitQueue -> Seq(Thread)]
    BY <1>7 DEF RUNNING, Reason
  <2> HIDE DEF all, none, zero, full, off, empty
  <2> QED
    BY <1>1, <1>4, <1>6, <1>7, <2>1 DEF Kernel
<1>9. /\ k.state = all /\ k.suspend_count = zero /\ k.wakeup_count = zero
      /\ k.sleep_reason = none /\ k.wake_reason = none
      /\ k.priority = InitPri /\ k.original_priority = InitPri
      /\ k.priority_inherited = {} /\ k.mutex_count = zero
      /\ k.queue = off /\ k.waitq = empty /\ k.run_queue = queues /\ k.queue_map = map
      /\ k.need_reschedule = FALSE /\ current = now
  <2> HIDE DEF all, none, zero, full, off, empty
  <2> QED
    BY <1>1
<1>10. Sane(k)
  <2>1. MapAgrees(k)
    BY <1>9 DEF MapAgrees, map
  <2>2. IdleQueued(k)
    BY <1>3, <1>4, <1>7, <1>9 DEF IdleQueued
  <2> QED
    BY <1>8, <2>1, <2>2 DEF Sane
<1>11. Consistent(k)
  <2>1. Runnable(k) = Thread
    BY <1>9 DEF Runnable
  <2>2. Queued(k, Thread)
    <3>1. \A u \in Thread, p \in Pri : On(queues[p], u) <=> u \in Thread /\ p = InitPri[u]
      BY <1>3
    <3> QED
      BY <1>3, <1>9, <3>1 DEF Queued
  <2>3. Asked(k, Thread)
    BY <1>5, <1>6, <1>9 DEF Asked
  <2>4. Waiting(k)
    <3>1. \A u \in Thread, q \in WaitQueue : ~On(k.waitq[q], u) /\ k.queue[u] # q
      BY <1>9, QueueAssumption DEF On
    <3>2. \A q \in WaitQueue : Once(k.waitq[q])
      BY <1>9 DEF Once
    <3> QED
      BY <3>1, <3>2 DEF Waiting
  <2>5. \A u \in Thread : Bits(k, u) /\ Reasons(k, u)
    BY <1>9 DEF Bits, Reasons, RUNNING
  <2> QED
    BY <2>1, <2>2, <2>3, <2>4, <2>5 DEF Consistent, Scheduled, Queues
<1>12. Settled
  BY <1>6, <1>9, <1>10, <1>11 DEF Settled
<1>13. Types
  BY <1>2, <1>4, <1>7 DEF Types
<1>14. ASSUME NEW t \in Thread
       PROVE  Placed(t) /\ Counted(t) /\ Based(t)
  <2>1. wants[t] = NULL /\ k.queue[t] = NULL /\ k.mutex_count[t] = 0
    BY <1>2, <1>9
  <2>2. Owned(t) = {}
    BY <1>2, MutexAssumption DEF Owned
  <2>3. Cardinality(Owned(t)) = 0
    BY <2>2, FS_EmptySet
  <2>4. Based(t)
    BY <1>2, <1>9 DEF Based, Own, Sound
  <2> QED
    BY <2>1, <2>3, <2>4 DEF Placed, Counted
<1>15. BoostInv
  <2>1. \A m \in Mutex : owner[m] = NULL /\ m # NULL
    BY <1>2, MutexAssumption, QueueAssumption
  <2>2. \A m \in Mutex, u \in Thread : k.queue[u] # m
    BY <1>9, <2>1
  <2> QED
    BY <2>1, <2>2, CeilingAssumption DEF BoostInv, Led, Inheriting
<1> QED
  BY <1>12, <1>13, <1>14, <1>15 DEF MutexInv
-----------------------------------------------------------------------------
(***************************************************************************)
(* The theorems.                                                           *)
(***************************************************************************)

\* In every reachable state the queues, the counts of mutexes and the saved
\* priorities agree, and every mutex somebody waits for is led.
THEOREM InvariantHolds == Spec => [](MutexInv /\ BoostInv)
<1>1. Init => MutexInv /\ BoostInv
  BY InitHolds
<1>2. MutexInv /\ BoostInv /\ [Next]_vars => (MutexInv /\ BoostInv)'
  BY NextKeeps
<1> QED
  BY <1>1, <1>2, PTL DEF Spec

\* The priority a thread was last given (thread.cxx:853) is never lost to
\* inheritance, relay or a ceiling, and what it inherited it gives up with its
\* last mutex (sched.cxx:668).
THEOREM AlwaysBaseKept == Spec => []BaseKept
<1>1. MutexInv => BaseKept
  BY DEF MutexInv, Based, Own, BaseKept
<1> QED
  BY <1>1, InvariantHolds, PTL

\* The list of a mutex (mlqueue.cxx:745) holds the threads whose queue pointer
\* says so.
LEMMA ListMatchesPointers ==
  ASSUME MutexInv, NEW m \in Mutex
  PROVE  /\ \A t \in Thread : Leads(t, m) => Outranks(t, m)
         /\ (\A u \in Thread : k.queue[u] # m) => k.waitq[m] = <<>>
<1>1. k \in Kernel /\ Waiting(k) /\ m \in WaitQueue
  BY MutexAssumption
  DEF MutexInv, Settled, Sane, Consistent, Scheduled, Queues
<1>2. k.waitq[m] \in Seq(Thread)
  BY <1>1 DEF Kernel
<1>3. ASSUME NEW i \in 1 .. Len(k.waitq[m])
      PROVE  k.waitq[m][i] \in Thread /\ k.queue[k.waitq[m][i]] = m
  <2>1. k.waitq[m][i] \in Thread
    BY <1>2
  <2>2. On(k.waitq[m], k.waitq[m][i])
    BY DEF On
  <2> QED
    BY <1>1, <2>1, <2>2 DEF Waiting
<1>4. ASSUME NEW t \in Thread, Leads(t, m)
      PROVE  Outranks(t, m)
  BY <1>3, <1>4 DEF Leads, Outranks
<1>5. ASSUME \A u \in Thread : k.queue[u] # m
      PROVE  k.waitq[m] = <<>>
  <2>1. SUFFICES ASSUME k.waitq[m] # <<>>
                 PROVE  FALSE
    OBVIOUS
  <2>2. 1 \in 1 .. Len(k.waitq[m])
    BY <1>2, <2>1
  <2> QED
    BY <1>3, <1>5, <2>2
<1> QED
  BY <1>4, <1>5

\* Unless a thread was demoted while it counted a mutex, the owner of a mutex
\* runs at least at the priority of every thread that waits for it, or at its
\* ceiling; while it has no owner, a thread that was woken to take it does
\* (sched.cxx:633).
THEOREM AlwaysBoosted == Spec => []Boosted
<1>1. ASSUME MutexInv, BoostInv
      PROVE  Boosted
  <2>1. SUFFICES ASSUME ~demoted
                 PROVE  Boosted
    BY DEF Boosted
  <2>2. ASSUME NEW m \in Inheriting
        PROVE  IF owner[m] # NULL THEN Outranks(owner[m], m)
               ELSE k.waitq[m] = <<>> \/ \E t \in AppThread :
                      wants[t] = m /\ k.queue[t] = NULL /\ Outranks(t, m)
    <3>1. m \in Mutex /\ Led(m)
      BY <1>1, <2>1 DEF BoostInv, Inheriting
    <3>2. /\ \A t \in Thread : Leads(t, m) => Outranks(t, m)
          /\ (\A u \in Thread : k.queue[u] # m) => k.waitq[m] = <<>>
      BY <1>1, <3>1, ListMatchesPointers
    <3>3. AppThread \subseteq Thread /\ owner[m] \in AppThread \cup {NULL}
      BY <1>1, <3>1 DEF AppThread, MutexInv, Types
    <3> QED
      BY <3>1, <3>2, <3>3 DEF Led
  <2> QED
    BY <1>1, <2>1, <2>2 DEF Boosted, BoostInv
<1> QED
  BY <1>1, InvariantHolds, PTL

\* So no thread of a priority in between runs while the owner of a mutex can:
\* whatever runs is at least as good as everyone who waits for it.
THEOREM NobodyInBetweenRuns ==
  Spec => [](~demoted =>
               \A m \in Inheriting, u \in Thread :
                 /\ owner[m] # NULL /\ k.state[owner[m]] = RUNNING
                 /\ k.queue[u] = m
                 => k.priority[current] <= bid[u])
<1>1. ASSUME MutexInv, BoostInv, ~demoted, NEW m \in Inheriting, NEW u \in Thread,
             owner[m] # NULL, k.state[owner[m]] = RUNNING, k.queue[u] = m
      PROVE  k.priority[current] <= bid[u]
  <2> DEFINE o == owner[m]
  <2>1. m \in Mutex /\ Led(m)
    BY <1>1 DEF BoostInv, Inheriting
  <2>2. o \in Thread /\ Leads(o, m)
    BY <1>1, <2>1 DEF Led, MutexInv, Types, AppThread
  <2>3. k \in Kernel /\ current \in Thread /\ k.priority[current] <= k.priority[o]
    BY <1>1, <2>2, BestRuns DEF MutexInv
  <2> HIDE DEF o
  <2>4. k.priority[o] <= bid[u]
    BY <1>1, <2>2 DEF Leads
  <2>5. k.priority[current] \in Nat /\ k.priority[o] \in Nat /\ bid[u] \in Nat
    BY <1>1, <2>2, <2>3 DEF Kernel, MutexInv, Types, Pri
  <2> QED
    BY <2>3, <2>4, <2>5
<1>2. MutexInv /\ BoostInv =>
        (~demoted =>
           \A m \in Inheriting, u \in Thread :
             /\ owner[m] # NULL /\ k.state[owner[m]] = RUNNING
             /\ k.queue[u] = m
             => k.priority[current] <= bid[u])
  BY <1>1
<1> QED
  BY <1>2, InvariantHolds, PTL

\* Every thread that owns a mutex or is about to get one counts a mutex, which
\* set_inherited_priority asserts of the thread that inherits (sched.cxx:595).
THEOREM InheritorsCount ==
  Spec => [](\A t \in Thread :
               wants[t] # NULL \/ (\E m \in Mutex : owner[m] = t) => k.mutex_count[t] > 0)
<1>1. ASSUME MutexInv, NEW t \in Thread, wants[t] # NULL \/ \E m \in Mutex : owner[m] = t
      PROVE  k.mutex_count[t] > 0
  <2>1. CASE wants[t] # NULL
    <3>1. k.mutex_count[t] = Cardinality(Owned(t)) + 1 /\ Cardinality(Owned(t)) \in Nat
      BY <1>1, <2>1, OwnersCount DEF MutexInv, Counted
    <3> QED
      BY <3>1
  <2>2. CASE \E m \in Mutex : owner[m] = t
    BY <1>1, <2>2, OwnersCount, MutexAssumption
  <2> QED
    BY <1>1, <2>1, <2>2
<1>2. MutexInv => \A t \in Thread :
        wants[t] # NULL \/ (\E m \in Mutex : owner[m] = t) => k.mutex_count[t] > 0
  BY <1>1
<1> QED
  BY <1>2, InvariantHolds, PTL
=============================================================================
