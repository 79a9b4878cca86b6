------------------------------ MODULE Inherit ------------------------------
(***************************************************************************)
(* The priority protocols of Cyg_SchedThread (sched.cxx): a thread that    *)
(* holds a mutex runs at the priority of the threads that wait for it, or  *)
(* at the ceiling of the mutex.                                            *)
(*                                                                         *)
(* The mutex itself is not part of the repository.  It is modelled from    *)
(* what the protocol asserts of its callers and from cyg_mutex_lock and    *)
(* cyg_mutex_unlock: a thread counts a mutex before it waits for it, a     *)
(* release wakes the first waiter and does not hand it the mutex.          *)
(*                                                                         *)
(* Kernel has the steps of unlock_inner; here a method and the context     *)
(* switch at its end are one step.                                         *)
(***************************************************************************)
EXTENDS Thread

CONSTANTS
  InitPri,      \* the priorities the threads are created with
  Mutex,        \* the mutexes, each with its queue of waiters
  Ceiling,      \* the ceilings of those that use the ceiling protocol
  Settable      \* the priorities each thread may be given by set_priority

ASSUME InitPriAssumption ==
  /\ InitPri \in [Thread -> Pri]
  /\ \A t \in Thread : InitPri[t] = MinPri <=> t = Idle
ASSUME FiniteAssumption == IsFiniteSet(Thread) /\ IsFiniteSet(Mutex)
ASSUME MutexAssumption == Mutex = WaitQueue /\ NULL \notin Thread
ASSUME CeilingAssumption == Ceiling \in [DOMAIN Ceiling -> Pri] /\ DOMAIN Ceiling \subseteq Mutex
ASSUME SettableAssumption == Settable \in [AppThread -> SUBSET (Pri \ {MinPri})]

VARIABLES
  k,            \* the kernel's objects
  owner,        \* the owner of each mutex, or NULL
  wants,        \* the mutex each thread is in the middle of locking, or NULL
  wanted,       \* history: the priority each thread was last given
  bid,          \* history: the priority each waiter had when it began to wait
  demoted       \* history: a thread that counts a mutex was given a worse one

vars == <<k, owner, wants, wanted, bid, demoted>>

current == k.current
Inheriting == Mutex \ DOMAIN Ceiling
-----------------------------------------------------------------------------
(***************************************************************************)
(* Cyg_SchedThread.                                                        *)
(***************************************************************************)

\* Slip: the second inheritance overwrites what the first one saved.
InheritTwice(j, t, pri) ==
  IF pri >= j.priority[t] THEN j
  ELSE [set_priority([j EXCEPT !.priority_inherited = @ \ {t}], t, pri) EXCEPT
          !.original_priority[t] = j.priority[t],
          !.priority_inherited = @ \cup {t}]

\* Run at pri if that is better; the first time, save the priority to come
\* back to.  The flag is down meanwhile, because set_priority looks at it.
set_inherited_priority(j, t, pri) ==
  IF pri >= j.priority[t] THEN j
  ELSE [set_priority([j EXCEPT !.priority_inherited = @ \ {t}], t, pri) EXCEPT
          !.original_priority[t] = IF t \in j.priority_inherited THEN @ ELSE j.priority[t],
          !.priority_inherited = @ \cup {t}]

\* Slip: nothing is relayed.
RelayNothing(j, t, ex_owner, q) == j

\* The thread next in line gets the priority of the one that releases, which
\* is the best of those left waiting, if any is left.
relay_priority(j, t, ex_owner, q) ==
  IF j.waitq[q] = <<>> THEN j
  ELSE set_inherited_priority(j, t, j.priority[ex_owner])

\* Back to the saved priority, once the last mutex is released.
clear_inherited_priority(j, t) ==
  LET r == [j EXCEPT !.priority_inherited = @ \ {t}]
  IN  IF j.mutex_count[t] > 0 \/ t \notin j.priority_inherited THEN j
      ELSE IF j.priority[t] < j.original_priority[t]
        THEN set_priority(r, t, j.original_priority[t])
      ELSE r

\* Slip: the owner is left alone.
InheritNothing(j, t, from) == j

inherit_priority(j, t, from) == set_inherited_priority(j, t, j.priority[from])

set_priority_ceiling(j, t, pri) == set_inherited_priority(j, t, pri)
-----------------------------------------------------------------------------
\* The switch at the end of a method: leave the current thread if it cannot
\* go on or a reschedule was asked for.
Switch(j) ==
  LET next == schedule(j)
      saved == [j EXCEPT !.slice[current] = j.timeslice_count]
  IN  IF j.state[current] = RUNNING /\ ~j.need_reschedule THEN j
      ELSE IF next = current THEN [j EXCEPT !.need_reschedule = FALSE]
      ELSE [saved EXCEPT !.current = next,
                         !.need_reschedule = FALSE,
                         !.timeslice_count = saved.slice[next]]

Init ==
  /\ k = LET best == CHOOSE t \in Thread : \A u \in Thread : InitPri[t] <= InitPri[u]
             At(p) == CHOOSE q \in [1 .. Cardinality({t \in Thread : InitPri[t] = p})
                                      -> {t \in Thread : InitPri[t] = p}] :
                        \A i, j \in DOMAIN q : q[i] = q[j] => i = j
             queues == [p \in Pri |-> At(p)]
         IN  [state |-> [t \in Thread |-> RUNNING],
              suspend_count |-> [t \in Thread |-> 0],
              wakeup_count |-> [t \in Thread |-> 0],
              sleep_reason |-> [t \in Thread |-> "NONE"],
              wake_reason |-> [t \in Thread |-> "NONE"],
              priority |-> InitPri,
              original_priority |-> InitPri,
              priority_inherited |-> {},
              mutex_count |-> [t \in Thread |-> 0],
              slice |-> [t \in Thread |-> Ticks],
              timer |-> {},
              queue |-> [t \in Thread |-> NULL],
              waitq |-> [q \in WaitQueue |-> <<>>],
              run_queue |-> queues,
              queue_map |-> {p \in Pri : queues[p] # <<>>},
              need_reschedule |-> FALSE,
              timeslice_count |-> Ticks,
              current |-> Head(queues[InitPri[best]])]
  /\ owner = [m \in Mutex |-> NULL]
  /\ wants = [t \in Thread |-> NULL]
  /\ wanted = InitPri
  /\ bid = [t \in Thread |-> MinPri]
  /\ demoted = FALSE

\* The current thread is outside the kernel, with the scheduler unlocked.
Outside == current # Idle /\ wants[current] = NULL

Holds(m) == Outside /\ owner[m] = current

\* DSRs, and so the wakeups of sleepers, wait while a lock is in progress.
Sleeps(t) == wants[current] = NULL /\ "COUNTSLEEP" \in k.state[t]

\* One turn of the loop of a lock: wait, with the owner inheriting, or take
\* the mutex.  j is k with the mutex counted.
TryLock(j, m) ==
  LET t == current
      waiting == enqueue(sleep(set_sleep_reason(j, t, "WAIT")), m, t)
  IN  IF owner[m] # NULL
        THEN /\ k' = Switch(IF m \in Inheriting THEN inherit_priority(waiting, owner[m], t)
                                                ELSE waiting)
             /\ wants' = [wants EXCEPT ![t] = m]
             /\ bid' = [bid EXCEPT ![t] = j.priority[t]]
             /\ UNCHANGED owner
        ELSE /\ k' = Switch(IF m \in Inheriting THEN j
                            ELSE set_priority_ceiling(j, t, Ceiling[m]))
             /\ owner' = [owner EXCEPT ![m] = t]
             /\ wants' = [wants EXCEPT ![t] = NULL]
             /\ bid' = [bid EXCEPT ![t] = MinPri]

Lock(m) ==
  /\ Outside
  /\ owner[m] # current
  /\ TryLock([k EXCEPT !.mutex_count[current] = @ + 1], m)
  /\ UNCHANGED <<wanted, demoted>>

\* A waiter that was woken runs again, with the scheduler still locked: the
\* mutex may have been taken by another thread in the meantime.
LockAgain ==
  /\ wants[current] # NULL
  /\ TryLock(k, wants[current])
  /\ UNCHANGED <<wanted, demoted>>

\* Relay to the first waiter, wake it, give up what was inherited.
Unlock(m) ==
  /\ Holds(m)
  /\ LET t == Head(k.waitq[m])
         next == set_wake_reason(dequeue(k, m), t, "DONE")
         relayed == IF m \in Inheriting THEN relay_priority(next, t, current, m) ELSE next
         woken == IF k.waitq[m] = <<>> THEN k ELSE wake(relayed, t)
     IN  k' = Switch(clear_inherited_priority(
                       [woken EXCEPT !.mutex_count[current] = @ - 1], current))
  /\ owner' = [owner EXCEPT ![m] = NULL]
  /\ UNCHANGED <<wants, wanted, bid, demoted>>

SetPriority(t, p) ==
  /\ Outside
  /\ k' = Switch(set_priority(k, t, p))
  /\ wanted' = [wanted EXCEPT ![t] = p]
  /\ demoted' = (demoted \/ (k.mutex_count[t] > 0 /\ p > wanted[t]))
  /\ UNCHANGED <<owner, wants, bid>>

Sleep ==
  /\ Outside
  /\ k' = Switch(counted_sleep(k))
  /\ UNCHANGED <<owner, wants, wanted, bid, demoted>>

\* A DSR wakes a thread that sleeps.
Wakeup(t) ==
  /\ Sleeps(t)
  /\ k' = Switch(counted_wake(k, t))
  /\ UNCHANGED <<owner, wants, wanted, bid, demoted>>

Tick ==
  /\ wants[current] = NULL
  /\ k' = Switch(timeslice(k))
  /\ UNCHANGED <<owner, wants, wanted, bid, demoted>>

Next ==
  \/ \E m \in Mutex : Lock(m) \/ Unlock(m)
  \/ LockAgain
  \/ \E t \in AppThread : Wakeup(t) \/ \E p \in Settable[t] : SetPriority(t, p)
  \/ Sleep
  \/ Tick

Spec == Init /\ [][Next]_vars

(***************************************************************************)
(* Fairness: the processor goes on with a lock in progress, every sleep    *)
(* ends, and whoever holds a mutex and runs again and again releases it.   *)
(* Nothing is assumed of the others, which may keep the processor.  The    *)
(* guards are written out where WF and SF would have ENABLED, which TLC is *)
(* slow to find here.                                                      *)
(***************************************************************************)
FairSpec ==
  /\ Spec
  /\ ([]<>(wants[current] = NULL)) \/ []<><<LockAgain>>_vars
  /\ \A t \in AppThread : ([]<>~Sleeps(t)) \/ []<><<Wakeup(t)>>_vars
  /\ \A m \in Mutex : (<>[]~Holds(m)) \/ []<><<Unlock(m)>>_vars
-----------------------------------------------------------------------------
(***************************************************************************)
(* Properties.                                                             *)
(***************************************************************************)
\* However often a thread inherits, is relayed to and has its priority set in
\* between, the priority it was last given is not lost, and what it inherited
\* it gives up with its last mutex (sched.cxx:668).
BaseKept ==
  \A t \in Thread :
    /\ wanted[t] = IF t \in k.priority_inherited THEN k.original_priority[t]
                                                 ELSE k.priority[t]
    /\ t \in k.priority_inherited => k.mutex_count[t] > 0

\* No worse than any waiter of m was when it began to wait.
Outranks(t, m) == \A i \in 1 .. Len(k.waitq[m]) : k.priority[t] <= bid[k.waitq[m][i]]

\* The owner of a mutex runs at least at the priority of everyone who waits
\* for it, or at the ceiling; while it has no owner, a thread that was woken to
\* take it does ("that is a maxima of the others waiting", sched.cxx:633).
Boosted ==
  ~demoted =>
    /\ \A m \in Inheriting :
         IF owner[m] # NULL THEN Outranks(owner[m], m)
         ELSE k.waitq[m] = <<>> \/ \E t \in AppThread :
                wants[t] = m /\ k.queue[t] = NULL /\ Outranks(t, m)
    /\ \A m \in DOMAIN Ceiling :
         owner[m] # NULL => k.priority[owner[m]] <= Ceiling[m]

\* Nobody locks a mutex while it holds another.
Flat == \A t \in Thread : k.mutex_count[t] <= 1

\* No unbounded priority inversion: the thread with the best priority of all
\* gets the mutex it waits for, though a thread between it and the owner never
\* gives up the processor.
NoInversion ==
  [](Flat /\ wanted = InitPri) =>
    \A t \in AppThread, m \in Inheriting :
      (wants[t] = m /\ \A u \in Thread \ {t} : wanted[t] < wanted[u]) ~> owner[m] = t
=============================================================================
