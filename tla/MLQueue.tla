------------------------------ MODULE MLQueue ------------------------------
(***************************************************************************)
(* The multi-level queue scheduler of mlqueue.cxx: one run queue for each  *)
(* priority, a bitmap of the queues in use, and the timeslice.             *)
(*                                                                         *)
(* The state of the kernel's objects is one record k, and a method is an   *)
(* operator from the record before the call to the record after it.  Every *)
(* method below runs with the scheduler locked, so that nothing another    *)
(* thread or an interrupt does falls between its statements.               *)
(*                                                                         *)
(* The kernel is the uniprocessor one, with timeslicing.                   *)
(***************************************************************************)
EXTENDS Naturals, Sequences, FiniteSets

CONSTANTS
  Thread,       \* all threads
  Idle,         \* the idle thread
  WaitQueue,    \* the queues of the synchronization objects
  NULL,         \* the queue of a thread that waits on none
  MinPri,       \* CYG_THREAD_MIN_PRIORITY, the number of the lowest priority
  Ticks,        \* CYGNUM_KERNEL_SCHED_TIMESLICE_TICKS
  CountSize     \* the number of values of timeslice_count (2^32)

AppThread == Thread \ {Idle}
Pri == 0 .. MinPri

ASSUME ThreadAssumption == Idle \in Thread
ASSUME QueueAssumption == NULL \notin WaitQueue
ASSUME PriAssumption == MinPri \in Nat \ {0}
ASSUME TickAssumption == Ticks \in Nat \ {0} /\ CountSize \in Nat /\ Ticks < CountSize

(***************************************************************************)
(* The bits of Cyg_Thread::state: RUNNING is the absence of every other.   *)
(***************************************************************************)
StateBit == {"SLEEPING", "COUNTSLEEP", "SUSPENDED", "EXITED"}
RUNNING == {}
SLEEPSET == {"SLEEPING", "COUNTSLEEP"}

Reason == {"NONE", "WAIT", "DELAY", "TIMEOUT", "BREAK", "EXIT", "DONE"}
Count == 0 .. CountSize - 1

(***************************************************************************)
(* The kernel's objects.  waitq is the list of each Cyg_ThreadQueue, which *)
(* is all this module knows of synchronization objects, and queue the      *)
(* pointer of each thread to the one it is on.                             *)
(***************************************************************************)
Kernel == [state : [Thread -> SUBSET StateBit],
           suspend_count : [Thread -> Nat],
           wakeup_count : [Thread -> Nat],
           sleep_reason : [Thread -> Reason],
           wake_reason : [Thread -> Reason],
           priority : [Thread -> Pri],
           original_priority : [Thread -> Pri],
           priority_inherited : SUBSET Thread,
           mutex_count : [Thread -> Nat],
           slice : [Thread -> Count],
           timer : SUBSET Thread,
           queue : [Thread -> WaitQueue \cup {NULL}],
           waitq : [WaitQueue -> Seq(Thread)],
           run_queue : [Pri -> Seq(Thread)],
           queue_map : SUBSET Pri,
           need_reschedule : BOOLEAN,
           timeslice_count : Count,
           current : Thread]
-----------------------------------------------------------------------------
(***************************************************************************)
(* Lists of threads: the circular lists Cyg_CList_T.                       *)
(***************************************************************************)
On(q, t) == \E i \in 1 .. Len(q) : q[i] = t

\* Taking a thread off a list it is not on does nothing.
Unlink(q, t) ==
  IF On(q, t)
    THEN LET i == CHOOSE j \in 1 .. Len(q) : q[j] = t
         IN  SubSeq(q, 1, i - 1) \o SubSeq(q, i + 1, Len(q))
    ELSE q

Rotated(q) == IF q = <<>> THEN q ELSE Append(Tail(q), Head(q))

ToHead(q, t) == <<t>> \o Unlink(q, t)

\* The highest priority of a queue map: its least significant bit.
Lsbit(map) == CHOOSE p \in map : \A q \in map : p <= q
-----------------------------------------------------------------------------
(***************************************************************************)
(* Cyg_ThreadQueue_Implementation.                                         *)
(***************************************************************************)
enqueue(k, q, t) ==
  [k EXCEPT !.waitq[q] = Append(@, t), !.queue[t] = q]

dequeue(k, q) ==
  [k EXCEPT !.waitq[q] = Tail(@), !.queue[Head(k.waitq[q])] = NULL]

\* Slip: the queue pointer is cleared and the thread stays on the list.
RemoveByPointer(k, t) == [k EXCEPT !.queue[t] = NULL]

\* Take a thread off the queue it waits on, if any.
remove(k, t) ==
  IF k.queue[t] = NULL THEN k
  ELSE [k EXCEPT !.waitq[k.queue[t]] = Unlink(@, t), !.queue[t] = NULL]
-----------------------------------------------------------------------------
(***************************************************************************)
(* Cyg_Scheduler_Implementation.                                           *)
(***************************************************************************)
schedule(k) == Head(k.run_queue[Lsbit(k.queue_map)])

\* Slip: a thread that sleeps is replaced, a better one does not preempt.
CompareStates(k, t) ==
  [k EXCEPT !.need_reschedule = @ \/ k.state[k.current] # RUNNING]

\* Ask for a reschedule if t is better than the current thread, or the
\* current thread cannot go on.
set_need_reschedule(k, t) ==
  [k EXCEPT !.need_reschedule =
              \/ @
              \/ k.priority[k.current] > k.priority[t]
              \/ k.state[k.current] # RUNNING]

\* Put a thread that became runnable behind its equals.
add_thread(k, t) ==
  LET r == remove(k, t)
  IN  set_need_reschedule(
        [r EXCEPT !.run_queue[k.priority[t]] = Append(@, t),
                  !.queue_map = @ \cup {k.priority[t]},
                  !.slice[t] = Ticks], t)

\* Take a thread off its run queue.
rem_thread(k, t) ==
  LET pri == k.priority[t]
      left == Unlink(k.run_queue[pri], t)
  IN  [k EXCEPT !.run_queue[pri] = left,
                !.queue_map = IF left = <<>> THEN @ \ {pri} ELSE @]

\* Slip: the count runs out and the thread keeps the processor.
TimesliceKept(k) ==
  LET n == (k.timeslice_count + CountSize - 1) % CountSize
  IN  [k EXCEPT !.timeslice_count = IF n = 0 THEN Ticks ELSE n]

\* A clock tick.  When the count reaches zero the current thread goes behind
\* its equals, unless it is no longer running: then nothing is reset.
timeslice(k) ==
  LET n == (k.timeslice_count + CountSize - 1) % CountSize
      pri == k.priority[k.current]
      turned == Rotated(k.run_queue[pri])
  IN  IF n = 0 /\ k.state[k.current] = RUNNING
        THEN [k EXCEPT !.run_queue[pri] = turned,
                       !.need_reschedule = @ \/ Head(turned) # k.current,
                       !.timeslice_count = Ticks]
        ELSE [k EXCEPT !.timeslice_count = n]

\* Yielding goes behind one's equals; alone, one gets a new timeslice.
yield(k, t) ==
  LET pri == k.priority[t]
      turned == Rotated(k.run_queue[pri])
  IN  IF k.state[t] # RUNNING THEN k
      ELSE IF Head(turned) # t
        THEN [k EXCEPT !.run_queue[pri] = turned, !.need_reschedule = TRUE]
        ELSE [k EXCEPT !.slice[t] = Ticks]

rotate_queue(k, pri) ==
  IF k.run_queue[pri] = <<>> THEN k
  ELSE [k EXCEPT !.run_queue[pri] = Rotated(@), !.need_reschedule = TRUE]

\* To the head of the queue it waits on, or of its run queue.
to_queue_head(k, t) ==
  IF k.queue[t] # NULL THEN [k EXCEPT !.waitq[k.queue[t]] = ToHead(@, t)]
  ELSE IF On(k.run_queue[k.priority[t]], t)
    THEN set_need_reschedule(
           [k EXCEPT !.run_queue[k.priority[t]] = ToHead(@, t)], t)
    ELSE k
=============================================================================
