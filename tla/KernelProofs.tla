---------------------------- MODULE KernelProofs ----------------------------
(***************************************************************************)
(* Proofs about the kernel: first what holds of the scheduler lock         *)
(* whatever calls the threads make, then what holds of the queues and of   *)
(* the states of the threads as long as one thread alone brings back the   *)
(* threads that have exited.                                               *)
(***************************************************************************)
EXTENDS Kernel, ThreadProofs

USE DEF current
-----------------------------------------------------------------------------
(***************************************************************************)
(* The scheduler lock.                                                     *)
(***************************************************************************)

\* The lock as thread t has it: the lock itself for the thread that runs, and
\* for another the value it is to get back.
LockOf(t) == IF pc = "app" /\ t = current THEN sched_lock ELSE new_lock[t]

\* A thread has the lock as often as it called for it, and is never in the
\* middle of resuming the idle thread.
InPlace(t) ==
  /\ then[t] \notin {"fresh", "dead"} => LockOf(t) = held[t] + OwnLock(t)
  /\ then[t] = "fresh" => held[t] = 0
  /\ then[t] \in {"reinit", "resume"} => arg[t] # Idle

\* Where the processor is says how the lock is held.
Control ==
  /\ pc # "app" => sched_lock # 0
  /\ pc \in {"loop", "dsrs"} => sched_lock = 1 /\ new_lock[current] = 0
  /\ pc = "switch" => sched_lock \in {1, new_lock[current], new_lock[current] + 1}
  /\ pc = "dsrs" <=> batch # <<>>
  /\ sched_lock = 0 => dsr_list = <<>>
  /\ pc = "boot" => \A t \in Thread : then[t] = "fresh"
  /\ then[Idle] \in {"fresh", "none"}
  /\ \A t \in Thread : InPlace(t)

LockInv == TypeOK /\ Sane(k) /\ Control

\* Every way a method unlocks the scheduler leaves the lock to the thread as
\* the thread counts it.
LEMMA UnlockControl ==
  ASSUME TypeOK, Control, pc = "app", current # Idle,
         k' \in Kernel, k'.current = current,
         NEW locked \in Nat \ {0}, UnlockFrom(locked),
         NEW rest \in {"none", "counted", "delay"},
         then' = [then EXCEPT ![current] = rest],
         held' \in [Thread -> Nat], locked = held'[current] + 1,
         \A t \in Thread \ {current} : held'[t] = held[t],
         arg' \in [Thread -> Thread],
         \A t \in Thread \ {current} : arg'[t] = arg[t],
         UNCHANGED <<dsr_list, batch>>
  PROVE  TypeOK' /\ Control'
<1>1. current \in Thread
  BY DEF Kernel
<1>2. /\ new_lock \in [Thread -> Nat] /\ then \in [Thread -> Continuation]
      /\ batch = <<>>
  BY DEF TypeOK, Control
<1>3. TypeOK'
  <2>1. sched_lock' \in Nat /\ pc' \in Pc
    BY DEF UnlockFrom, Pc
  <2>2. new_lock' \in [Thread -> Nat]
    BY <1>1, <1>2 DEF UnlockFrom
  <2>3. then' \in [Thread -> Continuation]
    BY <1>1, <1>2 DEF Continuation
  <2> QED
    BY <2>1, <2>2, <2>3 DEF TypeOK
<1>4. ASSUME NEW t \in Thread PROVE InPlace(t)'
  <2>1. CASE t = current
    BY <1>1, <1>2, <2>1 DEF InPlace, LockOf, OwnLock, UnlockFrom
  <2>2. CASE t # current
    BY <1>1, <1>2, <2>2 DEF Control, InPlace, LockOf, OwnLock, UnlockFrom
  <2> QED
    BY <2>1, <2>2
<1>5. then'[Idle] \in {"fresh", "none"}
  BY <1>1, <1>2, ThreadAssumption DEF Control
<1> QED
  BY <1>1, <1>2, <1>3, <1>4, <1>5 DEF Control, UnlockFrom

\* So does every way of leaving the processor with the lock held.
LEMMA RescheduleControl ==
  ASSUME TypeOK, Control, pc = "app", current # Idle,
         k' \in Kernel, k'.current = current,
         NEW lock \in Nat, NEW locked \in {1, lock, lock + 1}, locked # 0,
         lock = 0 => locked = 1,
         RescheduleAt(lock, locked),
         NEW rest \in {"none", "timed", "waiting", "dead"},
         rest = "none" => lock = held[current],
         rest \in {"timed", "waiting"} => lock = held[current] + 1,
         then' = [then EXCEPT ![current] = rest],
         Quiet
  PROVE  TypeOK' /\ Control'
<1>1. current \in Thread
  BY DEF Kernel
<1>2. /\ new_lock \in [Thread -> Nat] /\ then \in [Thread -> Continuation]
      /\ held \in [Thread -> Nat] /\ batch = <<>>
  BY DEF TypeOK, Control
<1>3. TypeOK'
  BY <1>1 DEF TypeOK, RescheduleAt, Quiet, Pc, Continuation
<1>4. ASSUME NEW t \in Thread PROVE InPlace(t)'
  <2>1. CASE t = current
    BY <1>1, <1>2, <2>1 DEF InPlace, LockOf, OwnLock, RescheduleAt, Quiet
  <2>2. CASE t # current
    BY <1>1, <1>2, <2>2 DEF Control, InPlace, LockOf, OwnLock, RescheduleAt, Quiet
  <2> QED
    BY <2>1, <2>2
<1>5. then'[Idle] \in {"fresh", "none"}
  BY <1>1, <1>2, ThreadAssumption DEF Control
<1> QED
  BY <1>1, <1>2, <1>3, <1>4, <1>5 DEF Control, RescheduleAt, Quiet

\* What a thread does outside the scheduler does not touch the lock.
LEMMA OutsideControl ==
  ASSUME TypeOK, Control, pc = "app", current # Idle,
         k' \in Kernel, k'.current = current,
         then[current] \in {"none", "delay", "counted"},
         NEW rest \in {"none", "counted", "reinit", "resume"},
         then' = [then EXCEPT ![current] = rest],
         arg' \in [Thread -> Thread],
         rest \in {"reinit", "resume"} => arg'[current] # Idle,
         \A t \in Thread \ {current} : arg'[t] = arg[t],
         UNCHANGED <<sched_lock, pc, new_lock, held, dsr_list, batch>>
  PROVE  TypeOK' /\ Control'
<1>1. current \in Thread
  BY DEF Kernel
<1>2. then \in [Thread -> Continuation]
  BY DEF TypeOK
<1>3. TypeOK'
  BY <1>1 DEF TypeOK, Continuation
<1>4. ASSUME NEW t \in Thread PROVE InPlace(t)'
  <2>1. CASE t = current
    BY <1>1, <1>2, <2>1 DEF Control, InPlace, LockOf, OwnLock
  <2>2. CASE t # current
    BY <1>1, <1>2, <2>2 DEF Control, InPlace, LockOf, OwnLock
  <2> QED
    BY <2>1, <2>2
<1>5. then'[Idle] \in {"fresh", "none"}
  BY <1>1, <1>2, ThreadAssumption DEF Control
<1> QED
  BY <1>1, <1>2, <1>3, <1>4, <1>5 DEF Control
-----------------------------------------------------------------------------
(***************************************************************************)
(* The methods the actions call.                                           *)
(***************************************************************************)

\* The methods of thread.cxx about a thread that is not the idle one put
\* nobody to sleep.
LEMMA MethodsMove ==
  ASSUME NEW j \in Kernel, NEW t \in Thread, t # Idle
  PROVE  /\ Moved(j, suspend(j, t)) /\ Moved(j, release(j, t))
         /\ Moved(j, counted_wake(j, t)) /\ Moved(j, cancel_counted_wake(j, t))
         /\ Moved(j, resume(j, t)) /\ Moved(j, to_queue_head(j, t))
         /\ \A p \in Pri : Moved(j, set_priority(j, t, p))
         /\ t # j.current => Moved(j, kill(j, t))
<1>1. ASSUME NEW r, Called(j, r, t) PROVE Moved(j, r)
  BY <1>1, CalledMoved
<1>2. Called(j, to_queue_head(j, t), t)
  BY ToQueueHeadKeeps, ReorderedCalled
<1>3. \A p \in Pri : Called(j, set_priority(j, t, p), t)
  BY SetPriorityKeeps
<1> QED
  BY <1>1, <1>2, <1>3, SuspendCalled, ReleaseCalled, CountedWakeCalled,
     CancelCountedWakeCalled, ResumeCalled, KillCalled

\* Nor do the methods that only reorder queues, ...
LEMMA ReorderedMoved ==
  ASSUME NEW j \in Kernel, NEW r, Reordered(j, r)
  PROVE  Moved(j, r)
BY MovedSelf, MovedReordered

\* ... the clock's DSR, with or without a timer that goes off, ...
LEMMA ClockMoves ==
  ASSUME NEW j \in Kernel
  PROVE  /\ Moved(j, timeslice(j))
         /\ \A t \in j.timer : Moved(j, timeslice(alarm([j EXCEPT !.timer = @ \ {t}], t)))
<1>1. Moved(j, timeslice(j))
  BY TimesliceKeeps, ReorderedMoved
<1>2. ASSUME NEW t \in j.timer PROVE Moved(j, timeslice(Expired(j, t)))
  <2> DEFINE a == Expired(j, t)
  <2>1. t \in Thread
    BY DEF Kernel
  <2>2. Called(j, a, t) /\ (Sane(j) => Sane(a)) /\ a.state[t] \subseteq j.state[t]
    BY <2>1, ExpiredCalled
  <2> HIDE DEF a
  <2>3. Moved(j, a)
    BY <2>1, <2>2, CalledMoved
  <2>4. Reordered(a, timeslice(a))
    BY <2>3, TimesliceKeeps DEF Moved
  <2>5. Moved(j, timeslice(a))
    BY <2>3, <2>4, MovedReordered
  <2> QED
    BY <2>5 DEF a
<1> QED
  BY <1>1, <1>2 DEF Expired

\* ... and a signal to the synchronization object.
LEMMA HandOverMoves ==
  ASSUME NEW j \in Kernel, j.waitq[Object] # <<>>
  PROVE  Moved(j, HandOver(j))
<1> DEFINE t == Head(j.waitq[Object])
           r == WakeFor(dequeue(j, Object), t, "DONE")
<1>1. /\ t \in Thread /\ Called(j, r, t)
      /\ Sane(j) => Sane(r)
      /\ r.state[t] \subseteq j.state[t]
  BY ObjectAssumption, DequeueWakeCalled
<1>2. HandOver(j) = r
  BY DEF HandOver, WakeFor
<1> HIDE DEF t, r
<1> QED
  BY <1>1, <1>2, CalledMoved

\* A DSR changes the objects as one of these methods does.
LEMMA DsrMoves ==
  ASSUME k \in Kernel, ClockDsr \/ DeviceDsr
  PROVE  Moved(k, k')
<1>1. CASE ClockDsr
  BY <1>1, ClockMoves DEF ClockDsr
<1>2. CASE DeviceDsr
  <2>1. CASE k' = k
    BY <2>1, MovedSelf
  <2>2. CASE k.waitq[Object] # <<>> /\ k' = HandOver(k)
    BY <2>2, HandOverMoves
  <2>3. ASSUME NEW t \in AppThread,
               \/ k' = counted_wake(k, t) \/ k' = resume(k, t)
               \/ k' = suspend(k, t) \/ k' = release(k, t)
        PROVE  Moved(k, k')
    BY <2>3, MethodsMove DEF AppThread
  <2> QED
    BY <1>2, <2>1, <2>2, <2>3 DEF DeviceDsr
<1> QED
  BY <1>1, <1>2

\* The calls of kapi.cxx that neither block nor end the caller.
Prod(j, r) ==
  \/ \E t \in AppThread :
       \/ r = suspend(j, t) \/ r = release(j, t)
       \/ r = counted_wake(j, t) \/ r = cancel_counted_wake(j, t)
       \/ r = to_queue_head(j, t) \/ (t # j.current /\ r = kill(j, t))
       \/ \E p \in Pri : r = set_priority(j, t, p)
  \/ \E p \in Pri : r = rotate_queue(j, p)
  \/ j.waitq[Object] # <<>> /\ r = HandOver(j)

\* What one thread does to another takes nobody out of his place.
LEMMA ProdMoves ==
  ASSUME NEW j \in Kernel, NEW r, Prod(j, r)
  PROVE  Moved(j, r)
<1>1. ASSUME NEW t \in AppThread,
             \/ r = suspend(j, t) \/ r = release(j, t)
             \/ r = counted_wake(j, t) \/ r = cancel_counted_wake(j, t)
             \/ r = to_queue_head(j, t) \/ (t # j.current /\ r = kill(j, t))
             \/ \E p \in Pri : r = set_priority(j, t, p)
      PROVE  Moved(j, r)
  BY <1>1, MethodsMove DEF AppThread
<1>2. ASSUME NEW p \in Pri, r = rotate_queue(j, p) PROVE Moved(j, r)
  BY <1>2, RotateQueueKeeps, ReorderedMoved
<1>3. CASE j.waitq[Object] # <<>> /\ r = HandOver(j)
  BY <1>3, HandOverMoves
<1> QED
  BY <1>1, <1>2, <1>3 DEF Prod

\* The current thread is between two calls.
Calling == pc = "app" /\ then[current] = "none" /\ current # Idle

\* What a call can be.
CallShape ==
  \/ \E r : Prod(k, r) /\ Method(r, "none")
  \/ Exiting
  \/ k' = yield(k, current) /\ RescheduleAt(sched_lock, sched_lock + 1)
       /\ UNCHANGED then /\ Quiet
  \/ \E t \in AppThread : ResumeCheck(t)
  \/ CountedSleep
  \/ \E past \in BOOLEAN : CountedSleepUntil(past) \/ Delay(past)
  \/ Wait
  \/ SchedulerLock \/ SchedulerSafeLock \/ SchedulerUnlock

\* Every call of the application has one of these shapes.
LEMMA CallShapes ==
  ASSUME CallStep
  PROVE  Calling /\ CallShape
<1>1. ASSUME NEW t \in AppThread, Suspend(t) PROVE Calling /\ CallShape
  BY <1>1 DEF Suspend, CanCall, Calling, Prod, CallShape
<1>2. ASSUME NEW t \in AppThread, Kill(t) PROVE Calling /\ CallShape
  BY <1>2 DEF Kill, CanCall, Calling, Prod, CallShape
<1>3. ASSUME NEW t \in AppThread, Release(t) PROVE Calling /\ CallShape
  BY <1>3 DEF Release, CanCall, Calling, Prod, CallShape
<1>4. ASSUME NEW t \in AppThread, CountedWake(t) PROVE Calling /\ CallShape
  BY <1>4 DEF CountedWake, CanCall, Calling, Prod, CallShape
<1>5. ASSUME NEW t \in AppThread, CancelCountedWake(t) PROVE Calling /\ CallShape
  BY <1>5 DEF CancelCountedWake, CanCall, Calling, Prod, CallShape
<1>6. ASSUME NEW t \in AppThread, ToQueueHead(t) PROVE Calling /\ CallShape
  BY <1>6 DEF ToQueueHead, CanCall, Calling, Prod, CallShape
<1>7. ASSUME NEW t \in AppThread, ResumeCheck(t) PROVE Calling /\ CallShape
  BY <1>7 DEF ResumeCheck, CanCall, Calling, CallShape
<1>8. ASSUME NEW t \in AppThread, NEW p \in Pri \ {MinPri}, SetPriority(t, p)
      PROVE  Calling /\ CallShape
  BY <1>8 DEF SetPriority, CanCall, Calling, Prod, CallShape
<1>9. ASSUME NEW p \in Pri \ {MinPri}, RotateQueue(p) PROVE Calling /\ CallShape
  BY <1>9 DEF RotateQueue, CanCall, Calling, Prod, CallShape
<1>10. ASSUME NEW past \in BOOLEAN, CountedSleepUntil(past) \/ Delay(past)
       PROVE  Calling /\ CallShape
  BY <1>10 DEF CountedSleepUntil, Delay, CanBlock, CanCall, Calling, CallShape
<1>11. CASE CountedSleep \/ Wait
  BY <1>11 DEF CountedSleep, Wait, CanBlock, CanCall, Calling, CallShape
<1>12. CASE Signal
  BY <1>12 DEF Signal, CanCall, Calling, Prod, CallShape
<1>13. CASE Yield
  BY <1>13 DEF Yield, CanCall, Calling, CallShape
<1>14. CASE Exit
  BY <1>14 DEF Exit, CanCall, Calling, CallShape
<1>15. CASE SchedulerLock \/ SchedulerSafeLock \/ SchedulerUnlock
  BY <1>15 DEF SchedulerLock, SchedulerSafeLock, SchedulerUnlock, CanCall, Calling, CallShape
<1> QED
  BY <1>1, <1>2, <1>3, <1>4, <1>5, <1>6, <1>7, <1>8, <1>9, <1>10, <1>11, <1>12,
     <1>13, <1>14, <1>15 DEF CallStep

\* The queues are usable at startup.
LEMMA LockInit == Init => LockInv
<1> SUFFICES ASSUME Init PROVE LockInv
  OBVIOUS
<1>1. InitPri \in [Thread -> Pri] /\ MinPri \in Pri /\ MinPri \in Nat
  BY InitPriAssumption, PriAssumption DEF Pri
<1>2. Ticks \in Count /\ Idle \in Thread
  BY TickAssumption, ThreadAssumption DEF Count
<1>3. k \in Kernel
  <2>1. /\ [t \in Thread |-> IF t = Idle THEN RUNNING ELSE {"SUSPENDED"}]
             \in [Thread -> SUBSET StateBit]
        /\ [t \in Thread |-> IF t = Idle THEN 0 ELSE 1] \in [Thread -> Nat]
        /\ [t \in Thread |-> "NONE"] \in [Thread -> Reason]
        /\ [t \in Thread |-> NULL] \in [Thread -> WaitQueue \cup {NULL}]
        /\ [p \in Pri |-> IF p = MinPri THEN <<Idle>> ELSE <<>>] \in [Pri -> Seq(Thread)]
        /\ [q \in WaitQueue |-> <<>>] \in [WaitQueue -> Seq(Thread)]
    BY <1>1, <1>2 DEF RUNNING, StateBit, Reason
  <2> QED
    BY <1>1, <1>2, <2>1 DEF Init, Kernel
<1>4. Sane(k)
  <2>1. \A p \in Pri : k.run_queue[p] = IF p = MinPri THEN <<Idle>> ELSE <<>>
    BY DEF Init
  <2>2. MapAgrees(k)
    BY <1>1, <2>1 DEF Init, MapAgrees
  <2>3. IdleQueued(k)
    <3>1. Len(<<Idle>>) = 1 /\ <<Idle>>[1] = Idle
      OBVIOUS
    <3>2. On(<<Idle>>, Idle)
      BY <3>1 DEF On
    <3> QED
      BY <1>1, <2>1, <3>2 DEF IdleQueued
  <2> QED
    BY <1>3, <2>2, <2>3 DEF Sane
<1>5. TypeOK
  BY <1>2, <1>3 DEF Init, TypeOK, Pc, Continuation
<1>6. Control
  BY <1>2 DEF Init, Control, InPlace, LockOf, OwnLock
<1> QED
  BY <1>4, <1>5, <1>6 DEF LockInv

\* The queues stay usable when the current thread blocks or ends, ...
LEMMA BlockedSane ==
  ASSUME NEW j, Sane(j), j.current # Idle, NEW r, Blocked(j, r)
  PROVE  Sane(r) /\ r.current = j.current
BY DEF Blocked, OnlyAbout

\* exit keeps the kernel's objects well formed and leaves the processor to unlock.
LEMMA ExitSane ==
  ASSUME NEW j, Sane(j), j.current # Idle
  PROVE  Sane(exit(j)) /\ exit(j).current = j.current
<1>1. j \in Kernel
  BY DEF Sane
<1> QED
  BY <1>1, ExitKeeps DEF OnlyAbout

\* ... and a call keeps the lock as the threads count it.
LEMMA ExitLock ==
  ASSUME LockInv, pc = "app", current # Idle, Exiting
  PROVE  LockInv'
<1>1. Sane(k') /\ k'.current = current
  BY ExitSane DEF LockInv, Exiting
<1>2. k' \in Kernel /\ sched_lock + 1 \in Nat /\ sched_lock + 1 # 0
  BY <1>1 DEF Sane, LockInv, TypeOK
<1>3. /\ RescheduleAt(sched_lock + 1, sched_lock + 1) /\ Quiet
      /\ then' = [then EXCEPT ![current] = "dead"]
  BY DEF Exiting
<1>4. TypeOK' /\ Control'
  BY <1>1, <1>2, <1>3, RescheduleControl DEF LockInv
<1> QED
  BY <1>1, <1>4 DEF LockInv

\* Whoever runs the application holds the locks he counts, and his own.
LEMMA LockOfCurrent ==
  ASSUME LockInv, pc = "app", then[current] \notin {"fresh", "dead"}
  PROVE  /\ current \in Thread /\ held[current] \in Nat
         /\ sched_lock = held[current] + OwnLock(current)
         /\ OwnLock(current) = 0 => sched_lock = held[current]
<1>1. current \in Thread
  BY DEF LockInv, TypeOK, Kernel
<1>2. held[current] \in Nat
  BY <1>1 DEF LockInv, TypeOK
<1>3. sched_lock = held[current] + OwnLock(current)
  BY <1>1 DEF LockInv, Control, InPlace, LockOf
<1> QED
  BY <1>1, <1>2, <1>3

\* A call that locks, does its work and unlocks keeps the lock right.
LEMMA MethodLock ==
  ASSUME LockInv, Calling, NEW rest \in {"none", "counted", "delay"}, NEW r,
         Method(r, rest), Sane(r), r.current = current
  PROVE  LockInv'
<1>1. /\ k' = r /\ UnlockFrom(sched_lock + 1) /\ then' = [then EXCEPT ![current] = rest]
      /\ UNCHANGED <<arg, held, dsr_list, batch>>
  BY DEF Method, Quiet
<1>2. r \in Kernel /\ current \in Thread
  BY DEF Sane, LockInv, Kernel
<1>3. sched_lock = held[current]
  BY LockOfCurrent DEF Calling, OwnLock
<1>4. sched_lock + 1 \in Nat \ {0} /\ held \in [Thread -> Nat] /\ arg \in [Thread -> Thread]
  BY DEF LockInv, TypeOK
<1>5. TypeOK' /\ Control'
  BY <1>1, <1>2, <1>3, <1>4, UnlockControl DEF LockInv, Calling
<1> QED
  BY <1>1, <1>5 DEF LockInv

\* So does every call of the application.
LEMMA CallLock ==
  ASSUME LockInv, CallStep
  PROVE  LockInv'
<1>1. Calling /\ CallShape
  BY CallShapes
<1>2. /\ k \in Kernel /\ Sane(k) /\ TypeOK /\ Control
      /\ pc = "app" /\ then[current] = "none" /\ current # Idle
  BY <1>1 DEF LockInv, TypeOK, Calling
<1>3. /\ current \in Thread /\ sched_lock = held[current]
      /\ sched_lock \in Nat /\ held \in [Thread -> Nat] /\ arg \in [Thread -> Thread]
      /\ then \in [Thread -> Continuation]
  BY <1>1, <1>2, LockOfCurrent DEF LockInv, TypeOK, OwnLock, Calling
<1>4. ASSUME NEW r, Prod(k, r), Method(r, "none") PROVE LockInv'
  <2>1. Sane(r) /\ r.current = current
    BY <1>2, <1>4, ProdMoves DEF Moved
  <2> QED
    BY <1>1, <1>4, <2>1, MethodLock
<1>5. CASE Exiting
  BY <1>2, <1>5, ExitLock
<1>6. CASE k' = yield(k, current) /\ RescheduleAt(sched_lock, sched_lock + 1)
           /\ UNCHANGED then /\ Quiet
  <2>1. Moved(k, k')
    BY <1>2, <1>3, <1>6, YieldKeeps, ReorderedMoved
  <2>2. Sane(k') /\ k' \in Kernel /\ k'.current = current
    BY <1>2, <2>1 DEF Moved
  <2>3. then' = [then EXCEPT ![current] = "none"]
    BY <1>2, <1>3, <1>6
  <2>4. /\ sched_lock + 1 \in {1, sched_lock, sched_lock + 1}
        /\ sched_lock + 1 # 0
        /\ sched_lock = 0 => sched_lock + 1 = 1
    BY <1>3
  <2>5. TypeOK' /\ Control'
    BY <1>2, <1>3, <1>6, <2>2, <2>3, <2>4, RescheduleControl
  <2> QED
    BY <2>2, <2>5 DEF LockInv
<1>7. ASSUME NEW t \in AppThread, ResumeCheck(t) PROVE LockInv'
  <2>1. k' = k /\ t \in Thread /\ t # Idle
    BY <1>7 DEF ResumeCheck, AppThread
  <2>2. PICK rest \in {"reinit", "resume"} : then' = [then EXCEPT ![current] = rest]
    BY <1>7 DEF ResumeCheck
  <2>3. /\ arg' \in [Thread -> Thread] /\ arg'[current] # Idle
        /\ \A u \in Thread \ {current} : arg'[u] = arg[u]
    BY <1>3, <1>7, <2>1 DEF ResumeCheck
  <2>4. UNCHANGED <<sched_lock, pc, new_lock, held, dsr_list, batch>>
    BY <1>7 DEF ResumeCheck
  <2>5. TypeOK' /\ Control'
    BY <1>2, <2>1, <2>2, <2>3, <2>4, OutsideControl
  <2> QED
    BY <1>2, <2>1, <2>5 DEF LockInv
<1>8. ASSUME NEW r, Blocked(k, r) PROVE Sane(r) /\ r \in Kernel /\ r.current = current
  BY <1>2, <1>8, BlockedSane DEF Sane
<1>9. CASE CountedSleep
  BY <1>1, <1>2, <1>8, <1>9, CountedSleepBlocks, MethodLock DEF CountedSleep
<1>10. ASSUME sched_lock = 0, RescheduleAt(1, 1), Quiet, Blocked(k, k'),
              NEW rest \in {"timed", "waiting"}, then' = [then EXCEPT ![current] = rest]
       PROVE  LockInv'
  <2>1. Sane(k') /\ k' \in Kernel /\ k'.current = current
    BY <1>8, <1>10
  <2> DEFINE lock == 1
  <2>2. lock \in Nat /\ lock # 0 /\ lock \in {1, lock, lock + 1} /\ lock = held[current] + 1
    BY <1>3, <1>10
  <2>3. RescheduleAt(lock, lock)
    BY <1>10
  <2> HIDE DEF lock
  <2>4. TypeOK' /\ Control'
    BY <1>2, <1>10, <2>1, <2>2, <2>3, RescheduleControl
  <2> QED
    BY <2>1, <2>4 DEF LockInv
<1>11. ASSUME NEW past \in BOOLEAN, CountedSleepUntil(past) PROVE LockInv'
  <2> DEFINE r == counted_sleep_until(k, past)
  <2>1. Blocked(k, r)
    BY <1>2, CountedSleepUntilBlocks
  <2>2. CASE r.state[current] = RUNNING
    BY <1>1, <1>8, <1>11, <2>1, <2>2, MethodLock DEF CountedSleepUntil
  <2>3. CASE r.state[current] # RUNNING
    BY <1>10, <1>11, <2>1, <2>3 DEF CountedSleepUntil, CanBlock
  <2> QED
    BY <2>2, <2>3
<1>12. ASSUME NEW past \in BOOLEAN, Delay(past) PROVE LockInv'
  BY <1>1, <1>2, <1>8, <1>12, DelayBlocks, MethodLock DEF Delay
<1>13. CASE Wait
  <2>1. Blocked(k, k')
    BY <1>2, <1>13, ObjectAssumption, WaitBlocks DEF Wait, SleepFor
  <2> QED
    BY <1>10, <1>13, <2>1 DEF Wait, CanBlock
<1>14. CASE SchedulerLock \/ SchedulerSafeLock
  <2>1. /\ k' = k /\ UNCHANGED <<pc, new_lock, then, arg, dsr_list, batch>>
        /\ sched_lock' = sched_lock + 1
        /\ held' = [held EXCEPT ![current] = @ + 1]
    BY <1>3, <1>14 DEF SchedulerLock, SchedulerSafeLock
  <2>2. TypeOK'
    BY <1>2, <1>3, <2>1 DEF TypeOK
  <2>3. ASSUME NEW t \in Thread PROVE InPlace(t)'
    <3>1. CASE t = current
      BY <1>2, <1>3, <2>1, <3>1 DEF InPlace, LockOf, OwnLock
    <3>2. CASE t # current
      BY <1>2, <1>3, <2>1, <3>2 DEF Control, InPlace, LockOf, OwnLock
    <3> QED
      BY <3>1, <3>2
  <2>4. Control'
    BY <1>2, <1>3, <2>1, <2>3 DEF Control
  <2> QED
    BY <1>2, <2>1, <2>2, <2>4 DEF LockInv
<1>15. CASE SchedulerUnlock
  <2>1. /\ k' = k /\ UnlockFrom(sched_lock) /\ UNCHANGED <<then, arg, dsr_list, batch>>
        /\ held' = [held EXCEPT ![current] = @ - 1] /\ held[current] > 0
    BY <1>15 DEF SchedulerUnlock
  <2>2. /\ then' = [then EXCEPT ![current] = "none"]
        /\ held' \in [Thread -> Nat] /\ sched_lock = held'[current] + 1
        /\ \A t \in Thread \ {current} : held'[t] = held[t]
        /\ sched_lock \in Nat \ {0}
    BY <1>2, <1>3, <2>1
  <2>3. TypeOK' /\ Control'
    BY <1>2, <1>3, <2>1, <2>2, UnlockControl
  <2> QED
    BY <1>2, <2>1, <2>3 DEF LockInv
<1> QED
  BY <1>1, <1>4, <1>5, <1>6, <1>7, <1>9, <1>11, <1>12, <1>13, <1>14, <1>15
  DEF CallShape

\* Whoever is back from unlock_inner is not the idle thread, ...
LEMMA ReturnerApp ==
  ASSUME LockInv, ReturnStep
  PROVE  /\ pc = "app" /\ current # Idle
         /\ then[current] \in {"reinit", "resume", "timed", "delay", "waiting", "counted"}
<1>1. pc = "app" /\ then[current] \in {"reinit", "resume", "timed", "delay", "waiting", "counted"}
  BY DEF ReturnStep, Reinitialize, ResumeCall, AfterTimedSleep, AfterDelay, AfterWait, AfterSleep
<1> QED
  BY <1>1 DEF LockInv, Control

\* ... and what is left of its call keeps the lock, ...
LEMMA ReturnLock ==
  ASSUME LockInv, ReturnStep
  PROVE  LockInv'
<1>1. /\ k \in Kernel /\ Sane(k) /\ TypeOK /\ Control
      /\ pc = "app" /\ current # Idle
      /\ then[current] \in {"reinit", "resume", "timed", "delay", "waiting", "counted"}
  BY ReturnerApp DEF LockInv, TypeOK
<1>2. /\ current \in Thread /\ held[current] \in Nat
      /\ sched_lock = held[current] + OwnLock(current)
      /\ OwnLock(current) = 0 => sched_lock = held[current]
  BY <1>1, LockOfCurrent
<1>3. /\ sched_lock \in Nat /\ held \in [Thread -> Nat] /\ arg \in [Thread -> Thread]
      /\ then \in [Thread -> Continuation] /\ new_lock \in [Thread -> Nat]
  BY <1>1 DEF TypeOK
<1>4. clear_timer(k, current) \in Kernel /\ Sane(clear_timer(k, current))
        /\ clear_timer(k, current).current = current
  BY <1>1, <1>2, ClearTimerKeeps, SameQueuesKeep DEF SameQueues
<1>5. CASE Reinitialize
  <2> DEFINE t == arg[current]
  <2>1. /\ then[current] = "reinit" /\ t # Idle /\ t \in Thread
        /\ sched_lock = held[current]
    BY <1>1, <1>2, <1>3, <1>5 DEF Reinitialize, Control, InPlace, OwnLock
  <2>2. Sane(k') /\ k' \in Kernel /\ k'.current = current
    BY <1>1, <1>5, <2>1, ReinitializeKeeps DEF Reinitialize, OnlyAbout
  <2>3. /\ UnlockFrom(sched_lock + 1)
        /\ then' = [then EXCEPT ![current] = "resume", ![t] = "fresh"]
        /\ held' = [held EXCEPT ![t] = 0]
        /\ arg' = [arg EXCEPT ![t] = Idle]
        /\ UNCHANGED <<dsr_list, batch>>
    BY <1>5 DEF Reinitialize
  <2> HIDE DEF t
  <2>4. /\ sched_lock' \in Nat /\ pc' \in Pc /\ sched_lock' # 0
        /\ pc' \in {"app", "loop"}
        /\ pc' = "loop" => sched_lock' = 1 /\ new_lock'[current] = 0 /\ held[current] = 0
        /\ pc' = "app" => sched_lock' = held[current]
        /\ new_lock' \in [Thread -> Nat]
        /\ \A u \in Thread \ {current} : new_lock'[u] = new_lock[u]
    <3>1. CASE sched_lock = 0
      BY <1>2, <1>3, <2>1, <2>3, <3>1 DEF UnlockFrom, Pc
    <3>2. CASE sched_lock # 0
      BY <1>2, <1>3, <2>1, <2>3, <3>2 DEF UnlockFrom, Pc
    <3> QED
      BY <3>1, <3>2
  <2>5. then' \in [Thread -> Continuation] /\ held' \in [Thread -> Nat] /\ arg' \in [Thread -> Thread]
    BY <1>3, <2>3, ThreadAssumption DEF Continuation
  <2>6. TypeOK'
    BY <1>1, <2>2, <2>3, <2>4, <2>5 DEF TypeOK
  <2>7. ASSUME NEW u \in Thread PROVE InPlace(u)'
    <3>1. CASE u = t
      BY <1>3, <2>3, <3>1 DEF InPlace
    <3>2. CASE u # t /\ u = current
      <4>1. then'[u] = "resume" /\ held'[u] = held[u] /\ arg'[u] = arg[u] /\ arg[u] # Idle
        BY <1>2, <1>3, <2>1, <2>3, <3>2 DEF t
      <4> QED
        BY <1>2, <2>2, <2>4, <3>2, <4>1 DEF InPlace, LockOf, OwnLock
    <3>3. CASE u # t /\ u # current
      <4>1. /\ then'[u] = then[u] /\ held'[u] = held[u] /\ arg'[u] = arg[u]
            /\ new_lock'[u] = new_lock[u]
        BY <1>3, <2>3, <2>4, <3>3
      <4> QED
        BY <1>1, <2>2, <3>3, <4>1 DEF Control, InPlace, LockOf, OwnLock
    <3> QED
      BY <3>1, <3>2, <3>3
  <2>8. then'[Idle] \in {"fresh", "none"}
    BY <1>1, <1>3, <2>1, <2>3, ThreadAssumption DEF Control
  <2>9. Control'
    BY <1>1, <2>2, <2>3, <2>4, <2>7, <2>8 DEF Control
  <2> QED
    BY <2>2, <2>6, <2>9 DEF LockInv
<1>6. CASE ResumeCall
  <2>1. arg[current] \in Thread /\ arg[current] # Idle
    BY <1>1, <1>2, <1>3, <1>6 DEF ResumeCall, Control, InPlace
  <2>2. k' \in Kernel /\ Sane(k') /\ k'.current = current
    BY <1>1, <1>6, <2>1, MethodsMove DEF ResumeCall, Moved
  <2>3. /\ UnlockFrom(sched_lock + 1) /\ then' = [then EXCEPT ![current] = "none"]
        /\ held' = held /\ UNCHANGED <<dsr_list, batch>>
        /\ arg' \in [Thread -> Thread]
        /\ \A u \in Thread \ {current} : arg'[u] = arg[u]
    BY <1>3, <1>6, ThreadAssumption DEF ResumeCall
  <2>4. sched_lock + 1 \in Nat \ {0} /\ sched_lock + 1 = held'[current] + 1
    BY <1>2, <1>3, <1>6, <2>3 DEF ResumeCall, OwnLock
  <2>5. TypeOK' /\ Control'
    BY <1>1, <1>3, <2>2, <2>3, <2>4, UnlockControl
  <2> QED
    BY <2>2, <2>5 DEF LockInv
<1>7. CASE AfterTimedSleep
  <2>1. /\ k' = clear_timer(k, current) /\ UnlockFrom(sched_lock)
        /\ then' = [then EXCEPT ![current] = "counted"] /\ Quiet
        /\ then[current] = "timed"
    BY <1>7 DEF AfterTimedSleep
  <2>2. sched_lock = held[current] + 1 /\ sched_lock \in Nat \ {0}
    BY <1>2, <1>3, <2>1 DEF OwnLock
  <2>3. TypeOK' /\ Control'
    BY <1>1, <1>2, <1>3, <1>4, <2>1, <2>2, UnlockControl DEF Quiet
  <2> QED
    BY <1>4, <2>1, <2>3 DEF LockInv
<1>8. CASE AfterDelay
  <2>1. /\ k' = clear_timer(k, current)
        /\ then' = [then EXCEPT ![current] = "counted"] /\ then[current] = "delay"
        /\ UNCHANGED <<sched_lock, pc, new_lock, arg, held, dsr_list, batch>>
    BY <1>8 DEF AfterDelay
  <2>2. TypeOK' /\ Control'
    BY <1>1, <1>3, <1>4, <2>1, OutsideControl
  <2> QED
    BY <1>4, <2>1, <2>2 DEF LockInv
<1>9. CASE (AfterWait \/ AfterSleep) /\ k.wake_reason[current] = "EXIT"
  BY <1>1, <1>9, ExitLock DEF AfterWait, AfterSleep
<1>10. CASE AfterWait /\ k.wake_reason[current] # "EXIT"
  <2>1. /\ k' = k /\ UnlockFrom(sched_lock)
        /\ then' = [then EXCEPT ![current] = "none"] /\ Quiet
        /\ then[current] = "waiting"
    BY <1>10 DEF AfterWait
  <2>2. sched_lock = held[current] + 1 /\ sched_lock \in Nat \ {0}
    BY <1>2, <1>3, <2>1 DEF OwnLock
  <2>3. TypeOK' /\ Control'
    BY <1>1, <1>2, <1>3, <2>1, <2>2, UnlockControl DEF Quiet
  <2> QED
    BY <1>1, <2>1, <2>3 DEF LockInv
<1>11. CASE AfterSleep /\ k.wake_reason[current] # "EXIT"
  <2>1. /\ then' = [then EXCEPT ![current] = "none"] /\ then[current] = "counted"
        /\ UNCHANGED <<k, sched_lock, pc, new_lock, arg, held, dsr_list, batch>>
    BY <1>11 DEF AfterSleep
  <2>2. TypeOK' /\ Control'
    BY <1>1, <1>3, <2>1, OutsideControl
  <2> QED
    BY <1>1, <2>1, <2>2 DEF LockInv
<1> QED
  BY <1>5, <1>6, <1>7, <1>8, <1>9, <1>10, <1>11 DEF ReturnStep

\* A new thread is switched to in thread_entry.
LEMMA EnterSwitches ==
  ASSUME NEW j, Sane(j)
  PROVE  /\ Switched(j, Enter(j, schedule(j)))
         /\ \A c \in Count, u \in Thread :
              Switched(j, Enter([j EXCEPT !.slice[u] = c], schedule(j)))
<1> DEFINE next == schedule(j)
<1>1. j \in Kernel /\ next \in Thread /\ Ticks \in Count
  BY ScheduleBest, TickAssumption DEF Sane, Count
<1> HIDE DEF next
<1>2. Switched(j, Enter(j, next))
  <2>1. Enter(j, next) \in Kernel
    BY <1>1 DEF Enter, Kernel
  <2> QED
    BY <1>1, <2>1 DEF Enter, Kernel, Switched, SamePriorities, SameWaitQueues, next
<1>3. ASSUME NEW c \in Count, NEW u \in Thread
      PROVE  Switched(j, Enter([j EXCEPT !.slice[u] = c], next))
  <2> DEFINE a == [j EXCEPT !.slice[u] = c]
  <2>1. a \in Kernel
    BY <1>1 DEF Kernel
  <2>2. /\ a.state = j.state
        /\ a.suspend_count = j.suspend_count /\ a.wakeup_count = j.wakeup_count
        /\ a.sleep_reason = j.sleep_reason /\ a.wake_reason = j.wake_reason
        /\ a.timer = j.timer
        /\ a.run_queue = j.run_queue /\ a.queue_map = j.queue_map
        /\ SamePriorities(j, a) /\ SameWaitQueues(j, a)
    BY <1>1 DEF Kernel, SamePriorities, SameWaitQueues
  <2> HIDE DEF a
  <2>3. Enter(a, next) \in Kernel
    BY <1>1, <2>1 DEF Enter, Kernel
  <2>4. Switched(a, Enter(a, next)) \/ schedule(a) # next
    BY <2>1, <2>3 DEF Enter, Kernel, Switched, SamePriorities, SameWaitQueues
  <2>5. schedule(a) = next
    BY <2>2 DEF schedule, next
  <2>6. Switched(j, Enter(a, next))
    BY <2>2, <2>4, <2>5 DEF Switched, SamePriorities, SameWaitQueues, next
  <2> QED
    BY <2>6 DEF a
<1> QED
  BY <1>2, <1>3 DEF next

\* SwitchContext leaves the objects alone, or switches, or finds that the
\* current thread is the best.
LEMMA SwitchContextSwitches ==
  ASSUME Sane(k), SwitchContext
  PROVE  /\ \/ Switched(k, k')
            \/ k' = k /\ k.state[current] = RUNNING /\ ~k.need_reschedule
         /\ \/ /\ then[k'.current] = "fresh" /\ k'.current # current
               /\ then' = [then EXCEPT ![k'.current] = "none"]
               /\ new_lock' = [new_lock EXCEPT ![k'.current] = 0]
               /\ sched_lock' = 1 /\ pc' = "loop"
            \/ /\ k'.current = current \/ then[k'.current] # "fresh"
               /\ pc' = "unlock" /\ UNCHANGED <<sched_lock, new_lock, then>>
         /\ pc = "switch" /\ UNCHANGED <<arg, held, dsr_list, batch>>
<1> DEFINE wanted == k.state[current] # RUNNING \/ k.need_reschedule
           next == schedule(k)
           c == k.timeslice_count
           saved == [k EXCEPT !.slice[current] = c]
<1>1. k \in Kernel /\ next \in Thread /\ c \in Count /\ current \in Thread
  BY ScheduleBest DEF Sane, Kernel
<1>2. CASE wanted /\ next # current /\ then[next] = "fresh"
  <2>1. /\ k' = Enter(saved, next)
        /\ then' = [then EXCEPT ![next] = "none"]
        /\ new_lock' = [new_lock EXCEPT ![next] = 0]
        /\ sched_lock' = 1 /\ pc' = "loop"
        /\ pc = "switch" /\ UNCHANGED <<arg, held, dsr_list, batch>>
    BY <1>2 DEF SwitchContext
  <2>2. Switched(k, k')
    BY <1>1, <2>1, EnterSwitches
  <2>3. k'.current = next
    BY <2>2 DEF Switched
  <2> HIDE DEF next
  <2> QED
    BY <1>2, <2>1, <2>2, <2>3
<1>3. CASE ~(wanted /\ next # current /\ then[next] = "fresh")
  <2>1. /\ k' = IF ~wanted THEN k
                ELSE IF next = current THEN [k EXCEPT !.need_reschedule = FALSE]
                ELSE [saved EXCEPT !.current = next, !.need_reschedule = FALSE,
                                   !.timeslice_count = saved.slice[next]]
        /\ pc' = "unlock" /\ UNCHANGED <<sched_lock, new_lock, then>>
        /\ pc = "switch" /\ UNCHANGED <<arg, held, dsr_list, batch>>
    BY <1>3 DEF SwitchContext
  <2>2. CASE ~wanted
    BY <2>1, <2>2
  <2>3. CASE wanted /\ next = current
    <3>1. k' = [k EXCEPT !.need_reschedule = FALSE]
      BY <2>1, <2>3
    <3>2. Switched(k, k')
      BY <2>3, <3>1, SwitchedTo
    <3>3. k'.current = next
      BY <3>2 DEF Switched
    <3> QED
      BY <2>1, <2>3, <3>2, <3>3
  <2>4. CASE wanted /\ next # current
    <3>1. k' = [saved EXCEPT !.current = next, !.need_reschedule = FALSE,
                             !.timeslice_count = saved.slice[next]]
      BY <2>1, <2>4
    <3>2. Switched(k, k') /\ k'.current = next
      BY <3>1, SwitchedTo DEF Switched
    <3>3. then[next] # "fresh"
      BY <1>3, <2>4
    <3> QED
      BY <2>1, <3>2, <3>3
  <2> QED
    BY <2>2, <2>3, <2>4
<1> QED
  BY <1>2, <1>3

\* ... so do the steps of unlock_inner, ...
LEMMA KernelLock ==
  ASSUME LockInv, KernelStep
  PROVE  LockInv'
<1>1. /\ k \in Kernel /\ Sane(k) /\ TypeOK /\ Control /\ current \in Thread
      /\ new_lock \in [Thread -> Nat] /\ then \in [Thread -> Continuation]
      /\ dsr_list \in Seq(Interrupt) /\ batch \in Seq(Interrupt)
  BY DEF LockInv, TypeOK, Kernel
<1>2. CASE start_cpu
  <2> DEFINE next == schedule(k)
  <2>1. Switched(k, k') /\ next \in Thread
    BY <1>1, <1>2, EnterSwitches, ScheduleBest DEF start_cpu
  <2>2. /\ k' \in Kernel /\ k'.current = next /\ Sane(k')
    BY <1>1, <2>1, SwitchedSane DEF Switched
  <2>3. /\ pc = "boot" /\ pc' = "loop" /\ sched_lock' = 1
        /\ then' = [then EXCEPT ![next] = "none"]
        /\ new_lock' = [new_lock EXCEPT ![next] = 0]
        /\ UNCHANGED <<arg, held, dsr_list, batch>>
    BY <1>2 DEF start_cpu
  <2> HIDE DEF next
  <2>4. TypeOK'
    BY <1>1, <2>1, <2>2, <2>3 DEF TypeOK, Pc, Continuation
  <2>5. ASSUME NEW t \in Thread PROVE InPlace(t)'
    <3>1. then[t] = "fresh" /\ held[t] = 0
      BY <1>1, <2>3 DEF Control, InPlace
    <3>2. CASE t = next
      <4>1. then'[t] = "none" /\ new_lock'[t] = 0 /\ held'[t] = 0
        BY <1>1, <2>3, <3>1, <3>2
      <4> QED
        BY <2>3, <4>1 DEF InPlace, LockOf, OwnLock
    <3>3. CASE t # next
      <4>1. then'[t] = "fresh" /\ held'[t] = 0
        BY <1>1, <2>3, <3>1, <3>3
      <4> QED
        BY <4>1 DEF InPlace
    <3> QED
      BY <3>2, <3>3
  <2>6. then'[Idle] \in {"fresh", "none"} /\ new_lock'[next] = 0
    BY <1>1, <2>1, <2>3, ThreadAssumption DEF Control
  <2>7. Control'
    BY <1>1, <2>2, <2>3, <2>5, <2>6 DEF Control
  <2> QED
    BY <2>2, <2>4, <2>7 DEF LockInv
<1>3. CASE call_pending_DSRs
  <2>1. /\ pc = "loop" /\ pc' \in {"switch", "dsrs"}
        /\ pc' = "dsrs" <=> batch' # <<>>
        /\ dsr_list' = <<>> /\ batch' = dsr_list
        /\ UNCHANGED <<k, sched_lock, new_lock, then, arg, held>>
    BY <1>3 DEF call_pending_DSRs
  <2>2. TypeOK'
    BY <1>1, <2>1 DEF TypeOK, Pc
  <2>3. \A t \in Thread : InPlace(t)'
    BY <1>1, <2>1 DEF Control, InPlace, LockOf, OwnLock
  <2>4. Control'
    BY <1>1, <2>1, <2>3 DEF Control
  <2> QED
    BY <1>1, <2>1, <2>2, <2>4 DEF LockInv
<1>4. CASE ClockDsr \/ DeviceDsr
  <2>1. k' \in Kernel /\ k'.current = current /\ Sane(k')
    BY <1>1, <1>4, DsrMoves DEF Moved
  <2>2. /\ pc = "dsrs" /\ DsrDone
    BY <1>4 DEF ClockDsr, DeviceDsr
  <2>3. batch # <<>> /\ batch' \in Seq(Interrupt)
    BY <1>1, <2>2 DEF Control, DsrDone
  <2>4. /\ pc' \in {"switch", "dsrs"}
        /\ pc' = "dsrs" <=> batch' # <<>>
        /\ UNCHANGED <<sched_lock, new_lock, then, arg, held, dsr_list>>
    BY <2>2 DEF DsrDone
  <2>5. TypeOK'
    BY <1>1, <2>1, <2>3, <2>4 DEF TypeOK, Pc
  <2>6. \A t \in Thread : InPlace(t)'
    BY <1>1, <2>2, <2>4 DEF Control, InPlace, LockOf, OwnLock
  <2>7. Control'
    BY <1>1, <2>1, <2>2, <2>4, <2>6 DEF Control
  <2> QED
    BY <2>1, <2>5, <2>7 DEF LockInv
<1>5. CASE SwitchContext
  <2> DEFINE next == k'.current
  <2>1. /\ \/ Switched(k, k')
           \/ k' = k /\ k.state[current] = RUNNING /\ ~k.need_reschedule
        /\ \/ /\ then[next] = "fresh" /\ next # current
              /\ then' = [then EXCEPT ![next] = "none"]
              /\ new_lock' = [new_lock EXCEPT ![next] = 0]
              /\ sched_lock' = 1 /\ pc' = "loop"
           \/ /\ next = current \/ then[next] # "fresh"
              /\ pc' = "unlock" /\ UNCHANGED <<sched_lock, new_lock, then>>
        /\ pc = "switch" /\ UNCHANGED <<arg, held, dsr_list, batch>>
    BY <1>1, <1>5, SwitchContextSwitches
  <2>2. k' \in Kernel /\ Sane(k') /\ next \in Thread
    BY <1>1, <2>1, SwitchedSane DEF Switched, Kernel
  <2>3. batch = <<>> /\ sched_lock # 0 /\ sched_lock \in Nat
    BY <1>1, <2>1 DEF Control, TypeOK
  <2>4. CASE pc' = "loop"
    <3>1. /\ then[next] = "fresh"
          /\ then' = [then EXCEPT ![next] = "none"]
          /\ new_lock' = [new_lock EXCEPT ![next] = 0]
          /\ sched_lock' = 1
      BY <2>1, <2>4
    <3> HIDE DEF next
    <3>2. TypeOK'
      BY <1>1, <2>1, <2>2, <2>4, <3>1 DEF TypeOK, Pc, Continuation
    <3>3. ASSUME NEW t \in Thread PROVE InPlace(t)'
      <4>1. CASE t = next
        <5>1. then'[t] = "none" /\ new_lock'[t] = 0 /\ held'[t] = 0
          BY <1>1, <2>1, <2>2, <3>1, <4>1 DEF Control, InPlace
        <5> QED
          BY <2>4, <5>1 DEF InPlace, LockOf, OwnLock
      <4>2. CASE t # next
        <5>1. /\ then'[t] = then[t] /\ held'[t] = held[t] /\ arg'[t] = arg[t]
              /\ new_lock'[t] = new_lock[t]
          BY <1>1, <2>1, <3>1, <4>2
        <5> QED
          BY <1>1, <2>1, <2>4, <5>1 DEF Control, InPlace, LockOf, OwnLock
      <4> QED
        BY <4>1, <4>2
    <3>4. then'[Idle] \in {"fresh", "none"} /\ new_lock'[next] = 0
      BY <1>1, <2>2, <3>1, ThreadAssumption DEF Control
    <3>5. Control'
      BY <1>1, <2>1, <2>3, <2>4, <3>1, <3>3, <3>4 DEF Control, next
    <3> QED
      BY <2>2, <3>2, <3>5 DEF LockInv
  <2>5. CASE pc' # "loop"
    <3>1. pc' = "unlock" /\ UNCHANGED <<sched_lock, new_lock, then, arg, held, dsr_list, batch>>
      BY <2>1, <2>5
    <3>2. TypeOK'
      BY <1>1, <2>2, <3>1 DEF TypeOK, Pc
    <3>3. \A t \in Thread : InPlace(t)'
      BY <1>1, <2>1, <3>1 DEF Control, InPlace, LockOf, OwnLock
    <3>4. Control'
      BY <1>1, <2>1, <2>3, <3>1, <3>3 DEF Control
    <3> QED
      BY <2>2, <3>2, <3>4 DEF LockInv
  <2> QED
    BY <2>4, <2>5
<1>6. CASE FinishUnlock
  <2>1. /\ pc = "unlock" /\ UNCHANGED <<k, new_lock, then, arg, held, dsr_list, batch>>
        /\ \/ /\ new_lock[current] = 0 /\ dsr_list # <<>>
              /\ sched_lock' = 1 /\ pc' = "loop"
           \/ /\ new_lock[current] # 0 \/ dsr_list = <<>>
              /\ sched_lock' = new_lock[current] /\ pc' = "app"
    BY <1>6 DEF FinishUnlock
  <2>2. TypeOK'
    BY <1>1, <2>1 DEF TypeOK, Pc
  <2>3. \A t \in Thread : InPlace(t)'
    BY <1>1, <2>1 DEF Control, InPlace, LockOf, OwnLock
  <2>4. Control'
    BY <1>1, <2>1, <2>3 DEF Control
  <2> QED
    BY <1>1, <2>1, <2>2, <2>4 DEF LockInv
<1> QED
  BY <1>2, <1>3, <1>4, <1>5, <1>6 DEF KernelStep

\* ... an interrupt, and a thread resumed at startup.
LEMMA InterruptLock ==
  ASSUME LockInv, NEW i \in Interrupt, Interrupted(i)
  PROVE  LockInv'
<1>1. /\ k \in Kernel /\ Sane(k) /\ TypeOK /\ Control /\ current \in Thread
      /\ new_lock \in [Thread -> Nat] /\ dsr_list \in Seq(Interrupt)
  BY DEF LockInv, TypeOK, Kernel
<1>2. /\ pc # "boot" /\ dsr_list' \in Seq(Interrupt)
      /\ \/ /\ sched_lock = 0 /\ sched_lock' = 1 /\ pc' = "loop"
            /\ new_lock' = [new_lock EXCEPT ![current] = 0]
         \/ sched_lock # 0 /\ UNCHANGED <<sched_lock, pc, new_lock>>
      /\ UNCHANGED <<k, then, arg, held, batch>>
  BY <1>1 DEF Interrupted, post_dsr
<1>3. TypeOK'
  <2>0. sched_lock \in Nat /\ pc \in Pc
    BY <1>1 DEF TypeOK
  <2>1. CASE sched_lock = 0
    <3>1. sched_lock' = 1 /\ pc' = "loop" /\ new_lock' = [new_lock EXCEPT ![current] = 0]
      BY <1>2, <2>1
    <3>2. sched_lock' \in Nat /\ pc' \in Pc
      BY <3>1 DEF Pc
    <3>3. new_lock' \in [Thread -> Nat]
      BY <1>1, <3>1
    <3> QED
      BY <1>1, <1>2, <3>2, <3>3 DEF TypeOK
  <2>2. CASE sched_lock # 0
    BY <1>1, <1>2, <2>0, <2>2 DEF TypeOK
  <2> QED
    BY <2>1, <2>2
<1>4. ASSUME NEW t \in Thread PROVE InPlace(t)'
  <2>1. CASE sched_lock = 0
    <3>1. pc = "app" /\ pc' = "loop" /\ new_lock' = [new_lock EXCEPT ![current] = 0]
      BY <1>1, <1>2, <2>1 DEF Control
    <3> QED
      BY <1>1, <1>2, <2>1, <3>1 DEF Control, InPlace, LockOf, OwnLock
  <2>2. CASE sched_lock # 0
    BY <1>1, <1>2, <2>2 DEF Control, InPlace, LockOf, OwnLock
  <2> QED
    BY <2>1, <2>2
<1>5. Control'
  BY <1>1, <1>2, <1>4 DEF Control
<1> QED
  BY <1>1, <1>2, <1>3, <1>5 DEF LockInv

\* Before the scheduler starts, resuming a thread leaves the lock alone.
LEMMA BootLock ==
  ASSUME LockInv, NEW t \in AppThread, BootResume(t)
  PROVE  LockInv' /\ Moved(k, k')
<1>1. k \in Kernel /\ Sane(k) /\ TypeOK /\ Control
  BY DEF LockInv, TypeOK
<1>2. /\ Moved(k, k') /\ pc = "boot"
      /\ UNCHANGED <<sched_lock, pc, new_lock, then, arg, held, dsr_list, batch>>
  BY <1>1, MethodsMove DEF BootResume, AppThread
<1>3. k' \in Kernel /\ Sane(k')
  BY <1>1, <1>2 DEF Moved
<1>4. TypeOK'
  BY <1>1, <1>2, <1>3 DEF TypeOK
<1>5. \A u \in Thread : InPlace(u)'
  BY <1>1, <1>2 DEF Control, InPlace, LockOf, OwnLock
<1>6. Control'
  BY <1>1, <1>2, <1>5 DEF Control
<1> QED
  BY <1>2, <1>3, <1>4, <1>6 DEF LockInv

\* Every step keeps the lock right.
LEMMA LockStep == LockInv /\ [Next]_vars => LockInv'
<1> SUFFICES ASSUME LockInv, [Next]_vars PROVE LockInv'
  OBVIOUS
<1>1. CASE Next
  BY <1>1, BootLock, InterruptLock, KernelLock, ReturnLock, CallLock DEF Next
<1>2. CASE UNCHANGED vars
  BY <1>2 DEF vars, LockInv, TypeOK, Sane, MapAgrees, IdleQueued, Control, InPlace,
              LockOf, OwnLock
<1> QED
  BY <1>1, <1>2

\* What the scheduler lock guards stays usable, and the lock is what the
\* threads count, whatever calls they make.
THEOREM LockHolds == Spec => []LockInv
<1> QED
  BY LockInit, LockStep, PTL DEF Spec

\* The state of the kernel has its type.
THEOREM TypeCorrect == Spec => []TypeOK
<1>1. LockInv => TypeOK
  BY DEF LockInv
<1> QED
  BY <1>1, LockHolds, PTL

\* unlock_inner is called with the lock it asserts (sched.cxx:145), and DSRs
\* with the lock at 1.
THEOREM AlwaysLockPrecondition == Spec => []LockPrecondition
<1>1. LockInv => LockPrecondition
  BY DEF LockInv, Control, LockPrecondition
<1> QED
  BY <1>1, LockHolds, PTL

\* No DSR is left waiting by a thread that releases the lock (sched.cxx:259).
THEOREM AlwaysNoDsrWaits == Spec => []NoDsrWaits
<1>1. LockInv => NoDsrWaits
  BY DEF LockInv, Control, NoDsrWaits
<1> QED
  BY <1>1, LockHolds, PTL
-----------------------------------------------------------------------------
(***************************************************************************)
(* The threads.  From here on only exited threads are reinitialized.       *)
(***************************************************************************)

\* Where a thread may be asleep, or told to exit.
Waking == {"counted", "timed", "delay", "waiting"}

\* What is recorded of a thread agrees with the call it is in.
ThreadPlace(t) ==
  /\ "SLEEPING" \in k.state[t] => then[t] \in Waking
  /\ k.wake_reason[t] = "EXIT" => then[t] \in Waking \/ "EXITED" \in k.state[t]
  /\ then[t] = "dead" => "EXITED" \in k.state[t]
  /\ t \in k.timer => then[t] \in {"timed", "delay"} /\ "EXITED" \notin k.state[t]

\* The thread that runs can do so, unless it is about to be switched out.
Running ==
  /\ pc = "app" => k.state[current] \subseteq {"SUSPENDED"}
  /\ pc = "unlock" \/ (pc = "app" /\ sched_lock = 0) =>
       k.state[current] = RUNNING /\ ~k.need_reschedule
  /\ then[current] = "fresh" => pc = "boot"

ThreadInv ==
  /\ Consistent(k) /\ k.state[Idle] = RUNNING
  /\ Running
  /\ \A t \in Thread : ThreadPlace(t)

\* What other threads and DSRs do to a thread does not put it out of place.
LEMMA ProddedPlace ==
  ASSUME NEW t \in Thread, ThreadPlace(t), Prodded(k, k', t), then'[t] = then[t]
  PROVE  ThreadPlace(t)'
BY DEF ThreadPlace, Prodded

\* What is about one thread leaves the others in their places.
LEMMA AboutPlace ==
  ASSUME NEW t \in Thread, NEW u \in Thread, u # t, ThreadPlace(u),
         OnlyAbout(k, k', t), then'[u] = then[u]
  PROVE  ThreadPlace(u)'
BY DEF ThreadPlace, OnlyAbout

\* Outside the scheduler a thread can be neither asleep nor dead, and one that
\* is not back from a sleep has not been told to exit and has no timer.
LEMMA CurrentPlace ==
  ASSUME LockInv, ThreadInv, pc = "app"
  PROVE  /\ current \in Thread /\ k \in Kernel /\ Sane(k)
         /\ k.state[current] \subseteq {"SUSPENDED"}
         /\ then[current] \notin {"fresh", "dead"}
         /\ then[current] \notin Waking => k.wake_reason[current] # "EXIT"
         /\ then[current] \notin {"timed", "delay"} => current \notin k.timer
         /\ sched_lock = 0 => k.state[current] = RUNNING
<1>1. current \in Thread /\ k \in Kernel /\ Sane(k)
  BY DEF LockInv, TypeOK, Kernel
<1>2. ThreadPlace(current) /\ Running
  BY <1>1 DEF ThreadInv
<1> QED
  BY <1>1, <1>2 DEF ThreadPlace, Running

\* A step of the current thread that blocks nobody.
LEMMA AppStep ==
  ASSUME LockInv, ThreadInv, pc = "app", Moved(k, k'),
         NEW rest \in Continuation \ {"fresh", "dead"},
         then' = [then EXCEPT ![current] = rest],
         rest \in Waking \/ k.wake_reason[current] # "EXIT",
         current \notin k'.timer
  PROVE  /\ Consistent(k)' /\ k'.state[Idle] = RUNNING /\ k'.current = current
         /\ k'.state[current] \subseteq {"SUSPENDED"} /\ then'[current] # "fresh"
         /\ \A t \in Thread : ThreadPlace(t)'
<1>1. /\ current \in Thread /\ k \in Kernel
      /\ k.state[current] \subseteq {"SUSPENDED"}
      /\ then \in [Thread -> Continuation]
  BY CurrentPlace DEF LockInv, TypeOK
<1>2. /\ Consistent(k') /\ k'.state[Idle] = RUNNING /\ k'.current = current
      /\ \A t \in Thread : Prodded(k, k', t)
  BY DEF ThreadInv, Moved
<1>3. k'.state[current] \subseteq {"SUSPENDED"}
  BY <1>1, <1>2 DEF Prodded
<1>4. then'[current] = rest
  BY <1>1
<1>5. k'.wake_reason[current] = "EXIT" => k.wake_reason[current] = "EXIT"
  BY <1>1, <1>2 DEF Prodded
<1>6. ThreadPlace(current)'
  <2>1. /\ "SLEEPING" \notin k'.state[current]
        /\ k'.wake_reason[current] = "EXIT" => then'[current] \in Waking
        /\ then'[current] # "dead"
    BY <1>3, <1>4, <1>5
  <2>2. \A t \in Thread : t = current => ThreadPlace(t)'
    BY <2>1 DEF ThreadPlace
  <2> QED
    BY <1>1, <1>2, <2>2
<1>7. ASSUME NEW t \in Thread, t # current PROVE ThreadPlace(t)'
  <2>1. then'[t] = then[t] /\ ThreadPlace(t)
    BY <1>1, <1>7 DEF ThreadInv
  <2> QED
    BY <1>2, <2>1, ProddedPlace
<1> QED
  BY <1>2, <1>3, <1>4, <1>6, <1>7

\* Unlocking from there leaves a thread that can run.
LEMMA UnlockRunning ==
  ASSUME NEW locked \in Nat \ {0}, UnlockFrom(locked),
         k'.state[k'.current] \subseteq {"SUSPENDED"}, then'[k'.current] # "fresh"
  PROVE  Running'
BY DEF Running, UnlockFrom

\* Leaving the processor asks nothing of it.
LEMMA RescheduleRunning ==
  ASSUME NEW lock, NEW locked, RescheduleAt(lock, locked), then'[k'.current] # "fresh"
  PROVE  Running'
BY DEF Running, RescheduleAt

\* At startup the idle thread is the only one that can run.
LEMMA ThreadInit == Init => ThreadInv
<1> SUFFICES ASSUME Init PROVE ThreadInv
  OBVIOUS
<1>1. LockInv
  BY LockInit
<1>2. /\ k \in Kernel /\ Idle \in Thread /\ MinPri \in Pri
      /\ \A t \in Thread : InitPri[t] = MinPri <=> t = Idle
      /\ InitPri \in [Thread -> Pri]
  BY <1>1, ThreadAssumption, PriAssumption, InitPriAssumption DEF LockInv, TypeOK, Pri
<1>3. /\ \A t \in Thread : k.state[t] = IF t = Idle THEN RUNNING ELSE {"SUSPENDED"}
      /\ \A t \in Thread : k.suspend_count[t] = IF t = Idle THEN 0 ELSE 1
      /\ \A t \in Thread : k.wakeup_count[t] = 0 /\ k.sleep_reason[t] = "NONE"
                           /\ k.wake_reason[t] = "NONE" /\ k.queue[t] = NULL
      /\ \A p \in Pri : k.run_queue[p] = IF p = MinPri THEN <<Idle>> ELSE <<>>
      /\ \A q \in WaitQueue : k.waitq[q] = <<>>
      /\ k.priority = InitPri /\ k.need_reschedule /\ k.timer = {} /\ k.current = Idle
      /\ pc = "boot" /\ \A t \in Thread : then[t] = "fresh"
  BY DEF Init
<1>4. Runnable(k) = {Idle}
  BY <1>2, <1>3 DEF Runnable, RUNNING
<1>5. Queued(k, {Idle})
  <2>1. /\ Len(<<Idle>>) = 1 /\ <<Idle>>[1] = Idle /\ Len(<<>>) = 0
        /\ 1 .. 1 = {1} /\ 1 .. 0 = {}
    BY DEF RUNNING
  <2>2. \A u \in Thread : (On(<<Idle>>, u) <=> u = Idle) /\ ~On(<<>>, u)
    BY <2>1 DEF On
  <2>3. Once(<<Idle>>) /\ Once(<<>>)
    BY <2>1 DEF Once
  <2>4. ASSUME NEW u \in Thread, NEW p \in Pri
        PROVE  On(k.run_queue[p], u) <=> u \in {Idle} /\ p = k.priority[u]
    <3>1. CASE p = MinPri
      BY <1>2, <1>3, <2>2, <3>1
    <3>2. CASE p # MinPri
      BY <1>2, <1>3, <2>2, <3>2
    <3> QED
      BY <3>1, <3>2
  <2>5. \A p \in Pri : Once(k.run_queue[p])
    BY <1>3, <2>3
  <2> QED
    BY <2>4, <2>5 DEF Queued
<1>6. Waiting(k)
  <2>1. Len(<<>>) = 0 /\ 1 .. 0 = {}
    OBVIOUS
  <2> QED
    BY <1>3, <2>1, QueueAssumption DEF Waiting, On, Once
<1>7. Scheduled(k)
  BY <1>3, <1>4, <1>5, <1>6 DEF Scheduled, Queues, Asked
<1>8. \A t \in Thread : Bits(k, t) /\ Reasons(k, t)
  BY <1>3 DEF Bits, Reasons, RUNNING
<1>9. \A t \in Thread : ThreadPlace(t)
  BY <1>3 DEF ThreadPlace, RUNNING
<1> QED
  BY <1>2, <1>3, <1>7, <1>8, <1>9 DEF ThreadInv, Consistent, Running

\* The current thread blocks: it sleeps until it is back in its call.
LEMMA BlockedPlace ==
  ASSUME LockInv, ThreadInv, Calling, sched_lock = 0, Blocked(k, k'),
         NEW rest \in Waking, then' = [then EXCEPT ![current] = rest],
         rest \in {"timed", "delay"} \/ SameTimer(k, k', current),
         pc' \in {"loop", "switch"}
  PROVE  ThreadInv'
<1>1. /\ current \in Thread /\ k \in Kernel /\ current # Idle
      /\ k.state[current] = RUNNING /\ current \notin k.timer
      /\ then \in [Thread -> Continuation]
  BY CurrentPlace DEF Calling, LockInv, TypeOK, Waking
<1>2. /\ Consistent(k') /\ k'.state[current] \subseteq SLEEPSET
      /\ OnlyAbout(k, k', current) /\ k'.current = current
  BY <1>1 DEF Blocked, ThreadInv, OnlyAbout
<1>3. k'.state[Idle] = RUNNING
  BY <1>1, <1>2, ThreadAssumption DEF OnlyAbout, ThreadInv
<1>4. then'[current] = rest
  BY <1>1
<1>5. ASSUME NEW t \in Thread PROVE ThreadPlace(t)'
  <2>1. CASE t = current
    BY <1>1, <1>2, <1>4, <2>1 DEF ThreadPlace, SameTimer, SLEEPSET, Waking
  <2>2. CASE t # current
    <3>1. then'[t] = then[t] /\ ThreadPlace(t)
      BY <1>1, <2>2 DEF ThreadInv
    <3> QED
      BY <1>1, <1>2, <2>2, <3>1, AboutPlace
  <2> QED
    BY <2>1, <2>2
<1>6. Running'
  <2>1. then'[k'.current] # "fresh" /\ pc' # "app" /\ pc' # "unlock"
    BY <1>2, <1>4 DEF Waking
  <2> QED
    BY <2>1 DEF Running
<1> QED
  BY <1>2, <1>3, <1>5, <1>6 DEF ThreadInv

\* The current thread ends.
LEMMA ExitPlace ==
  ASSUME LockInv, ThreadInv, pc = "app", current # Idle, Exiting
  PROVE  ThreadInv'
<1>1. /\ current \in Thread /\ k \in Kernel /\ "SLEEPING" \notin k.state[current]
      /\ then \in [Thread -> Continuation]
  BY CurrentPlace DEF LockInv, TypeOK
<1>2. /\ k' = exit(k) /\ RescheduleAt(sched_lock + 1, sched_lock + 1)
      /\ then' = [then EXCEPT ![current] = "dead"]
  BY DEF Exiting
<1>3. /\ Consistent(k') /\ OnlyAbout(k, k', current) /\ k'.current = current
      /\ k'.state[current] = {"EXITED"} /\ current \notin k'.timer
  <2>1. /\ OnlyAbout(k, k', current)
        /\ Consistent(k) /\ "SLEEPING" \notin k.state[current] => Consistent(k')
        /\ k'.state[current] = {"EXITED"} /\ k'.timer = k.timer \ {current}
    BY <1>1, <1>2, ExitKeeps
  <2>2. k'.current = current
    BY <2>1 DEF OnlyAbout
  <2> QED
    BY <1>1, <2>1, <2>2 DEF ThreadInv
<1>4. k'.state[Idle] = RUNNING
  BY <1>3, ThreadAssumption DEF OnlyAbout, ThreadInv
<1>5. then'[current] = "dead"
  BY <1>1, <1>2
<1>6. ASSUME NEW t \in Thread PROVE ThreadPlace(t)'
  <2>1. CASE t = current
    BY <1>3, <2>1 DEF ThreadPlace
  <2>2. CASE t # current
    <3>1. then'[t] = then[t] /\ ThreadPlace(t)
      BY <1>1, <1>2, <2>2 DEF ThreadInv
    <3> QED
      BY <1>1, <1>3, <2>2, <3>1, AboutPlace
  <2> QED
    BY <2>1, <2>2
<1>7. Running'
  BY <1>2, <1>3, <1>5, RescheduleRunning
<1> QED
  BY <1>3, <1>4, <1>6, <1>7 DEF ThreadInv

\* A method of the current thread that blocks nobody and unlocks.
LEMMA MethodPlace ==
  ASSUME LockInv, ThreadInv, pc = "app", Moved(k, k'),
         NEW locked \in Nat \ {0}, UnlockFrom(locked),
         NEW rest \in Continuation \ {"fresh", "dead"},
         then' = [then EXCEPT ![current] = rest],
         rest \in Waking \/ k.wake_reason[current] # "EXIT",
         current \notin k'.timer
  PROVE  ThreadInv'
<1>1. /\ Consistent(k)' /\ k'.state[Idle] = RUNNING /\ k'.current = current
      /\ k'.state[current] \subseteq {"SUSPENDED"} /\ then'[current] # "fresh"
      /\ \A t \in Thread : ThreadPlace(t)'
  BY AppStep
<1>2. Running'
  BY <1>1, UnlockRunning
<1> QED
  BY <1>1, <1>2 DEF ThreadInv

\* So does what the current thread does outside the scheduler, which asks for
\* no reschedule.
LEMMA OutsidePlace ==
  ASSUME LockInv, ThreadInv, pc = "app", Moved(k, k'),
         k'.state = k.state, k'.need_reschedule = k.need_reschedule,
         NEW rest \in Continuation \ {"fresh", "dead"},
         then' = [then EXCEPT ![current] = rest],
         rest \in Waking \/ k.wake_reason[current] # "EXIT",
         current \notin k'.timer,
         UNCHANGED <<sched_lock, pc>>
  PROVE  ThreadInv'
<1>1. /\ Consistent(k)' /\ k'.state[Idle] = RUNNING /\ k'.current = current
      /\ k'.state[current] \subseteq {"SUSPENDED"} /\ then'[current] # "fresh"
      /\ \A t \in Thread : ThreadPlace(t)'
  BY AppStep
<1>2. Running'
  BY <1>1 DEF ThreadInv, Running
<1> QED
  BY <1>1, <1>2 DEF ThreadInv

\* The calls of the current thread.
LEMMA CallPlace ==
  ASSUME LockInv, ThreadInv, CallStep
  PROVE  ThreadInv'
<1>1. Calling /\ CallShape
  BY CallShapes
<1>2. /\ k \in Kernel /\ Sane(k) /\ pc = "app" /\ then[current] = "none" /\ current # Idle
      /\ current \in Thread
      /\ sched_lock \in Nat /\ then \in [Thread -> Continuation]
      /\ Consistent(k) /\ k.state[Idle] = RUNNING
  BY <1>1 DEF LockInv, TypeOK, Calling, ThreadInv, Kernel
<1>3. /\ k.wake_reason[current] # "EXIT" /\ current \notin k.timer
      /\ k.state[current] \subseteq {"SUSPENDED"}
  BY <1>2, CurrentPlace DEF Waking
<1>4. ASSUME NEW r, Moved(k, r) PROVE current \notin r.timer
  BY <1>2, <1>3, <1>4 DEF Moved, Prodded
<1>5. ASSUME NEW r, Prod(k, r), Method(r, "none") PROVE ThreadInv'
  <2>1. Moved(k, k') /\ current \notin k'.timer
    BY <1>2, <1>4, <1>5, ProdMoves DEF Method
  <2>2. sched_lock + 1 \in Nat \ {0} /\ UnlockFrom(sched_lock + 1)
    BY <1>2, <1>5 DEF Method
  <2> DEFINE rest == "none"
  <2>3. then' = [then EXCEPT ![current] = rest] /\ rest \in Continuation \ {"fresh", "dead"}
    BY <1>5 DEF Method, Continuation
  <2> HIDE DEF rest
  <2> QED
    BY <1>2, <1>3, <2>1, <2>2, <2>3, MethodPlace
<1>6. CASE Exiting
  BY <1>2, <1>6, ExitPlace
<1>7. CASE k' = yield(k, current) /\ RescheduleAt(sched_lock, sched_lock + 1)
           /\ UNCHANGED then /\ Quiet
  <2>1. Moved(k, k') /\ current \notin k'.timer
    BY <1>2, <1>4, <1>7, YieldKeeps, ReorderedMoved
  <2> DEFINE rest == "none"
  <2>2. then' = [then EXCEPT ![current] = rest] /\ rest \in Continuation \ {"fresh", "dead"}
    BY <1>2, <1>7 DEF Continuation
  <2> HIDE DEF rest
  <2>3. /\ Consistent(k)' /\ k'.state[Idle] = RUNNING /\ k'.current = current
        /\ then'[current] # "fresh"
        /\ \A t \in Thread : ThreadPlace(t)'
    BY <1>2, <1>3, <2>1, <2>2, AppStep
  <2>4. Running'
    BY <1>7, <2>3, RescheduleRunning
  <2> QED
    BY <2>3, <2>4 DEF ThreadInv
<1>8. ASSUME NEW t \in AppThread, ResumeCheck(t) PROVE ThreadInv'
  <2>1. PICK rest \in {"reinit", "resume"} : then' = [then EXCEPT ![current] = rest]
    BY <1>8 DEF ResumeCheck
  <2>2. rest \in Continuation \ {"fresh", "dead"} /\ rest \notin Waking
    BY <2>1 DEF Continuation, Waking
  <2>3. k' = k /\ UNCHANGED <<sched_lock, pc>>
    BY <1>8 DEF ResumeCheck
  <2>4. Moved(k, k') /\ current \notin k'.timer
    BY <1>2, <1>3, <2>3, MovedSelf
  <2> QED
    BY <1>2, <1>3, <2>1, <2>2, <2>3, <2>4, OutsidePlace
<1>9. ASSUME sched_lock = 0, NEW r, NEW rest \in {"counted", "delay"},
             Method(r, rest), Blocked(k, r),
             rest = "delay" \/ SameTimer(k, r, current)
      PROVE  ThreadInv'
  <2>1. k' = r /\ then' = [then EXCEPT ![current] = rest] /\ pc' = "loop"
    BY <1>9 DEF Method, UnlockFrom
  <2>2. rest \in Waking
    BY <1>9 DEF Waking
  <2> QED
    BY <1>1, <1>9, <2>1, <2>2, BlockedPlace
<1>10. ASSUME sched_lock = 0, RescheduleAt(1, 1), Blocked(k, k'),
              NEW rest \in {"timed", "waiting"}, then' = [then EXCEPT ![current] = rest],
              rest = "timed" \/ SameTimer(k, k', current)
       PROVE  ThreadInv'
  <2>1. pc' = "switch"
    BY <1>10 DEF RescheduleAt
  <2>2. rest \in Waking
    BY <1>10 DEF Waking
  <2> QED
    BY <1>1, <1>10, <2>1, <2>2, BlockedPlace
<1>11. CASE CountedSleep
  BY <1>2, <1>9, <1>11, CountedSleepBlocks DEF CountedSleep, CanBlock
<1>12. ASSUME NEW past \in BOOLEAN, CountedSleepUntil(past) PROVE ThreadInv'
  <2> DEFINE r == counted_sleep_until(k, past)
  <2>1. /\ Blocked(k, r) /\ sched_lock = 0 /\ k.state[current] = RUNNING
        /\ k.state[current] = RUNNING /\ r.state[current] = RUNNING => SameTimer(k, r, current)
    BY <1>2, <1>12, CountedSleepUntilBlocks, CurrentPlace DEF CountedSleepUntil, CanBlock
  <2>2. CASE r.state[current] = RUNNING
    <3>1. Method(r, "counted")
      BY <1>12, <2>2 DEF CountedSleepUntil
    <3> HIDE DEF r
    <3> QED
      BY <1>9, <2>1, <2>2, <3>1
  <2>3. CASE r.state[current] # RUNNING
    <3>1. k' = r /\ RescheduleAt(1, 1) /\ then' = [then EXCEPT ![current] = "timed"]
      BY <1>12, <2>3 DEF CountedSleepUntil
    <3> HIDE DEF r
    <3> QED
      BY <1>10, <2>1, <3>1
  <2> QED
    BY <2>2, <2>3
<1>13. ASSUME NEW past \in BOOLEAN, Delay(past) PROVE ThreadInv'
  BY <1>2, <1>9, <1>13, DelayBlocks DEF Delay, CanBlock
<1>14. CASE Wait
  <2>1. Blocked(k, k') /\ SameTimer(k, k', current)
    BY <1>2, <1>14, ObjectAssumption, WaitBlocks DEF Wait, SleepFor
  <2> QED
    BY <1>10, <1>14, <2>1 DEF Wait, CanBlock
<1>15. CASE SchedulerLock \/ SchedulerSafeLock
  <2>1. k' = k /\ UNCHANGED <<pc, then>> /\ sched_lock' # 0
    BY <1>2, <1>15 DEF SchedulerLock, SchedulerSafeLock
  <2>2. Running'
    BY <1>2, <2>1 DEF ThreadInv, Running
  <2> QED
    BY <2>1, <2>2 DEF ThreadInv, ThreadPlace
<1>16. CASE SchedulerUnlock
  <2>1. k' = k /\ UnlockFrom(sched_lock) /\ UNCHANGED then /\ sched_lock \in Nat \ {0}
    <3>1. held[current] > 0 /\ sched_lock = held[current] /\ held[current] \in Nat
      BY <1>2, <1>16, LockOfCurrent DEF SchedulerUnlock, OwnLock
    <3> QED
      BY <1>16, <3>1 DEF SchedulerUnlock
  <2>2. then'[current] # "fresh" /\ k'.state[k'.current] \subseteq {"SUSPENDED"}
    BY <1>2, <1>3, <2>1
  <2>3. Running'
    BY <2>1, <2>2, UnlockRunning
  <2> QED
    BY <2>1, <2>3 DEF ThreadInv, ThreadPlace
<1> QED
  BY <1>1, <1>5, <1>6, <1>7, <1>8, <1>11, <1>12, <1>13, <1>14, <1>15, <1>16
  DEF CallShape

\* What is left of a call.
LEMMA ReturnPlace ==
  ASSUME LockInv, ThreadInv, ReinitializesExited, ReturnStep
  PROVE  ThreadInv'
<1>1. /\ k \in Kernel /\ Sane(k) /\ pc = "app" /\ current # Idle /\ current \in Thread
      /\ then[current] \in {"reinit", "resume", "timed", "delay", "waiting", "counted"}
      /\ sched_lock \in Nat /\ then \in [Thread -> Continuation]
      /\ Consistent(k) /\ k.state[Idle] = RUNNING
  BY ReturnerApp DEF LockInv, TypeOK, ThreadInv, Kernel
<1>2. /\ k.state[current] \subseteq {"SUSPENDED"}
      /\ then[current] \notin Waking => k.wake_reason[current] # "EXIT"
      /\ then[current] \notin {"timed", "delay"} => current \notin k.timer
  BY <1>1, CurrentPlace
<1>3. ASSUME NEW r, Moved(k, r), current \notin k.timer PROVE current \notin r.timer
  BY <1>1, <1>3 DEF Moved, Prodded
<1>4. then[current] \in {"timed", "waiting"} => sched_lock \in Nat \ {0}
  BY <1>1, LockOfCurrent DEF OwnLock
<1>5. /\ Moved(k, clear_timer(k, current))
      /\ current \notin clear_timer(k, current).timer
      /\ clear_timer(k, current).state = k.state
      /\ clear_timer(k, current).need_reschedule = k.need_reschedule
  <2>1. Called(k, clear_timer(k, current), current)
    BY <1>1, <1>2, ClearTimerKeeps
  <2> QED
    BY <1>1, <2>1, CalledMoved, ClearTimerKeeps DEF SameQueues, SameRunQueues
<1>6. CASE Reinitialize
  <2> DEFINE t == arg[current]
  <2>1. /\ then[current] = "reinit" /\ t # Idle /\ t \in Thread
        /\ "EXITED" \in k.state[t]
    BY <1>1, <1>6 DEF Reinitialize, LockInv, TypeOK, Control, InPlace, ReinitializesExited
  <2>2. /\ k' = reinitialize(k, t) /\ UnlockFrom(sched_lock + 1)
        /\ then' = [then EXCEPT ![current] = "resume", ![t] = "fresh"]
    BY <1>6 DEF Reinitialize
  <2> HIDE DEF t
  <2>3. t # current
    BY <1>2, <2>1
  <2>4. /\ OnlyAbout(k, k', t) /\ Consistent(k')
        /\ k'.state[t] = {"SUSPENDED"} /\ k'.timer = k.timer \ {t}
        /\ k'.wake_reason[t] = "NONE"
    BY <1>1, <2>1, <2>2, <2>3, ReinitializeKeeps
  <2>5. /\ k'.current = current /\ k'.state[Idle] = RUNNING
        /\ k'.state[current] = k.state[current]
        /\ k'.wake_reason[current] = k.wake_reason[current]
        /\ current \notin k'.timer
    BY <1>1, <1>2, <2>1, <2>3, <2>4, ThreadAssumption DEF OnlyAbout
  <2>6. then'[current] = "resume" /\ then'[t] = "fresh"
    BY <1>1, <2>1, <2>2, <2>3
  <2>7. ASSUME NEW u \in Thread PROVE ThreadPlace(u)'
    <3>1. CASE u = t
      BY <2>4, <2>6, <3>1 DEF ThreadPlace
    <3>2. CASE u = current
      BY <1>2, <2>1, <2>5, <2>6, <3>2 DEF ThreadPlace, Waking
    <3>3. CASE u # t /\ u # current
      <4>1. then'[u] = then[u] /\ ThreadPlace(u)
        BY <1>1, <2>2, <3>3 DEF ThreadInv
      <4> QED
        BY <2>1, <2>4, <3>3, <4>1, AboutPlace
    <3> QED
      BY <3>1, <3>2, <3>3
  <2>8. Running'
    <3>1. sched_lock + 1 \in Nat \ {0} /\ then'[k'.current] # "fresh"
          /\ k'.state[k'.current] \subseteq {"SUSPENDED"}
      BY <1>1, <1>2, <2>5, <2>6
    <3> QED
      BY <2>2, <3>1, UnlockRunning
  <2> QED
    BY <2>4, <2>5, <2>7, <2>8 DEF ThreadInv
<1>7. CASE ResumeCall
  <2>1. /\ arg[current] \in Thread /\ arg[current] # Idle /\ then[current] = "resume"
    BY <1>1, <1>7 DEF ResumeCall, LockInv, TypeOK, Control, InPlace
  <2>2. Moved(k, k') /\ current \notin k'.timer /\ k.wake_reason[current] # "EXIT"
    BY <1>1, <1>2, <1>3, <1>7, <2>1, MethodsMove DEF ResumeCall, Waking
  <2> DEFINE rest == "none"
  <2>3. /\ then' = [then EXCEPT ![current] = rest] /\ rest \in Continuation \ {"fresh", "dead"}
        /\ UnlockFrom(sched_lock + 1) /\ sched_lock + 1 \in Nat \ {0}
    BY <1>1, <1>7 DEF ResumeCall, Continuation
  <2> HIDE DEF rest
  <2> QED
    BY <1>1, <2>2, <2>3, MethodPlace
<1>8. CASE AfterTimedSleep
  <2> DEFINE rest == "counted"
  <2>1. /\ k' = clear_timer(k, current) /\ UnlockFrom(sched_lock)
        /\ then' = [then EXCEPT ![current] = rest] /\ then[current] = "timed"
        /\ rest \in Continuation \ {"fresh", "dead"} /\ rest \in Waking
    BY <1>8 DEF AfterTimedSleep, Continuation, Waking
  <2> HIDE DEF rest
  <2> QED
    BY <1>1, <1>4, <1>5, <2>1, MethodPlace
<1>9. CASE AfterDelay
  <2> DEFINE rest == "counted"
  <2>1. /\ k' = clear_timer(k, current) /\ UNCHANGED <<sched_lock, pc>>
        /\ then' = [then EXCEPT ![current] = rest]
        /\ rest \in Continuation \ {"fresh", "dead"} /\ rest \in Waking
    BY <1>9 DEF AfterDelay, Continuation, Waking
  <2> HIDE DEF rest
  <2> QED
    BY <1>1, <1>5, <2>1, OutsidePlace
<1>10. CASE (AfterWait \/ AfterSleep) /\ k.wake_reason[current] = "EXIT"
  BY <1>1, <1>10, ExitPlace DEF AfterWait, AfterSleep
<1>11. CASE (AfterWait \/ AfterSleep) /\ k.wake_reason[current] # "EXIT"
  <2> DEFINE rest == "none"
  <2>1. /\ k' = k /\ then' = [then EXCEPT ![current] = rest]
        /\ rest \in Continuation \ {"fresh", "dead"}
        /\ then[current] \in {"waiting", "counted"}
    BY <1>11 DEF AfterWait, AfterSleep, Continuation
  <2> HIDE DEF rest
  <2>2. Moved(k, k') /\ current \notin k'.timer
    BY <1>1, <1>2, <2>1, MovedSelf
  <2>3. CASE AfterWait
    <3>1. UnlockFrom(sched_lock) /\ then[current] = "waiting"
      BY <1>11, <2>3 DEF AfterWait
    <3> QED
      BY <1>1, <1>4, <1>11, <2>1, <2>2, <3>1, MethodPlace
  <2>4. CASE AfterSleep
    <3>1. UNCHANGED <<sched_lock, pc>>
      BY <1>11, <2>4 DEF AfterSleep
    <3> QED
      BY <1>1, <1>11, <2>1, <2>2, <3>1, OutsidePlace
  <2> QED
    BY <1>11, <2>3, <2>4
<1> QED
  BY <1>6, <1>7, <1>8, <1>9, <1>10, <1>11 DEF ReturnStep

\* Whoever gets the processor can run.
LEMMA SwitchedPlace ==
  ASSUME LockInv, ThreadInv, Switched(k, k'), then'[k'.current] # "fresh",
         \/ UNCHANGED then
         \/ then[k'.current] = "fresh" /\ then' = [then EXCEPT ![k'.current] = "none"],
         pc' # "app"
  PROVE  ThreadInv'
<1>1. Consistent(k') /\ k'.state[k'.current] = RUNNING /\ ~k'.need_reschedule
  BY SwitchedThreads DEF LockInv, ThreadInv, Switched
<1>2. k'.state[Idle] = RUNNING
  BY DEF ThreadInv, Switched
<1>3. Running'
  BY <1>1 DEF Running
<1>4. ASSUME NEW t \in Thread PROVE ThreadPlace(t)'
  <2>1. ThreadPlace(t) /\ then \in [Thread -> Continuation]
    BY DEF ThreadInv, LockInv, TypeOK
  <2>2. /\ k'.state[t] = k.state[t] /\ k'.wake_reason[t] = k.wake_reason[t]
        /\ t \in k'.timer <=> t \in k.timer
    BY DEF Switched
  <2>3. CASE then'[t] = then[t]
    BY <2>1, <2>2, <2>3 DEF ThreadPlace
  <2>4. CASE then'[t] # then[t]
    <3>1. then[t] = "fresh" /\ then'[t] = "none"
      BY <2>1, <2>4
    <3> QED
      BY <2>1, <2>2, <3>1 DEF ThreadPlace, Waking
  <2> QED
    BY <2>3, <2>4
<1> QED
  BY <1>1, <1>2, <1>3, <1>4 DEF ThreadInv

\* The steps of unlock_inner: whoever gets the processor can run.
LEMMA KernelPlace ==
  ASSUME LockInv, ThreadInv, KernelStep
  PROVE  ThreadInv'
<1>1. /\ k \in Kernel /\ Sane(k) /\ current \in Thread
      /\ then \in [Thread -> Continuation] /\ Consistent(k) /\ k.state[Idle] = RUNNING
  BY DEF LockInv, TypeOK, Kernel, ThreadInv
<1>2. CASE start_cpu
  <2>1. /\ Switched(k, k') /\ k'.current = schedule(k) /\ schedule(k) \in Thread
    BY <1>1, <1>2, EnterSwitches, ScheduleBest DEF start_cpu, Switched
  <2>2. then[k'.current] = "fresh"
    BY <1>2, <2>1 DEF start_cpu, LockInv, Control
  <2>3. then' = [then EXCEPT ![k'.current] = "none"] /\ pc' = "loop"
    BY <1>2, <2>1 DEF start_cpu
  <2>4. then'[k'.current] = "none"
    BY <1>1, <2>1, <2>3
  <2> QED
    BY <2>1, <2>2, <2>3, <2>4, SwitchedPlace
<1>3. CASE call_pending_DSRs
  <2>1. UNCHANGED <<k, then>> /\ pc' \notin {"app", "unlock"} /\ pc # "boot"
    BY <1>3 DEF call_pending_DSRs
  <2>2. Running'
    BY <2>1 DEF ThreadInv, Running
  <2> QED
    BY <2>1, <2>2 DEF ThreadInv, ThreadPlace
<1>4. CASE ClockDsr \/ DeviceDsr
  <2>1. /\ Consistent(k') /\ k'.state[Idle] = RUNNING /\ k'.current = current
        /\ \A t \in Thread : Prodded(k, k', t)
    BY <1>1, <1>4, DsrMoves DEF Moved
  <2>2. UNCHANGED then /\ pc' \notin {"app", "unlock"} /\ pc = "dsrs"
    BY <1>4 DEF ClockDsr, DeviceDsr, DsrDone
  <2>3. ASSUME NEW t \in Thread PROVE ThreadPlace(t)'
    <3>1. ThreadPlace(t) /\ then'[t] = then[t]
      BY <2>2 DEF ThreadInv
    <3> QED
      BY <2>1, <3>1, ProddedPlace
  <2>4. Running'
    BY <2>1, <2>2 DEF ThreadInv, Running
  <2> QED
    BY <2>1, <2>3, <2>4 DEF ThreadInv
<1>5. CASE SwitchContext
  <2>1. /\ \/ Switched(k, k')
           \/ k' = k /\ k.state[current] = RUNNING /\ ~k.need_reschedule
        /\ \/ /\ then[k'.current] = "fresh" /\ k'.current # current
              /\ then' = [then EXCEPT ![k'.current] = "none"] /\ pc' = "loop"
           \/ /\ k'.current = current \/ then[k'.current] # "fresh"
              /\ pc' = "unlock" /\ UNCHANGED then
        /\ pc = "switch"
    BY <1>1, <1>5, SwitchContextSwitches
  <2>2. then[current] # "fresh"
    BY <2>1 DEF ThreadInv, Running
  <2>3. CASE Switched(k, k')
    <3>1. k'.current \in Thread
      BY <2>3 DEF Switched, Kernel
    <3>2. /\ then'[k'.current] # "fresh" /\ pc' # "app"
          /\ \/ UNCHANGED then
             \/ /\ then[k'.current] = "fresh"
                /\ then' = [then EXCEPT ![k'.current] = "none"]
      BY <1>1, <2>1, <2>2, <3>1
    <3> QED
      BY <2>3, <3>2, SwitchedPlace
  <2>4. CASE k' = k /\ k.state[current] = RUNNING /\ ~k.need_reschedule
    <3>1. UNCHANGED <<k, then>> /\ pc' = "unlock"
      BY <2>1, <2>4
    <3>2. Running'
      BY <2>2, <2>4, <3>1 DEF Running
    <3> QED
      BY <3>1, <3>2 DEF ThreadInv, ThreadPlace
  <2> QED
    BY <2>1, <2>3, <2>4
<1>6. CASE FinishUnlock
  <2>1. UNCHANGED <<k, then>> /\ pc = "unlock" /\ pc' \in {"loop", "app"}
    BY <1>6 DEF FinishUnlock
  <2>2. Running'
    BY <2>1 DEF ThreadInv, Running, RUNNING
  <2> QED
    BY <2>1, <2>2 DEF ThreadInv, ThreadPlace
<1> QED
  BY <1>2, <1>3, <1>4, <1>5, <1>6 DEF KernelStep

\* Every step keeps every thread in its place, if it reinitializes only the exited.
LEMMA ThreadStep ==
  LockInv /\ ThreadInv /\ ReinitializesExited /\ [Next]_vars => ThreadInv'
<1> SUFFICES ASSUME LockInv, ThreadInv, ReinitializesExited, [Next]_vars
             PROVE  ThreadInv'
  OBVIOUS
<1>1. ASSUME NEW t \in AppThread, BootResume(t) PROVE ThreadInv'
  <2>1. Moved(k, k') /\ pc = "boot" /\ UNCHANGED <<pc, then>>
    BY <1>1, BootLock DEF BootResume
  <2>2. /\ Consistent(k') /\ k'.state[Idle] = RUNNING
        /\ \A u \in Thread : Prodded(k, k', u)
    BY <2>1 DEF Moved, ThreadInv
  <2>3. ASSUME NEW u \in Thread PROVE ThreadPlace(u)'
    <3>1. ThreadPlace(u) /\ then'[u] = then[u]
      BY <2>1 DEF ThreadInv
    <3> QED
      BY <2>2, <3>1, ProddedPlace
  <2>4. Running'
    BY <2>1 DEF Running
  <2> QED
    BY <2>2, <2>3, <2>4 DEF ThreadInv
<1>2. ASSUME NEW i \in Interrupt, Interrupted(i) PROVE ThreadInv'
  <2>1. /\ UNCHANGED <<k, then>> /\ pc # "boot"
        /\ UNCHANGED <<sched_lock, pc>> \/ pc' = "loop"
    BY <1>2 DEF Interrupted
  <2>2. Running'
    BY <2>1 DEF ThreadInv, Running
  <2> QED
    BY <2>1, <2>2 DEF ThreadInv, ThreadPlace
<1>3. CASE UNCHANGED vars
  BY <1>3 DEF vars, ThreadInv, Consistent, Scheduled, Queues, Queued, Asked, Waiting,
              Runnable, Bits, Reasons, Running, ThreadPlace
<1> QED
  BY <1>1, <1>2, <1>3, KernelPlace, ReturnPlace, CallPlace DEF Next

\* The queues and the records of the threads agree as long as no thread is
\* constructed again that has not exited.
THEOREM ThreadsHold == Spec /\ []ReinitializesExited => []ThreadInv
<1> QED
  BY LockHolds, ThreadInit, ThreadStep, PTL DEF Spec

\* What a step makes of the objects, if it is not one that constructs a thread
\* again.
ObjectsShape ==
  \/ k' = k
  \/ Moved(k, k')
  \/ Switched(k, k')
  \/ pc = "app" /\ k' = exit(k)
  \/ Calling /\ k.state[current] = RUNNING /\ Blocked(k, k')

\* Every step but a reinitialization changes the objects in one of these ways.
LEMMA ObjectsShapes ==
  ASSUME LockInv, ThreadInv, [Next]_vars, ~Reinitialize
  PROVE  ObjectsShape
<1>1. k \in Kernel /\ Sane(k) /\ current \in Thread
  BY DEF LockInv, TypeOK, Kernel
<1>2. ASSUME NEW t \in AppThread, BootResume(t) PROVE ObjectsShape
  BY <1>2, BootLock DEF ObjectsShape
<1>3. ASSUME NEW i \in Interrupt, Interrupted(i) PROVE ObjectsShape
  BY <1>3 DEF Interrupted, ObjectsShape
<1>4. CASE KernelStep
  <2>1. CASE start_cpu
    <3>1. Switched(k, k')
      BY <1>1, <2>1, EnterSwitches DEF start_cpu
    <3> QED
      BY <3>1 DEF ObjectsShape
  <2>2. CASE call_pending_DSRs \/ FinishUnlock
    BY <2>2 DEF call_pending_DSRs, FinishUnlock, ObjectsShape
  <2>3. CASE ClockDsr \/ DeviceDsr
    BY <1>1, <2>3, DsrMoves DEF ObjectsShape
  <2>4. CASE SwitchContext
    BY <1>1, <2>4, SwitchContextSwitches DEF ObjectsShape
  <2> QED
    BY <1>4, <2>1, <2>2, <2>3, <2>4 DEF KernelStep
<1>5. CASE ReturnStep
  <2>1. CASE ResumeCall
    <3>1. arg[current] \in Thread /\ arg[current] # Idle
      BY <1>1, <2>1 DEF ResumeCall, LockInv, TypeOK, Control, InPlace
    <3> QED
      BY <1>1, <2>1, <3>1, MethodsMove DEF ResumeCall, ObjectsShape
  <2>2. CASE AfterTimedSleep \/ AfterDelay
    <3>1. k' = clear_timer(k, current) /\ pc = "app" /\ current # Idle
      BY <1>5, <2>2, ReturnerApp DEF AfterTimedSleep, AfterDelay
    <3>2. "SLEEPING" \notin k.state[current]
      BY <3>1, CurrentPlace
    <3>3. Called(k, k', current)
      BY <1>1, <3>1, <3>2, ClearTimerKeeps
    <3>4. Moved(k, k')
      BY <1>1, <3>1, <3>3, CalledMoved
    <3> QED
      BY <3>4 DEF ObjectsShape
  <2>3. CASE AfterWait \/ AfterSleep
    BY <2>3 DEF AfterWait, AfterSleep, Exiting, ObjectsShape
  <2> QED
    BY <1>5, <2>1, <2>2, <2>3 DEF ReturnStep
<1>6. CASE CallStep
  <2>1. Calling /\ CallShape /\ pc = "app"
    BY <1>6, CallShapes DEF Calling
  <2>2. ASSUME NEW r, Prod(k, r), Method(r, "none") PROVE ObjectsShape
    BY <1>1, <2>2, ProdMoves DEF Method, ObjectsShape
  <2>3. CASE k' = yield(k, current)
    BY <1>1, <2>3, YieldKeeps, ReorderedMoved DEF ObjectsShape
  <2>4. ASSUME sched_lock = 0, Blocked(k, k') PROVE ObjectsShape
    BY <2>1, <2>4, CurrentPlace DEF ObjectsShape
  <2>5. CASE CountedSleep
    BY <1>1, <2>4, <2>5, CountedSleepBlocks DEF CountedSleep, CanBlock, Method
  <2>6. ASSUME NEW past \in BOOLEAN, CountedSleepUntil(past) PROVE ObjectsShape
    <3>1. k' = counted_sleep_until(k, past) /\ sched_lock = 0
      BY <2>6 DEF CountedSleepUntil, CanBlock, Method
    <3> QED
      BY <1>1, <2>4, <3>1, CountedSleepUntilBlocks
  <2>7. ASSUME NEW past \in BOOLEAN, Delay(past) PROVE ObjectsShape
    BY <1>1, <2>4, <2>7, DelayBlocks DEF Delay, CanBlock, Method
  <2>8. CASE Wait
    BY <1>1, <2>4, <2>8, ObjectAssumption, WaitBlocks DEF Wait, CanBlock, SleepFor
  <2>9. CASE Exiting
    BY <2>1, <2>9 DEF Exiting, ObjectsShape
  <2>10. CASE k' = k
    BY <2>10 DEF ObjectsShape
  <2> QED
    BY <2>1, <2>2, <2>3, <2>5, <2>6, <2>7, <2>8, <2>9, <2>10
    DEF CallShape, ResumeCheck, SchedulerLock, SchedulerSafeLock, SchedulerUnlock
<1>7. CASE UNCHANGED vars
  BY <1>7 DEF vars, ObjectsShape
<1> QED
  BY <1>2, <1>3, <1>4, <1>5, <1>6, <1>7 DEF Next

\* The thread whose constructor is called again has exited, and is not the one
\* that calls it.
LEMMA Reinitialized ==
  ASSUME LockInv, ThreadInv, ReinitializesExited, Reinitialize
  PROVE  /\ arg[current] \in Thread \ {current}
         /\ "EXITED" \in k.state[arg[current]]
         /\ OnlyAbout(k, k', arg[current])
<1>1. /\ k \in Kernel /\ current \in Thread /\ arg[current] \in Thread
      /\ pc = "app" /\ then[current] = "reinit" /\ k' = reinitialize(k, arg[current])
  BY DEF LockInv, TypeOK, Kernel, Reinitialize
<1>2. "EXITED" \in k.state[arg[current]] /\ "EXITED" \notin k.state[current]
  BY <1>1, CurrentPlace DEF ReinitializesExited
<1> QED
  BY <1>1, <1>2, ReinitializeKeeps

\* A thread that has exited does not come back by itself, and one told to exit
\* stays told.
LEMMA DeadStay ==
  ASSUME LockInv, ThreadInv, ObjectsShape, NEW t \in Thread
  PROVE  /\ "EXITED" \in k.state[t] => "EXITED" \in k'.state[t]
         /\ k.wake_reason[t] = "EXIT" => k'.wake_reason[t] = "EXIT"
<1>1. k \in Kernel /\ current \in Thread /\ Consistent(k) /\ k.state[Idle] = RUNNING
  BY DEF LockInv, TypeOK, Kernel, ThreadInv
<1>2. CASE k' = k \/ Switched(k, k')
  BY <1>2 DEF Switched
<1>3. CASE Moved(k, k')
  BY <1>1, <1>3 DEF Moved, Prodded
<1>4. CASE pc = "app" /\ k' = exit(k)
  <2>1. /\ OnlyAbout(k, k', current) /\ k'.state[current] = {"EXITED"}
        /\ k'.wake_reason = k.wake_reason
    BY <1>1, <1>4, ExitKeeps
  <2> QED
    BY <2>1 DEF OnlyAbout
<1>5. CASE Calling /\ k.state[current] = RUNNING /\ Blocked(k, k')
  <2>1. OnlyAbout(k, k', current) /\ k.wake_reason[current] # "EXIT"
        /\ "EXITED" \notin k.state[current]
    BY <1>5, CurrentPlace DEF Blocked, Calling, Waking, RUNNING
  <2> QED
    BY <2>1 DEF OnlyAbout
<1> QED
  BY <1>2, <1>3, <1>4, <1>5 DEF ObjectsShape

\* Once told to exit, a thread stays told until it has exited, if only exited
\* threads are constructed again.
THEOREM AlwaysKillSticks == Spec /\ []ReinitializesExited => KillSticks
<1>1. LockInv /\ ThreadInv /\ ReinitializesExited /\ [Next]_vars =>
        [\A t \in Thread : k.wake_reason[t] = "EXIT" =>
            k'.wake_reason[t] = "EXIT" \/ "EXITED" \in k.state[t]]_vars
  <2> SUFFICES ASSUME LockInv, ThreadInv, ReinitializesExited, [Next]_vars,
                      NEW t \in Thread, k.wake_reason[t] = "EXIT"
               PROVE  k'.wake_reason[t] = "EXIT" \/ "EXITED" \in k.state[t]
    OBVIOUS
  <2>1. CASE Reinitialize
    BY <2>1, Reinitialized DEF OnlyAbout
  <2>2. CASE ~Reinitialize
    BY <2>2, ObjectsShapes, DeadStay
  <2> QED
    BY <2>1, <2>2
<1> QED
  BY <1>1, LockHolds, ThreadsHold, PTL DEF Spec, KillSticks

\* The run queues hold the runnable threads, each once and at its priority.
THEOREM AlwaysRunQueues == Spec /\ []ReinitializesExited => []RunQueues
<1>1. LockInv /\ ThreadInv => RunQueues
  <2> SUFFICES ASSUME LockInv, ThreadInv PROVE RunQueues
    OBVIOUS
  <2>1. MapAgrees(k) /\ Queued(k, Runnable(k)) /\ k.state[Idle] = RUNNING
    BY DEF LockInv, Sane, ThreadInv, Consistent, Scheduled, Queues
  <2>2. \A t \in Thread : \A p \in Pri :
          On(k.run_queue[p], t) <=> (k.state[t] = RUNNING /\ p = k.priority[t])
    BY <2>1 DEF Queued, Runnable
  <2> QED
    BY <2>1, <2>2 DEF RunQueues, MapAgrees, Queued, Once
<1> QED
  BY <1>1, LockHolds, ThreadsHold, PTL

\* The queue pointers agree with the queues, and only sleepers are queued.
THEOREM AlwaysWaitQueues == Spec /\ []ReinitializesExited => []WaitQueues
<1>1. ThreadInv => WaitQueues
  BY DEF ThreadInv, Consistent, Scheduled, Queues, Waiting, Once, Bits, WaitQueues
<1> QED
  BY <1>1, ThreadsHold, PTL

\* The bits of a thread's state agree with its counts and reasons.
THEOREM AlwaysStatesAgree == Spec /\ []ReinitializesExited => []StatesAgree
<1>1. ThreadInv => StatesAgree
  BY DEF ThreadInv, Consistent, Bits, Reasons, StatesAgree
<1> QED
  BY <1>1, ThreadsHold, PTL

\* No timer outlives the sleep it was armed for.
THEOREM AlwaysTimersInSleep == Spec /\ []ReinitializesExited => []TimersInSleep
<1>1. LockInv /\ ThreadInv => TimersInSleep
  BY DEF LockInv, TypeOK, Kernel, ThreadInv, ThreadPlace, TimersInSleep
<1> QED
  BY <1>1, LockHolds, ThreadsHold, PTL

\* No thread runs on after it was killed.
THEOREM AlwaysNoDeadThreadRuns == Spec /\ []ReinitializesExited => []NoDeadThreadRuns
<1>1. LockInv /\ ThreadInv => NoDeadThreadRuns
  BY CurrentPlace DEF NoDeadThreadRuns, Waking
<1> QED
  BY <1>1, LockHolds, ThreadsHold, PTL

\* A thread finds the scheduler lock as it left it.
THEOREM AlwaysLockPerThread == Spec /\ []ReinitializesExited => []LockPerThread
<1>1. LockInv /\ ThreadInv => LockPerThread
  <2> SUFFICES ASSUME LockInv, ThreadInv, pc = "app"
               PROVE  sched_lock = held[current] + OwnLock(current)
    BY DEF LockPerThread
  <2> QED
    BY CurrentPlace, LockOfCurrent
<1> QED
  BY <1>1, LockHolds, ThreadsHold, PTL

\* With the scheduler unlocked the best of the runnable threads runs.
THEOREM AlwaysHighestRuns == Spec /\ []ReinitializesExited => []HighestRuns
<1>1. ThreadInv => HighestRuns
  <2> SUFFICES ASSUME ThreadInv, pc = "app", sched_lock = 0
               PROVE  /\ k.state[current] = RUNNING
                      /\ \A t \in Thread : k.state[t] = RUNNING =>
                           k.priority[current] <= k.priority[t]
    BY DEF HighestRuns
  <2>1. k.state[current] = RUNNING /\ ~k.need_reschedule /\ Asked(k, Runnable(k))
    BY DEF ThreadInv, Running, Consistent, Scheduled, Queues
  <2> QED
    BY <2>1 DEF Asked, Runnable
<1> QED
  BY <1>1, ThreadsHold, PTL
-----------------------------------------------------------------------------
(***************************************************************************)
(* The code does not see to it that only exited threads are constructed    *)
(* again.  A program that leaves the resuming of threads to one of them    *)
(* does.                                                                   *)
(***************************************************************************)
OneReviver ==
  \A s, t \in AppThread :
    "resume" \in Calls[s] /\ "resume" \in Calls[t] => s = t

\* A thread in cyg_thread_resume is one that may call it, and the thread it
\* found exited has not come back.
Reviving(t) ==
  /\ then[t] \in {"reinit", "resume"} => t # Idle /\ "resume" \in Calls[t]
  /\ then[t] = "reinit" => "EXITED" \in k.state[arg[t]]

ReviveInv == \A t \in Thread : Reviving(t)

\* The place of a thread in cyg_thread_resume changes by its own steps.
LEMMA PlacesKept ==
  ASSUME LockInv, [Next]_vars, ~Reinitialize, NEW t \in Thread,
         ~ \E u \in AppThread : ResumeCheck(u),
         then'[t] \in {"reinit", "resume"}
  PROVE  then'[t] = then[t] /\ arg'[t] = arg[t]
<1>1. /\ then \in [Thread -> Continuation] /\ arg \in [Thread -> Thread]
      /\ current \in Thread /\ k \in Kernel /\ Sane(k)
  BY DEF LockInv, TypeOK, Kernel
<1>2. ASSUME NEW c \in Thread, NEW rest \in Continuation \ {"reinit", "resume"},
             then' = [then EXCEPT ![c] = rest]
      PROVE  then'[t] = then[t] /\ c # t
  BY <1>1, <1>2
<1>3. CASE \E u \in AppThread : BootResume(u)
  BY <1>3 DEF BootResume
<1>4. CASE \E i \in Interrupt : Interrupted(i)
  BY <1>4 DEF Interrupted
<1>5. CASE KernelStep
  <2>1. CASE start_cpu
    <3>1. schedule(k) \in Thread
      BY <1>1, ScheduleBest
    <3> QED
      BY <1>2, <2>1, <3>1 DEF start_cpu, Continuation
  <2>2. CASE SwitchContext
    <3>1. schedule(k) \in Thread
      BY <1>1, ScheduleBest
    <3> QED
      BY <1>2, <2>2, <3>1 DEF SwitchContext, Continuation
  <2>3. CASE call_pending_DSRs \/ ClockDsr \/ DeviceDsr \/ FinishUnlock
    BY <2>3 DEF call_pending_DSRs, ClockDsr, DeviceDsr, FinishUnlock, DsrDone
  <2> QED
    BY <1>5, <2>1, <2>2, <2>3 DEF KernelStep
<1>6. CASE ReturnStep
  <2>1. CASE ResumeCall
    BY <1>1, <1>2, <2>1 DEF ResumeCall, Continuation
  <2>2. CASE Exiting
    BY <1>1, <1>2, <2>2 DEF Exiting, Quiet, Continuation
  <2>3. CASE ~ResumeCall /\ ~Exiting
    BY <1>1, <1>2, <1>6, <2>3
    DEF ReturnStep, AfterTimedSleep, AfterDelay, AfterWait, AfterSleep, Quiet, Continuation
  <2> QED
    BY <2>1, <2>2, <2>3
<1>7. CASE CallStep
  <2>1. CallShape
    BY <1>7, CallShapes
  <2>2. CASE \E r : Prod(k, r) /\ Method(r, "none")
    BY <1>1, <1>2, <2>2 DEF Method, Quiet, Continuation
  <2>3. CASE Exiting
    BY <1>1, <1>2, <2>3 DEF Exiting, Quiet, Continuation
  <2>4. CASE UNCHANGED then /\ Quiet
    BY <2>4 DEF Quiet
  <2>5. CASE CountedSleep \/ Wait
    BY <1>1, <1>2, <2>5 DEF CountedSleep, Wait, Method, Quiet, Continuation
  <2>6. ASSUME NEW past \in BOOLEAN, CountedSleepUntil(past) \/ Delay(past)
        PROVE  then'[t] = then[t] /\ arg'[t] = arg[t]
    BY <1>1, <1>2, <2>6 DEF CountedSleepUntil, Delay, Method, Quiet, Continuation
  <2>7. CASE SchedulerLock \/ SchedulerSafeLock \/ SchedulerUnlock
    BY <2>7 DEF SchedulerLock, SchedulerSafeLock, SchedulerUnlock
  <2> QED
    BY <2>1, <2>2, <2>3, <2>4, <2>5, <2>6, <2>7 DEF CallShape
<1>8. CASE UNCHANGED vars
  BY <1>8 DEF vars
<1> QED
  BY <1>3, <1>4, <1>5, <1>6, <1>7, <1>8 DEF Next

\* Every step keeps it.
LEMMA ReviveStep ==
  ASSUME OneReviver, LockInv, ThreadInv, ReviveInv, [Next]_vars
  PROVE  ReviveInv'
<1>1. /\ then \in [Thread -> Continuation] /\ arg \in [Thread -> Thread]
      /\ current \in Thread
  BY DEF LockInv, TypeOK, Kernel
<1>2. ReinitializesExited
  BY <1>1 DEF ReviveInv, Reviving, ReinitializesExited
<1>3. CASE Reinitialize
  <2> DEFINE t == arg[current]
  <2>1. t \in Thread /\ t # current /\ "EXITED" \in k.state[t]
    BY <1>2, <1>3, Reinitialized
  <2>2. /\ then' = [then EXCEPT ![current] = "resume", ![t] = "fresh"]
        /\ then[current] = "reinit"
    BY <1>3 DEF Reinitialize
  <2> HIDE DEF t
  <2>3. current # Idle /\ "resume" \in Calls[current]
    BY <1>1, <2>2 DEF ReviveInv, Reviving
  <2>4. ASSUME NEW u \in Thread PROVE Reviving(u)'
    <3>1. CASE u = current
      BY <1>1, <2>1, <2>2, <2>3, <3>1 DEF Reviving
    <3>2. CASE u = t
      BY <1>1, <2>1, <2>2, <3>2 DEF Reviving
    <3>3. CASE u # current /\ u # t
      <4>1. then'[u] = then[u]
        BY <1>1, <2>1, <2>2, <3>3
      <4>2. then[u] \in {"reinit", "resume"} => u # Idle /\ "resume" \in Calls[u]
        BY DEF ReviveInv, Reviving
      <4>3. then[u] \notin {"reinit", "resume"}
        BY <1>1, <2>3, <3>3, <4>2 DEF OneReviver, AppThread
      <4> QED
        BY <4>1, <4>3 DEF Reviving
    <3> QED
      BY <3>1, <3>2, <3>3
  <2> QED
    BY <2>4 DEF ReviveInv
<1>4. ASSUME NEW t \in AppThread, ResumeCheck(t) PROVE ReviveInv'
  <2>1. /\ current # Idle /\ "resume" \in Calls[current] /\ t \in Thread
        /\ then' = [then EXCEPT ![current] = IF k.state[t] = {"EXITED"} THEN "reinit"
                                                                        ELSE "resume"]
        /\ arg' = [arg EXCEPT ![current] = t]
        /\ k' = k
    BY <1>4 DEF ResumeCheck, CanCall, AppThread
  <2>2. ASSUME NEW u \in Thread PROVE Reviving(u)'
    <3>1. CASE u = current
      <4>1. arg'[u] = t /\ (then'[u] = "reinit" => k.state[t] = {"EXITED"})
        BY <1>1, <2>1, <3>1
      <4> QED
        BY <2>1, <3>1, <4>1 DEF Reviving
    <3>2. CASE u # current
      <4>1. then'[u] = then[u] /\ arg'[u] = arg[u] /\ Reviving(u)
        BY <1>1, <2>1, <3>2 DEF ReviveInv
      <4> QED
        BY <2>1, <4>1 DEF Reviving
    <3> QED
      BY <3>1, <3>2
  <2> QED
    BY <2>2 DEF ReviveInv
<1>5. CASE ~Reinitialize /\ ~ \E t \in AppThread : ResumeCheck(t)
  <2>1. ASSUME NEW u \in Thread PROVE Reviving(u)'
    <3>1. Reviving(u)
      BY DEF ReviveInv
    <3>2. then'[u] \in {"reinit", "resume"} => then'[u] = then[u] /\ arg'[u] = arg[u]
      BY <1>5, PlacesKept
    <3>3. "EXITED" \in k.state[arg[u]] => "EXITED" \in k'.state[arg[u]]
      BY <1>1, <1>5, ObjectsShapes, DeadStay
    <3> QED
      BY <3>1, <3>2, <3>3 DEF Reviving
  <2> QED
    BY <2>1 DEF ReviveInv
<1> QED
  BY <1>3, <1>4, <1>5

\* If one thread alone resumes threads, only exited threads are reinitialized
\* (kapi.cxx:206): what the check with the scheduler unlocked found of a
\* thread still holds when its constructor is called.
THEOREM AlwaysReinitializesExited ==
  ASSUME OneReviver
  PROVE  Spec => []ReinitializesExited
<1>1. Init => LockInv /\ ThreadInv /\ ReviveInv
  BY LockInit, ThreadInit DEF Init, ReviveInv, Reviving
<1>3. LockInv /\ ReviveInv => ReinitializesExited
  BY DEF LockInv, TypeOK, Kernel, ReviveInv, Reviving, ReinitializesExited
<1>4. LockInv /\ ThreadInv /\ ReviveInv /\ [Next]_vars => LockInv' /\ ThreadInv' /\ ReviveInv'
  BY <1>3, LockStep, ThreadStep, ReviveStep
<1> QED
  BY <1>1, <1>3, <1>4, PTL DEF Spec

\* So that in such a program everything above holds.
THEOREM OneReviverIsSafe ==
  ASSUME OneReviver
  PROVE  Spec => /\ [](RunQueues /\ WaitQueues /\ StatesAgree /\ TimersInSleep)
                 /\ [](NoDeadThreadRuns /\ LockPerThread /\ HighestRuns)
                 /\ KillSticks
<1> QED
  BY AlwaysReinitializesExited, AlwaysRunQueues, AlwaysWaitQueues, AlwaysStatesAgree,
     AlwaysTimersInSleep, AlwaysNoDeadThreadRuns, AlwaysLockPerThread, AlwaysHighestRuns,
     AlwaysKillSticks, PTL
=============================================================================
