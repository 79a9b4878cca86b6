------------------------------- MODULE Kernel -------------------------------
(***************************************************************************)
(* The eCos kernel the tool is run on: the scheduler lock and the context  *)
(* switch of sched.cxx, driven by the thread methods of thread.cxx, by     *)
(* interrupts and by the DSRs they post (intr.cxx), through the calls      *)
(* kapi.cxx offers to threads.                                             *)
(*                                                                         *)
(* There is one processor.  Its control point is pc: "app" while the       *)
(* current thread is outside the scheduler, otherwise the place it has     *)
(* reached in Cyg_Scheduler::unlock_inner.  A thread switched out keeps    *)
(* its place: the lock value it wants back (new_lock) and what is left of  *)
(* the method it called (then).                                            *)
(***************************************************************************)
EXTENDS Thread

CONSTANTS
  Object,       \* the queue of the one synchronization object
  InitPri,      \* the priorities the threads are created with
  Calls,        \* the calls each application thread makes
  Interrupt,    \* interrupt objects with a DSR
  Clock,        \* the one whose DSR is the real time clock
  DsrCalls,     \* the calls the other DSRs make
  MaxSuspend,   \* bound on suspend_count
  MaxWakeup,    \* bound on wakeup_count
  MaxHeld       \* bound on the nesting of cyg_scheduler_lock

ASSUME ObjectAssumption == Object \in WaitQueue
ASSUME InitPriAssumption ==
  /\ InitPri \in [Thread -> Pri]
  /\ \A t \in Thread : InitPri[t] = MinPri <=> t = Idle
ASSUME InterruptAssumption == Clock \in Interrupt
ASSUME BoundAssumption ==
  MaxSuspend \in Nat \ {0} /\ MaxWakeup \in Nat /\ MaxHeld \in Nat

VARIABLES
  k,            \* the kernel's objects
  sched_lock,   \* the scheduler lock
  pc,           \* where the processor is
  new_lock,     \* the argument of each thread's last call of unlock_inner
  then,         \* what each thread does when it is back from unlock_inner
  arg,          \* the thread a cyg_thread_resume in progress is about
  held,         \* cyg_scheduler_lock calls each thread has not undone
  dsr_list,     \* the interrupts with a posted DSR, in order
  batch         \* those call_pending_DSRs has taken and not yet called

vars == <<k, sched_lock, pc, new_lock, then, arg, held, dsr_list, batch>>

Pc == {"boot", "app", "loop", "dsrs", "switch", "unlock"}

Continuation == {"fresh", "none", "counted", "timed", "delay", "waiting",
                 "reinit", "resume", "dead"}

current == k.current
InRange(seq) == {seq[i] : i \in 1 .. Len(seq)}
-----------------------------------------------------------------------------
(***************************************************************************)
(* Startup.  The constructors have run: the idle thread is current and     *)
(* runnable, the others are suspended, and the scheduler lock is 1.        *)
(***************************************************************************)
Init ==
  /\ k = [state |-> [t \in Thread |-> IF t = Idle THEN RUNNING ELSE {"SUSPENDED"}],
          suspend_count |-> [t \in Thread |-> IF t = Idle THEN 0 ELSE 1],
          wakeup_count |-> [t \in Thread |-> 0],
          sleep_reason |-> [t \in Thread |-> "NONE"],
          wake_reason |-> [t \in Thread |-> "NONE"],
          priority |-> InitPri,
          original_priority |-> InitPri,
          priority_inherited |-> {},
          mutex_count |-> [t \in Thread |-> 0],
          slice |-> [t \in Thread |-> Ticks],
          timer |-> {},
          queue |-> [t \in Thread |-> NULL],
          waitq |-> [q \in WaitQueue |-> <<>>],
          run_queue |-> [p \in Pri |-> IF p = MinPri THEN <<Idle>> ELSE <<>>],
          queue_map |-> {MinPri},
          need_reschedule |-> TRUE,
          timeslice_count |-> Ticks,
          current |-> Idle]
  /\ sched_lock = 1
  /\ pc = "boot"
  /\ new_lock = [t \in Thread |-> 0]
  /\ then = [t \in Thread |-> "fresh"]
  /\ arg = [t \in Thread |-> Idle]
  /\ held = [t \in Thread |-> 0]
  /\ dsr_list = <<>>
  /\ batch = <<>>

\* A thread is resumed before the scheduler starts.
BootResume(t) ==
  /\ pc = "boot"
  /\ k.suspend_count[t] > 0
  /\ k' = resume(k, t)
  /\ UNCHANGED <<sched_lock, pc, new_lock, then, arg, held, dsr_list, batch>>

\* The effect on k of thread_entry: the thread begins with a whole timeslice.
Enter(j, t) ==
  [j EXCEPT !.current = t, !.need_reschedule = FALSE,
            !.slice[t] = Ticks, !.timeslice_count = Ticks]

\* Load the first thread.  thread_entry unlocks until the lock is zero, so
\* that it goes on like any other unlock.
start_cpu ==
  /\ pc = "boot"
  /\ LET next == schedule(k)
     IN  /\ k' = Enter(k, next)
         /\ then' = [then EXCEPT ![next] = "none"]
         /\ new_lock' = [new_lock EXCEPT ![next] = 0]
  /\ sched_lock' = 1
  /\ pc' = "loop"
  /\ UNCHANGED <<arg, held, dsr_list, batch>>
-----------------------------------------------------------------------------
(***************************************************************************)
(* Interrupts.                                                             *)
(***************************************************************************)

\* post_dsr: only the first of several posts puts the interrupt on the list.
post_dsr(i) ==
  IF i \in InRange(dsr_list) \cup InRange(batch) THEN dsr_list
  ELSE Append(dsr_list, i)

\* An interrupt whose ISR asks for its DSR.  interrupt_end unlocks the lock
\* the interrupt took, which does work only if it was not held before.
Interrupted(i) ==
  /\ pc # "boot"
  /\ dsr_list' = post_dsr(i)
  /\ IF sched_lock = 0
       THEN /\ sched_lock' = 1
            /\ pc' = "loop"
            /\ new_lock' = [new_lock EXCEPT ![current] = 0]
       ELSE UNCHANGED <<sched_lock, pc, new_lock>>
  /\ UNCHANGED <<k, then, arg, held, batch>>
-----------------------------------------------------------------------------
(***************************************************************************)
(* unlock_inner.                                                           *)
(***************************************************************************)

\* Slip: only the DSR posted last is taken.
TakeLast ==
  /\ pc = "loop"
  /\ IF dsr_list = <<>> THEN pc' = "switch" /\ UNCHANGED <<dsr_list, batch>>
     ELSE /\ batch' = <<dsr_list[Len(dsr_list)]>>
          /\ dsr_list' = SubSeq(dsr_list, 1, Len(dsr_list) - 1)
          /\ pc' = "dsrs"
  /\ UNCHANGED <<k, sched_lock, new_lock, then, arg, held>>

\* The head of the loop: take the DSRs that are pending.
call_pending_DSRs ==
  /\ pc = "loop"
  /\ batch' = dsr_list
  /\ dsr_list' = <<>>
  /\ pc' = IF dsr_list = <<>> THEN "switch" ELSE "dsrs"
  /\ UNCHANGED <<k, sched_lock, new_lock, then, arg, held>>

\* The end of one DSR.
DsrDone ==
  /\ batch' = Tail(batch)
  /\ pc' = IF Tail(batch) = <<>> THEN "switch" ELSE "dsrs"
  /\ UNCHANGED <<sched_lock, new_lock, then, arg, held, dsr_list>>

\* The clock: at most one timer goes off, then the timeslice is counted.
ClockDsr ==
  /\ pc = "dsrs"
  /\ Head(batch) = Clock
  /\ \/ k' = timeslice(k)
     \/ \E t \in k.timer : k' = timeslice(alarm([k EXCEPT !.timer = @ \ {t}], t))
  /\ DsrDone

\* Hand the object to the first thread that waits for it.
HandOver(j) ==
  LET t == Head(j.waitq[Object])
  IN  wake(set_wake_reason(dequeue(j, Object), t, "DONE"), t)

\* Another DSR, which calls one of the methods a DSR may call.
DeviceDsr ==
  /\ pc = "dsrs"
  /\ Head(batch) # Clock
  /\ \/ k' = k
     \/ "signal" \in DsrCalls /\ k.waitq[Object] # <<>> /\ k' = HandOver(k)
     \/ \E t \in AppThread :
          \/ "counted_wake" \in DsrCalls /\ k.wakeup_count[t] < MaxWakeup
             /\ k' = counted_wake(k, t)
          \/ "resume" \in DsrCalls /\ k.state[t] # {"EXITED"} /\ k' = resume(k, t)
          \/ "suspend" \in DsrCalls /\ k.suspend_count[t] < MaxSuspend
             /\ k' = suspend(k, t)
          \/ "release" \in DsrCalls /\ k' = release(k, t)
  /\ DsrDone

\* If the current thread cannot go on, or a reschedule was asked for, leave it
\* for the best one, unless the two are the same.  A new thread starts in
\* thread_entry; another goes on where it was.
SwitchContext ==
  /\ pc = "switch"
  /\ LET wanted == k.state[current] # RUNNING \/ k.need_reschedule
         next == schedule(k)
         saved == [k EXCEPT !.slice[current] = k.timeslice_count]
     IN  IF wanted /\ next # current /\ then[next] = "fresh"
           THEN /\ k' = Enter(saved, next)
                /\ then' = [then EXCEPT ![next] = "none"]
                /\ new_lock' = [new_lock EXCEPT ![next] = 0]
                /\ sched_lock' = 1
                /\ pc' = "loop"
           ELSE /\ k' = IF ~wanted THEN k
                        ELSE IF next = current
                          THEN [k EXCEPT !.need_reschedule = FALSE]
                        ELSE [saved EXCEPT !.current = next,
                                           !.need_reschedule = FALSE,
                                           !.timeslice_count = saved.slice[next]]
                /\ pc' = "unlock"
                /\ UNCHANGED <<sched_lock, new_lock, then>>
  /\ UNCHANGED <<arg, held, dsr_list, batch>>

\* Slip: the lock is cleared without looking at the DSRs again.
UnlockBlindly ==
  /\ pc = "unlock"
  /\ sched_lock' = new_lock[current]
  /\ pc' = "app"
  /\ UNCHANGED <<k, new_lock, then, arg, held, dsr_list, batch>>

\* Slip: the lock is left as the other thread had it.
UnlockUnchanged ==
  /\ pc = "unlock"
  /\ IF new_lock[current] = 0 /\ dsr_list = <<>>
       THEN sched_lock' = 0 /\ pc' = "app"
     ELSE IF new_lock[current] = 0
       THEN sched_lock' = 1 /\ pc' = "loop"
     ELSE sched_lock' = sched_lock /\ pc' = "app"
  /\ UNCHANGED <<k, new_lock, then, arg, held, dsr_list, batch>>

\* Give the lock the value the thread wants.  When that is zero, go around
\* again if a DSR was posted in the meantime.
FinishUnlock ==
  /\ pc = "unlock"
  /\ IF new_lock[current] = 0 /\ dsr_list # <<>>
       THEN sched_lock' = 1 /\ pc' = "loop"
       ELSE sched_lock' = new_lock[current] /\ pc' = "app"
  /\ UNCHANGED <<k, new_lock, then, arg, held, dsr_list, batch>>
-----------------------------------------------------------------------------
(***************************************************************************)
(* How a method called by the current thread ends.                         *)
(***************************************************************************)

\* unlock() brings the lock from "locked" to one less: nothing more happens
\* unless that is zero.
UnlockFrom(locked) ==
  /\ sched_lock' = IF locked = 1 THEN 1 ELSE locked - 1
  /\ pc' = IF locked = 1 THEN "loop" ELSE "app"
  /\ new_lock' = IF locked = 1 THEN [new_lock EXCEPT ![current] = 0] ELSE new_lock

\* Slip: unlock_inner is asked to release the lock.
RescheduleUnlocking(lock, locked) ==
  /\ sched_lock' = locked
  /\ pc' = "loop"
  /\ new_lock' = [new_lock EXCEPT ![current] = 0]

\* unlock_inner(lock) with a lock that stays held: no DSRs are called.
RescheduleAt(lock, locked) ==
  /\ sched_lock' = locked
  /\ pc' = IF lock = 0 THEN "loop" ELSE "switch"
  /\ new_lock' = [new_lock EXCEPT ![current] = lock]

Quiet == UNCHANGED <<arg, held, dsr_list, batch>>

\* The current thread leaves for good; it may be killed with the lock held.
Exiting ==
  /\ k' = exit(k)
  /\ RescheduleAt(sched_lock + 1, sched_lock + 1)
  /\ then' = [then EXCEPT ![current] = "dead"]
  /\ Quiet

\* The current thread may make the call.
CanCall(call) ==
  /\ pc = "app"
  /\ then[current] = "none"
  /\ current # Idle
  /\ call \in Calls[current]

\* A method that locks, changes k to j and unlocks, after which "rest" is
\* left of the call.
Method(j, rest) ==
  /\ k' = j
  /\ UnlockFrom(sched_lock + 1)
  /\ then' = [then EXCEPT ![current] = rest]
  /\ Quiet
-----------------------------------------------------------------------------
(***************************************************************************)
(* The calls of kapi.cxx.                                                  *)
(***************************************************************************)
Suspend(t) ==
  CanCall("suspend") /\ k.suspend_count[t] < MaxSuspend /\ Method(suspend(k, t), "none")

Kill(t) ==
  CanCall("kill") /\ IF t = current THEN Exiting ELSE Method(kill(k, t), "none")

Release(t) == CanCall("release") /\ Method(release(k, t), "none")

SetPriority(t, p) == CanCall("set_priority") /\ Method(set_priority(k, t, p), "none")

CountedWake(t) ==
  /\ CanCall("counted_wake")
  /\ k.wakeup_count[t] < MaxWakeup
  /\ Method(counted_wake(k, t), "none")

CancelCountedWake(t) ==
  CanCall("cancel_counted_wake") /\ Method(cancel_counted_wake(k, t), "none")

ToQueueHead(t) == CanCall("to_queue_head") /\ Method(to_queue_head(k, t), "none")

RotateQueue(p) == CanCall("rotate_queue") /\ Method(rotate_queue(k, p), "none")

Exit == CanCall("exit") /\ Exiting

\* unlock_reschedule: the switch happens even if the lock stays held.
Yield ==
  /\ CanCall("yield")
  /\ k' = yield(k, current)
  /\ RescheduleAt(sched_lock, sched_lock + 1)
  /\ UNCHANGED then
  /\ Quiet

\* cyg_thread_resume looks at the state with the scheduler unlocked, ...
ResumeCheck(t) ==
  /\ CanCall("resume")
  /\ then' = [then EXCEPT ![current] = IF k.state[t] = {"EXITED"} THEN "reinit"
                                                                  ELSE "resume"]
  /\ arg' = [arg EXCEPT ![current] = t]
  /\ UNCHANGED <<k, sched_lock, pc, new_lock, held, dsr_list, batch>>

\* ... calls the constructor again on an exited thread, still unlocked (the
\* thread list is locked for its update) ...
Reinitialize ==
  /\ pc = "app"
  /\ then[current] = "reinit"
  /\ k' = reinitialize(k, arg[current])
  /\ UnlockFrom(sched_lock + 1)
  /\ then' = [then EXCEPT ![current] = "resume", ![arg[current]] = "fresh"]
  /\ held' = [held EXCEPT ![arg[current]] = 0]
  /\ arg' = [arg EXCEPT ![arg[current]] = Idle]
  /\ UNCHANGED <<dsr_list, batch>>

\* ... and resumes the thread.
ResumeCall ==
  /\ pc = "app"
  /\ then[current] = "resume"
  /\ k' = resume(k, arg[current])
  /\ UnlockFrom(sched_lock + 1)
  /\ then' = [then EXCEPT ![current] = "none"]
  /\ arg' = [arg EXCEPT ![current] = Idle]
  /\ UNCHANGED <<held, dsr_list, batch>>

\* The calls that block are made with the scheduler unlocked.
CanBlock(call) == CanCall(call) /\ sched_lock = 0

CountedSleep == CanBlock("counted_sleep") /\ Method(counted_sleep(k), "counted")

\* When it has to sleep it reschedules with the lock held.
CountedSleepUntil(past) ==
  /\ CanBlock("timed_sleep")
  /\ LET j == counted_sleep_until(k, past)
     IN  IF j.state[current] = RUNNING THEN Method(j, "counted")
         ELSE /\ k' = j
              /\ RescheduleAt(1, 1)
              /\ then' = [then EXCEPT ![current] = "timed"]
              /\ Quiet

Delay(past) == CanBlock("delay") /\ Method(delay(k, past), "delay")

\* Wait on a synchronization object: sleep on its queue, with the lock held.
Wait ==
  /\ CanBlock("wait")
  /\ k' = enqueue(sleep(set_sleep_reason(k, current, "WAIT")), Object, current)
  /\ RescheduleAt(1, 1)
  /\ then' = [then EXCEPT ![current] = "waiting"]
  /\ Quiet

Signal ==
  CanCall("signal") /\ k.waitq[Object] # <<>> /\ Method(HandOver(k), "none")

\* Back in counted_sleep(delay): clear the timer and unlock.
AfterTimedSleep ==
  /\ pc = "app"
  /\ then[current] = "timed"
  /\ k' = clear_timer(k, current)
  /\ UnlockFrom(sched_lock)
  /\ then' = [then EXCEPT ![current] = "counted"]
  /\ Quiet

\* Slip: the timer is left to go off.
AfterDelayArmed ==
  /\ pc = "app"
  /\ then[current] = "delay"
  /\ then' = [then EXCEPT ![current] = "counted"]
  /\ UNCHANGED <<k, sched_lock, pc, new_lock, arg, held, dsr_list, batch>>

\* Back in delay, unlocked: clear the timer, then look at the wake reason.
AfterDelay ==
  /\ pc = "app"
  /\ then[current] = "delay"
  /\ k' = clear_timer(k, current)
  /\ then' = [then EXCEPT ![current] = "counted"]
  /\ UNCHANGED <<sched_lock, pc, new_lock, arg, held, dsr_list, batch>>

\* Back from a wait: a thread that was killed exits with the lock held.
AfterWait ==
  /\ pc = "app"
  /\ then[current] = "waiting"
  /\ IF k.wake_reason[current] = "EXIT" THEN Exiting
     ELSE /\ UnlockFrom(sched_lock)
          /\ then' = [then EXCEPT ![current] = "none"]
          /\ UNCHANGED k
          /\ Quiet

\* Slip: the wake reason is not looked at.
ReturnAnyway ==
  /\ pc = "app"
  /\ then[current] = "counted"
  /\ then' = [then EXCEPT ![current] = "none"]
  /\ UNCHANGED <<k, sched_lock, pc, new_lock, arg, held, dsr_list, batch>>

\* The end of a sleep: a thread that was killed meanwhile exits.
AfterSleep ==
  /\ pc = "app"
  /\ then[current] = "counted"
  /\ IF k.wake_reason[current] = "EXIT" THEN Exiting
     ELSE /\ then' = [then EXCEPT ![current] = "none"]
          /\ UNCHANGED <<k, sched_lock, pc, new_lock, arg, held, dsr_list, batch>>

SchedulerLock ==
  /\ CanCall("lock")
  /\ held[current] < MaxHeld
  /\ sched_lock' = sched_lock + 1
  /\ held' = [held EXCEPT ![current] = @ + 1]
  /\ UNCHANGED <<k, pc, new_lock, then, arg, dsr_list, batch>>

\* Lock, but not a second time.
SchedulerSafeLock ==
  /\ CanCall("safe_lock")
  /\ sched_lock = 0
  /\ MaxHeld > 0
  /\ sched_lock' = 1
  /\ held' = [held EXCEPT ![current] = 1]
  /\ UNCHANGED <<k, pc, new_lock, then, arg, dsr_list, batch>>

SchedulerUnlock ==
  /\ CanCall("lock") \/ CanCall("safe_lock")
  /\ held[current] > 0
  /\ UnlockFrom(sched_lock)
  /\ held' = [held EXCEPT ![current] = @ - 1]
  /\ UNCHANGED <<k, then, arg, dsr_list, batch>>

KernelStep == start_cpu \/ call_pending_DSRs \/ ClockDsr \/ DeviceDsr
              \/ SwitchContext \/ FinishUnlock

\* The rest of a call that has already been made.
ReturnStep == Reinitialize \/ ResumeCall \/ AfterTimedSleep \/ AfterDelay
              \/ AfterWait \/ AfterSleep

CallStep ==
  \/ \E t \in AppThread :
       \/ Suspend(t) \/ Kill(t) \/ Release(t) \/ CountedWake(t)
       \/ CancelCountedWake(t) \/ ToQueueHead(t) \/ ResumeCheck(t)
       \/ \E p \in Pri \ {MinPri} : SetPriority(t, p)
  \/ \E p \in Pri \ {MinPri} : RotateQueue(p)
  \/ \E past \in BOOLEAN : CountedSleepUntil(past) \/ Delay(past)
  \/ CountedSleep \/ Wait \/ Signal \/ Yield \/ Exit
  \/ SchedulerLock \/ SchedulerSafeLock \/ SchedulerUnlock

Next ==
  \/ \E t \in AppThread : BootResume(t)
  \/ \E i \in Interrupt : Interrupted(i)
  \/ KernelStep
  \/ ReturnStep
  \/ CallStep

Spec == Init /\ [][Next]_vars

(***************************************************************************)
(* Fairness: the processor goes on executing the scheduler's code, and the *)
(* rest of a method it is in however often interrupts break in; the clock  *)
(* goes on ticking.  Nothing is assumed of the application.                *)
(***************************************************************************)
FairSpec == /\ Spec
            /\ WF_vars(KernelStep)
            /\ SF_vars(ReturnStep)
            /\ WF_vars(Interrupted(Clock))
-----------------------------------------------------------------------------
(***************************************************************************)
(* Properties.                                                             *)
(***************************************************************************)
TypeOK ==
  /\ k \in Kernel
  /\ sched_lock \in Nat
  /\ pc \in Pc
  /\ new_lock \in [Thread -> Nat]
  /\ then \in [Thread -> Continuation]
  /\ arg \in [Thread -> Thread]
  /\ held \in [Thread -> Nat]
  /\ dsr_list \in Seq(Interrupt)
  /\ batch \in Seq(Interrupt)

\* The map says which run queues are not empty; a thread is on the run queue
\* of its priority, once, exactly when it is runnable, and on no other (the
\* assertions "Map and queue disagree" and "Idle thread vanished").
RunQueues ==
  /\ k.queue_map = {p \in Pri : k.run_queue[p] # <<>>}
  /\ \A t \in Thread : \A p \in Pri :
       On(k.run_queue[p], t) <=> (k.state[t] = RUNNING /\ p = k.priority[t])
  /\ \A p \in Pri : \A i, j \in 1 .. Len(k.run_queue[p]) :
       k.run_queue[p][i] = k.run_queue[p][j] => i = j
  /\ k.state[Idle] = RUNNING

\* The queue pointer of a thread and the queue agree, and only a sleeping
\* thread is on a queue (the assertion "Runnable thread on a queue").
WaitQueues ==
  /\ \A t \in Thread, q \in WaitQueue : On(k.waitq[q], t) <=> k.queue[t] = q
  /\ \A q \in WaitQueue : \A i, j \in 1 .. Len(k.waitq[q]) :
       k.waitq[q][i] = k.waitq[q][j] => i = j
  /\ \A t \in Thread : k.queue[t] # NULL => "SLEEPING" \in k.state[t]

\* The state bits agree with the counts and reasons kept beside them: a
\* sleeper has a reason, a counted sleeper no wakeup waiting for it, and a
\* thread is suspended while its suspensions outnumber its resumes (one that
\* suspended itself under the scheduler lock and then exits keeps its count).
StatesAgree ==
  \A t \in Thread :
    /\ "SLEEPING" \in k.state[t] <=> k.sleep_reason[t] # "NONE"
    /\ "COUNTSLEEP" \in k.state[t] => "SLEEPING" \in k.state[t] /\ k.wakeup_count[t] = 0
    /\ "SUSPENDED" \in k.state[t] => k.suspend_count[t] > 0
    /\ k.suspend_count[t] > 0 => k.state[t] \cap {"SUSPENDED", "EXITED"} # {}
    /\ "EXITED" \in k.state[t] => "SLEEPING" \notin k.state[t]

\* When the scheduler is unlocked the thread that runs is runnable and no
\* runnable thread is better.
HighestRuns ==
  pc = "app" /\ sched_lock = 0 =>
    /\ k.state[current] = RUNNING
    /\ \A t \in Thread : k.state[t] = RUNNING => k.priority[current] <= k.priority[t]

\* No DSR waits while the scheduler is unlocked: the test is made after the
\* lock is cleared, so that none has to wait for the next time it is
\* released (sched.cxx:259).
NoDsrWaits == sched_lock = 0 => dsr_list = <<>> /\ batch = <<>>

\* The precondition of unlock_inner (sched.cxx:145), and DSRs are called
\* with the lock at 1 (intr.cxx:247).
LockPrecondition ==
  /\ pc = "loop" => sched_lock = 1 /\ new_lock[current] = 0
  /\ pc = "dsrs" => sched_lock = 1
  /\ pc = "switch" => sched_lock \in {1, new_lock[current], new_lock[current] + 1}

\* Whether the method t is in has the lock for itself.
OwnLock(t) == IF then[t] \in {"timed", "waiting"} THEN 1 ELSE 0

\* The lock is in effect a variable of each thread (sched.cxx:129): whoever
\* ran in between, a thread finds it as it left it.
LockPerThread == pc = "app" => sched_lock = held[current] + OwnLock(current)

\* A thread that was killed runs no more of its own code: exit never
\* returns, and a sleeper that is killed exits when it wakes.
NoDeadThreadRuns ==
  pc = "app" =>
    /\ then[current] \notin {"dead", "fresh"}
    /\ "EXITED" \notin k.state[current]
    /\ then[current] = "none" => k.wake_reason[current] # "EXIT"

\* A timer is armed only during the sleep it was armed for: it cannot go off
\* in a later one, nor after the thread was killed.
TimersInSleep ==
  \A t \in k.timer : then[t] \in {"timed", "delay"} /\ "EXITED" \notin k.state[t]

\* A thread told to exit stays told, whatever wakes or releases it in the
\* meantime, until it has exited.
KillSticks ==
  [][\A t \in Thread : k.wake_reason[t] = "EXIT" =>
        k'.wake_reason[t] = "EXIT" \/ "EXITED" \in k.state[t]]_vars

\* An interrupt's DSR is called once it is posted.
DsrServed ==
  \A i \in Interrupt :
    i \in InRange(dsr_list) ~> i \notin InRange(dsr_list) \cup InRange(batch)

\* Nobody runnable is better than t.
Unbeaten(t) ==
  k.state[t] = RUNNING /\ \A u \in Thread :
    k.state[u] = RUNNING => k.priority[t] <= k.priority[u]

\* Threads of one priority take turns: a thread nobody beats runs again and
\* again, though its equals never give up the processor.
TakeTurns == \A t \in AppThread : []<>(current = t \/ ~Unbeaten(t))

\* Interrupts leave the threads some time: unlock_inner, which goes around
\* again whenever a DSR was posted, is left again and again.
NoStorm == []<>(pc = "app")

\* A thread that is killed while it sleeps exits, if it has the best priority
\* of all and interrupts leave it the time to.
KilledExits ==
  NoStorm =>
    \A t \in AppThread :
      (/\ k.wake_reason[t] = "EXIT"
       /\ \A u \in Thread \ {t} : k.priority[t] < k.priority[u])
        ~> "EXITED" \in k.state[t]

\* A running thread always has ticks left in its timeslice: when the count
\* runs out while the thread is not running, "we are going to reschedule
\* anyway" (mlqueue.cxx:524).
TimesliceLeft == pc = "app" /\ sched_lock = 0 => k.timeslice_count \in 1 .. Ticks

\* Only an exited thread is reinitialized (kapi.cxx:206).
ReinitializesExited ==
  pc = "app" /\ then[current] = "reinit" => "EXITED" \in k.state[arg[current]]
=============================================================================
