------------------------------- MODULE Thread -------------------------------
(***************************************************************************)
(* The methods of Cyg_Thread and Cyg_ThreadTimer (thread.cxx) that change  *)
(* the state of a thread.  An operator is the part of the method that runs *)
(* with the scheduler locked; what a method does after it has unlocked the *)
(* scheduler is an action of Kernel.                                       *)
(***************************************************************************)
EXTENDS MLQueue

\* Inline methods of thread.inl, which is not part of the repository.
set_sleep_reason(k, t, r) ==
  [k EXCEPT !.sleep_reason[t] = r, !.wake_reason[t] = "NONE"]

set_wake_reason(k, t, r) ==
  [k EXCEPT !.sleep_reason[t] = "NONE", !.wake_reason[t] = r]

clear_timer(k, t) ==
  [k EXCEPT !.timer = @ \ {t}, !.sleep_reason[t] = "NONE"]
-----------------------------------------------------------------------------
\* Put the current thread to sleep.
sleep(k) ==
  LET t == k.current
      r == IF k.state[t] = RUNNING THEN rem_thread(k, t) ELSE k
  IN  [r EXCEPT !.state[t] = @ \cup {"SLEEPING"}]

\* Awaken a sleeping thread; it runs unless it is also suspended.
wake(k, t) ==
  LET w == remove([k EXCEPT !.state[t] = @ \ SLEEPSET], t)
  IN  IF k.state[t] \cap SLEEPSET = {} THEN k
      ELSE IF w.state[t] = RUNNING THEN add_thread(w, t)
      ELSE w

\* What the alarm of a thread's timer does, once the clock has disarmed it.
alarm(k, t) ==
  CASE k.sleep_reason[t] = "DELAY" -> wake(set_wake_reason(k, t, "DONE"), t)
    [] k.sleep_reason[t] = "TIMEOUT" -> wake(set_wake_reason(k, t, "TIMEOUT"), t)
    [] OTHER -> k

\* Arm the timer.  A time in the past fires the alarm at once.
set_timer(k, t, reason, past) ==
  LET s == set_sleep_reason(k, t, reason)
  IN  IF past THEN alarm(s, t) ELSE [s EXCEPT !.timer = @ \cup {t}]

\* Slip: the queued wakeup is not looked at.
SleepAnyway(k) ==
  LET s == sleep(set_sleep_reason(k, k.current, "WAIT"))
  IN  [s EXCEPT !.state[k.current] = @ \cup {"COUNTSLEEP"}]

\* Sleep until counted_wake, or use up one wakeup that is already counted.
counted_sleep(k) ==
  LET t == k.current
      s == sleep(set_sleep_reason(k, t, "WAIT"))
  IN  IF k.wakeup_count[t] = 0
        THEN [s EXCEPT !.state[t] = @ \cup {"COUNTSLEEP"}]
        ELSE [k EXCEPT !.wakeup_count[t] = @ - 1]

\* The same with a timeout, up to the reschedule.
counted_sleep_until(k, past) ==
  LET t == k.current
      armed == set_timer(k, t, "TIMEOUT", past)
      s == sleep(set_sleep_reason(armed, t, "TIMEOUT"))
  IN  IF k.wakeup_count[t] > 0 THEN [k EXCEPT !.wakeup_count[t] = @ - 1]
      ELSE IF armed.wake_reason[t] # "NONE" THEN armed
      ELSE [s EXCEPT !.state[t] = @ \cup {"COUNTSLEEP"}]

\* End a counted sleep, or count the wakeup.
counted_wake(k, t) ==
  IF "COUNTSLEEP" \notin k.state[t] THEN [k EXCEPT !.wakeup_count[t] = @ + 1]
  ELSE wake(set_wake_reason(k, t, "DONE"), t)

cancel_counted_wake(k, t) == [k EXCEPT !.wakeup_count[t] = 0]

suspend(k, t) ==
  LET r == IF k.state[t] = RUNNING THEN rem_thread(k, t) ELSE k
  IN  [r EXCEPT !.suspend_count[t] = @ + 1,
                !.state[t] = @ \cup {"SUSPENDED"}]

\* Clear the suspension; the thread runs unless it also sleeps.
force_resume(k, t) ==
  LET r == [k EXCEPT !.suspend_count[t] = 0, !.state[t] = @ \ {"SUSPENDED"}]
  IN  IF k.suspend_count[t] = 0 THEN k
      ELSE IF r.state[t] = RUNNING THEN add_thread(r, t)
      ELSE r

\* Slip: a resume too many is not ignored.
ResumeBelowZero(k, t) ==
  IF k.suspend_count[t] # 1 THEN [k EXCEPT !.suspend_count[t] = @ - 1]
  ELSE force_resume(k, t)

\* Slip: resuming makes the thread runnable though it sleeps.
ResumeSleeping(k, t) ==
  IF k.suspend_count[t] = 0 THEN k
  ELSE IF k.suspend_count[t] > 1 THEN [k EXCEPT !.suspend_count[t] = @ - 1]
  ELSE add_thread([k EXCEPT !.suspend_count[t] = 0,
                            !.state[t] = @ \ {"SUSPENDED"}], t)

\* Undo one suspend, ignored when there is none.
resume(k, t) ==
  IF k.suspend_count[t] > 1 THEN [k EXCEPT !.suspend_count[t] = @ - 1]
  ELSE force_resume(k, t)

Asleep(k, t) == k.sleep_reason[t] \in {"WAIT", "TIMEOUT", "DELAY"}

\* Slip: the reason of the sleep is not looked at.
ReleaseAnyway(k, t) == wake(set_wake_reason(k, t, "BREAK"), t)

\* Break a sleep, whatever its reason.
release(k, t) ==
  IF Asleep(k, t) THEN wake(set_wake_reason(k, t, "BREAK"), t) ELSE k

\* The current thread leaves the scheduler, unless it was killed meanwhile.
exit(k) ==
  LET t == k.current
      cleared == clear_timer(k, t)
  IN  IF k.state[t] = {"EXITED"} THEN cleared
      ELSE rem_thread([cleared EXCEPT !.state[t] = {"EXITED"}], t)

\* Slip: a sleeper is told to exit and sleeps on.
KillAsleep(k, t) ==
  LET f == [force_resume(k, t) EXCEPT !.timer = @ \ {t}]
      r == IF f.state[t] = RUNNING THEN rem_thread(f, t) ELSE f
  IN  IF k.wake_reason[t] = "EXIT" THEN wake(f, t)
      ELSE IF k.sleep_reason[t] = "NONE" THEN wake([r EXCEPT !.state[t] = {"EXITED"}], t)
      ELSE IF Asleep(k, t) THEN set_wake_reason(f, t, "EXIT")
      ELSE f

\* Kill another thread: at once when it is not asleep, otherwise by waking it
\* up to call exit itself.  Nothing is done twice to a thread already told.
kill(k, t) ==
  LET f == [force_resume(k, t) EXCEPT !.timer = @ \ {t}]
      r == IF f.state[t] = RUNNING THEN rem_thread(f, t) ELSE f
  IN  IF k.wake_reason[t] = "EXIT" THEN wake(f, t)
      ELSE IF k.sleep_reason[t] = "NONE" THEN wake([r EXCEPT !.state[t] = {"EXITED"}], t)
      ELSE IF Asleep(k, t) THEN wake(set_wake_reason(f, t, "EXIT"), t)
      ELSE f

\* The priority takes effect on the queue the thread is on; a thread that
\* runs at an inherited priority keeps it if it is the better one.
set_priority(k, t, new) ==
  LET waits == k.queue[t] # NULL /\ "SLEEPING" \in k.state[t]
      off == IF k.state[t] = RUNNING THEN rem_thread(k, t)
             ELSE IF waits THEN remove(k, t)
             ELSE k
      set == IF t \notin k.priority_inherited THEN [off EXCEPT !.priority[t] = new]
             ELSE [off EXCEPT !.original_priority[t] = new,
                              !.priority[t] = IF @ > new THEN new ELSE @]
      on == IF k.state[t] = RUNNING THEN add_thread(set, t)
            ELSE IF waits THEN enqueue(set, k.queue[t], t)
            ELSE set
  IN  IF t = k.current THEN [on EXCEPT !.need_reschedule = TRUE]
                       ELSE set_need_reschedule(on, t)

\* Sleep for a delay, up to the unlock.
delay(k, past) == set_timer(sleep(k), k.current, "DELAY", past)

\* The constructor is called again on the object of an exited thread: the
\* timer is disabled, the thread starts suspended with its own priority.
reinitialize(k, t) ==
  [k EXCEPT !.timer = @ \ {t},
            !.state[t] = {"SUSPENDED"},
            !.suspend_count[t] = 1,
            !.wakeup_count[t] = 0,
            !.sleep_reason[t] = "NONE",
            !.wake_reason[t] = "NONE",
            !.queue[t] = NULL,
            !.priority[t] = IF t \in k.priority_inherited
                              THEN k.original_priority[t]
                              ELSE @,
            !.priority_inherited = @ \ {t},
            !.mutex_count[t] = 0]
=============================================================================
