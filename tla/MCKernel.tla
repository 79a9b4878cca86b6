----------------------------- MODULE MCKernel -----------------------------
(***************************************************************************)
(* Instances of Kernel for TLC: the idle thread, a and b, sometimes c, and *)
(* what each of them calls.                                                *)
(***************************************************************************)
EXTENDS Kernel, TLC

CONSTANTS a, b, c, idle, clock, device

Two == {a, b, idle}
Three == {a, b, c, idle}
EqualPri == [t \in Two |-> IF t = idle THEN MinPri ELSE 0]
ApartPri == (a :> 1) @@ (b :> 0) @@ (idle :> MinPri)

\* a commands and b sleeps; either may be stopped at any point.
ThreadCalls ==
  (a :> {"suspend", "resume", "kill", "counted_wake"})
  @@ (b :> {"counted_sleep", "timed_sleep", "delay", "cancel_counted_wake",
            "suspend", "exit"})

\* Both wait on an object, take the scheduler lock and change priorities.
ObjectCalls ==
  (a :> {"lock", "yield", "wait", "signal", "kill", "set_priority", "exit"})
  @@ (b :> {"lock", "safe_lock", "yield", "wait", "release", "to_queue_head",
            "rotate_queue", "timed_sleep"})

\* b and c never give up the processor, but b kills a, which sleeps and has
\* the best priority.
LivePri == (a :> 0) @@ (b :> 1) @@ (c :> 1) @@ (idle :> MinPri)
LiveCalls ==
  (a :> {"delay", "timed_sleep", "wait"}) @@ (b :> {"kill"}) @@ (c :> {"resume", "release"})

\* a naps for a counted wakeup and b spins.
NapCalls == (a :> {"counted_sleep"}) @@ (b :> {})

\* a and b resume c, which exits.
RacePri == (a :> 0) @@ (b :> 1) @@ (c :> 1) @@ (idle :> MinPri)
RaceCalls == (a :> {"resume", "counted_sleep"}) @@ (b :> {"resume"}) @@ (c :> {"exit"})
=============================================================================
