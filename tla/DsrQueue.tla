------------------------------ MODULE DsrQueue ------------------------------
(***************************************************************************)
(* What the DSR machinery of intr.cxx promises: posting a DSR is counted,  *)
(* and DSRs are called one after the other, in the order in which they     *)
(* were first posted, each with the number of posts since its last call.   *)
(***************************************************************************)
EXTENDS Naturals, Sequences

CONSTANTS Interrupt, MaxPosts

VARIABLES
  posted,       \* posts of each interrupt that no call has been given
  queue,        \* the interrupts with such posts, first posted first
  running       \* the call in progress: an interrupt and a count, or nothing

vars == <<posted, queue, running>>

Call == [intr : Interrupt, count : Nat]

Init ==
  /\ posted = [i \in Interrupt |-> 0]
  /\ queue = <<>>
  /\ running = {}

Post(i) ==
  /\ posted[i] < MaxPosts
  /\ posted' = [posted EXCEPT ![i] = @ + 1]
  /\ queue' = IF posted[i] = 0 THEN Append(queue, i) ELSE queue
  /\ UNCHANGED running

\* A call begins when no other one is in progress.
Begin ==
  /\ running = {}
  /\ queue # <<>>
  /\ running' = {[intr |-> Head(queue), count |-> posted[Head(queue)]]}
  /\ posted' = [posted EXCEPT ![Head(queue)] = 0]
  /\ queue' = Tail(queue)

End ==
  /\ running # {}
  /\ running' = {}
  /\ UNCHANGED <<posted, queue>>

\* A call ends and the next one begins with interrupts disabled throughout.
EndBegin ==
  /\ running # {}
  /\ queue # <<>>
  /\ running' = {[intr |-> Head(queue), count |-> posted[Head(queue)]]}
  /\ posted' = [posted EXCEPT ![Head(queue)] = 0]
  /\ queue' = Tail(queue)

Next == Begin \/ End \/ EndBegin \/ \E i \in Interrupt : Post(i)

Spec == Init /\ [][Next]_vars
=============================================================================
