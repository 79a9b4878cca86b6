-------------------------------- MODULE Dsr --------------------------------
(***************************************************************************)
(* The list of posted DSRs of intr.cxx, pointer by pointer, in the FIFO    *)
(* configuration.  Interrupts are disabled in post_dsr and while           *)
(* call_pending_DSRs_inner looks at the list: those pieces are one step    *)
(* each.  They are enabled while a DSR runs, so that a post can fall       *)
(* between any two of the steps, for an interrupt on the list, on the part *)
(* already taken off it, or running.                                       *)
(***************************************************************************)
EXTENDS Links

CONSTANTS
  Interrupt,    \* the interrupt objects
  NULL,         \* no interrupt object
  MaxPosts      \* bound on dsr_count

ASSUME NullAssumption == NULL \notin Interrupt /\ IsFiniteSet(Interrupt)
ASSUME PostsAssumption == MaxPosts \in Nat \ {0}

VARIABLES
  dsr_list,     \* the head of the list
  dsr_list_tail,
  next_dsr,     \* the link of each interrupt object
  dsr_count,    \* its posts since its last call
  intr,         \* the locals of call_pending_DSRs_inner
  next,
  count,
  pc            \* "idle", or "dsr" while a DSR is being called

vars == <<dsr_list, dsr_list_tail, next_dsr, dsr_count, intr, next, count, pc>>

Pointer == Interrupt \cup {NULL}

Init ==
  /\ dsr_list = NULL
  /\ dsr_list_tail = NULL
  /\ next_dsr = [i \in Interrupt |-> NULL]
  /\ dsr_count = [i \in Interrupt |-> 0]
  /\ intr = NULL
  /\ next = NULL
  /\ count = 0
  /\ pc = "idle"

\* Slip: an interrupt that is posted again is put at the tail again.
PostAgain(i) ==
  /\ dsr_count[i] < MaxPosts
  /\ dsr_count' = [dsr_count EXCEPT ![i] = @ + 1]
  /\ dsr_list_tail' = i
  /\ IF dsr_list_tail = NULL
       THEN dsr_list' = i /\ UNCHANGED next_dsr
       ELSE next_dsr' = [next_dsr EXCEPT ![dsr_list_tail] = i] /\ UNCHANGED dsr_list
  /\ UNCHANGED <<intr, next, count, pc>>

\* The first post of an interrupt puts it at the tail of the list, the others
\* are only counted.
post_dsr(i) ==
  /\ dsr_count[i] < MaxPosts
  /\ dsr_count' = [dsr_count EXCEPT ![i] = @ + 1]
  /\ IF dsr_count[i] > 0 THEN UNCHANGED <<dsr_list, dsr_list_tail, next_dsr>>
     ELSE /\ dsr_list_tail' = i
          /\ IF dsr_list_tail = NULL
               THEN dsr_list' = i /\ UNCHANGED next_dsr
               ELSE /\ next_dsr' = [next_dsr EXCEPT ![dsr_list_tail] = i]
                    /\ UNCHANGED dsr_list
  /\ UNCHANGED <<intr, next, count, pc>>

\* Slip: the link of the object is left as it was.
TakeLinked(i) ==
  /\ intr' = i
  /\ count' = dsr_count[i]
  /\ next' = next_dsr[i]
  /\ dsr_count' = [dsr_count EXCEPT ![i] = 0]
  /\ UNCHANGED next_dsr

\* Slip: what is taken off the count is the count of the call before.
TakeStale(i) ==
  /\ intr' = i
  /\ count' = dsr_count[i]
  /\ next' = next_dsr[i]
  /\ dsr_count' = [dsr_count EXCEPT ![i] = @ - count]
  /\ next_dsr' = [next_dsr EXCEPT ![i] = NULL]

\* Read and clear the count and the link of the interrupt to be called.
Take(i) ==
  /\ intr' = i
  /\ count' = dsr_count[i]
  /\ next' = next_dsr[i]
  /\ dsr_count' = [dsr_count EXCEPT ![i] = 0]
  /\ next_dsr' = [next_dsr EXCEPT ![i] = NULL]

\* Slip: the tail still points into the part taken.
DetachHead ==
  /\ pc = "idle"
  /\ dsr_list # NULL
  /\ Take(dsr_list)
  /\ dsr_list' = NULL
  /\ pc' = "dsr"
  /\ UNCHANGED dsr_list_tail

\* Detach the whole list and take its first interrupt.
call_pending_DSRs ==
  /\ pc = "idle"
  /\ dsr_list # NULL
  /\ Take(dsr_list)
  /\ dsr_list' = NULL
  /\ dsr_list_tail' = NULL
  /\ pc' = "dsr"

\* The DSR returns: go on with the next interrupt taken, if any.
DsrReturns ==
  /\ pc = "dsr"
  /\ IF next = NULL
       THEN pc' = "idle" /\ UNCHANGED <<intr, next, count, dsr_count, next_dsr>>
       ELSE Take(next) /\ UNCHANGED pc
  /\ UNCHANGED <<dsr_list, dsr_list_tail>>

Next == call_pending_DSRs \/ DsrReturns \/ \E i \in Interrupt : post_dsr(i)

Spec == Init /\ [][Next]_vars
-----------------------------------------------------------------------------
(***************************************************************************)
(* Properties.                                                             *)
(***************************************************************************)

\* The pointers point to interrupt objects or nowhere; counts do not go
\* below zero.
TypeOK ==
  /\ dsr_list \in Pointer
  /\ dsr_list_tail \in Pointer
  /\ next_dsr \in [Interrupt -> Pointer]
  /\ dsr_count \in [Interrupt -> Nat]
  /\ intr \in Pointer
  /\ next \in Pointer
  /\ count \in Nat
  /\ pc \in {"idle", "dsr"}

\* The assertions of post_dsr: the tail is NULL exactly when the list is.
TailMatchesHead == dsr_list_tail = NULL <=> dsr_list = NULL

\* The assertion of call_pending_DSRs_inner, "DSR posted but post count is
\* zero": a DSR is never called for nothing.
CalledWithPosts == pc = "dsr" => intr \in Interrupt /\ count > 0

\* The interrupts on the part of the list that was taken, and on the list.
Waiting ==
  (IF pc = "dsr" THEN Linked(next_dsr, NULL, next) ELSE <<>>) \o Linked(next_dsr, NULL, dsr_list)

Running == IF pc = "dsr" THEN {[intr |-> intr, count |-> count]} ELSE {}

Queue == INSTANCE DsrQueue WITH posted <- dsr_count, queue <- Waiting,
                                running <- Running

\* The list is a queue of posted interrupts: no post is lost or served twice
\* and the calls are made in the order of the first posts.
ImplementsQueue == Queue!Spec
=============================================================================
