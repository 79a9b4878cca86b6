------------------------------- MODULE Chain -------------------------------
(***************************************************************************)
(* The chains of interrupt objects and the nesting of disable_interrupts   *)
(* and enable_interrupts (intr.cxx), together with the list of DSRs that   *)
(* the ISRs of a chain post.                                               *)
(*                                                                         *)
(* Neither attach nor detach disables interrupts: an interrupt may come    *)
(* between any two of their stores, and walk the chain they are changing.  *)
(* The walk runs with interrupts disabled, and no thread and no DSR runs   *)
(* before it ends.  A DSR runs to its end before the thread goes on.       *)
(*                                                                         *)
(* One thread at a time attaches and detaches: attach and detach do not    *)
(* take the scheduler lock either.                                         *)
(***************************************************************************)
EXTENDS Dsr, Functions

CONSTANTS
  Vector,
  Index,        \* the entries of the HAL's table
  HAL_TRANSLATE_VECTOR,     \* the entry of each vector
  vector,       \* the vector of each interrupt object
  priority,     \* its priority
  HasDsr,       \* the interrupt objects whose ISR may ask for the DSR
  MaxNest       \* bound on the nesting of disable_interrupts

ASSUME ChainAssumption ==
  /\ NULL \notin Vector
  /\ HAL_TRANSLATE_VECTOR \in [Vector -> Index]
  /\ vector \in [Interrupt -> Vector]
  /\ priority \in [Interrupt -> Nat]
  /\ HasDsr \subseteq Interrupt
  /\ MaxNest \in Nat

VARIABLES
  chain_list,       \* the first object of each chain
  chain_next,       \* the link of each object (Cyg_Interrupt::next)
  hal,              \* the entries at which chain_isr is registered
  at,               \* what the thread that attaches or detaches does next
  obj,              \* the object it works on
  prev,             \* the object before it, NULL at the head of the chain
  ie,               \* the processor takes interrupts
  disable_counter,
  disable_state,    \* interrupt_disable_state
  depth,            \* history: how deep the thread has disabled interrupts
  vec,              \* the vector of the interrupt being handled, or NULL
  p,                \* the walk of chain_isr
  handled,          \* an ISR has handled the interrupt
  asked,            \* history: the objects whose ISR was called
  attached          \* history: the objects attached

dsrs == <<dsr_list, dsr_list_tail, next_dsr, dsr_count, intr, next, count, pc>>
chains == <<chain_list, chain_next, hal, attached>>
thread == <<at, obj, prev, depth>>
mask == <<ie, disable_counter, disable_state>>
walk == <<vec, p, handled, asked>>
allvars == <<dsrs, chains, thread, mask, walk>>

IndexOf(i) == HAL_TRANSLATE_VECTOR[vector[i]]

ChainInit ==
  /\ Init
  /\ chain_list = [x \in Index |-> NULL]
  /\ chain_next = [i \in Interrupt |-> NULL]
  /\ hal = {}
  /\ at = "out" /\ obj = NULL /\ prev = NULL /\ depth = 0
  /\ ie = TRUE /\ disable_counter = 0 /\ disable_state = TRUE
  /\ vec = NULL /\ p = NULL /\ handled = FALSE /\ asked = <<>>
  /\ attached = {}

\* The thread runs when no interrupt is handled and no DSR is called.
Thread(label) == vec = NULL /\ pc = "idle" /\ at = label
-----------------------------------------------------------------------------
(***************************************************************************)
(* attach and detach.                                                      *)
(***************************************************************************)
\* The objects of chain x, in order.
ChainOf(x) == Linked(chain_next, NULL, chain_list[x])

After(x, n) == IF n = NULL THEN chain_list[x] ELSE chain_next[n]

\* Assigns i to the pointer *p: the head of the chain or the link of n.
Point(x, n, i) ==
  IF n = NULL THEN chain_list' = [chain_list EXCEPT ![x] = i] /\ UNCHANGED chain_next
              ELSE chain_next' = [chain_next EXCEPT ![n] = i] /\ UNCHANGED chain_list

\* The last of the objects of c before the first one with a lower number.
Place(c, i) ==
  LET lower == {n \in 1 .. Len(c) : priority[c[n]] < priority[i]}
      n == IF lower = {} THEN Len(c)
           ELSE (CHOOSE m \in lower : \A o \in lower : m <= o) - 1
  IN  IF n = 0 THEN NULL ELSE c[n]

\* The constructor, on an object that is not in use.
Create(i) ==
  /\ Thread("out")
  /\ i \notin attached
  /\ dsr_count[i] = 0
  /\ chain_next' = [chain_next EXCEPT ![i] = NULL]
  /\ UNCHANGED <<dsrs, chain_list, hal, attached, thread, mask, walk>>

\* Put the object at the head of an empty chain, or find its place and set
\* its link.  That it is on no chain is asserted of its link.
Attach(i) ==
  /\ Thread("out")
  /\ i \notin attached
  /\ chain_next[i] = NULL
  /\ obj' = i
  /\ IF chain_list[IndexOf(i)] = NULL
       THEN /\ chain_list' = [chain_list EXCEPT ![IndexOf(i)] = i]
            /\ at' = "register"
            /\ UNCHANGED <<chain_next, prev>>
       ELSE /\ prev' = Place(ChainOf(IndexOf(i)), i)
            /\ chain_next' = [chain_next EXCEPT ![i] = After(IndexOf(i), prev')]
            /\ at' = "link"
            /\ UNCHANGED chain_list
  /\ UNCHANGED <<dsrs, hal, attached, depth, mask, walk>>

Register ==
  /\ Thread("register")
  /\ hal' = hal \cup {IndexOf(obj)}
  /\ attached' = attached \cup {obj}
  /\ at' = "out" /\ obj' = NULL
  /\ UNCHANGED <<dsrs, chain_list, chain_next, prev, depth, mask, walk>>

Link ==
  /\ Thread("link")
  /\ Point(IndexOf(obj), prev, obj)
  /\ attached' = attached \cup {obj}
  /\ at' = "out" /\ obj' = NULL /\ prev' = NULL
  /\ UNCHANGED <<dsrs, hal, depth, mask, walk>>

\* Take the object off its chain, if it is on it.  Its own link stays.
TakeOff(i) ==
  LET x == IndexOf(i)
      before == {n \in Range(ChainOf(x)) \cup {NULL} : After(x, n) = i}
  IN  IF before = {} THEN UNCHANGED <<chain_list, chain_next>>
      ELSE Point(x, CHOOSE n \in before : TRUE, chain_next[i])

\* Slip: the vector is given up though other objects are on the chain.
DetachVector(i) ==
  /\ Thread("out")
  /\ TakeOff(i)
  /\ attached' = attached \ {i}
  /\ at' = "unregister" /\ obj' = i
  /\ UNCHANGED <<dsrs, hal, prev, depth, mask, walk>>

Detach(i) ==
  /\ Thread("out")
  /\ TakeOff(i)
  /\ attached' = attached \ {i}
  /\ IF chain_list'[IndexOf(i)] = NULL THEN at' = "unregister" /\ obj' = i
                                       ELSE UNCHANGED <<at, obj>>
  /\ UNCHANGED <<dsrs, hal, prev, depth, mask, walk>>

Unregister ==
  /\ Thread("unregister")
  /\ hal' = hal \ {IndexOf(obj)}
  /\ at' = "out" /\ obj' = NULL
  /\ UNCHANGED <<dsrs, chain_list, chain_next, attached, prev, depth, mask, walk>>
-----------------------------------------------------------------------------
(***************************************************************************)
(* disable_interrupts and enable_interrupts.                               *)
(***************************************************************************)
\* Slip: the counter is not looked at.
DisableAgain ==
  /\ Thread("out")
  /\ depth < MaxNest
  /\ at' = "save"
  /\ UNCHANGED <<dsrs, chains, obj, prev, depth, mask, walk>>

Disable ==
  /\ Thread("out")
  /\ depth < MaxNest
  /\ at' = IF disable_counter = 0 THEN "save" ELSE "count"
  /\ UNCHANGED <<dsrs, chains, obj, prev, depth, mask, walk>>

\* Claim the spinlock, which on one processor is to disable interrupts.
Save ==
  /\ Thread("save")
  /\ disable_state' = ie
  /\ ie' = FALSE
  /\ at' = "count"
  /\ UNCHANGED <<dsrs, chains, obj, prev, depth, disable_counter, walk>>

Count ==
  /\ Thread("count")
  /\ disable_counter' = disable_counter + 1
  /\ depth' = depth + 1
  /\ at' = "out"
  /\ UNCHANGED <<dsrs, chains, obj, prev, ie, disable_state, walk>>

Enable ==
  /\ Thread("out")
  /\ depth > 0
  /\ disable_counter' = disable_counter - 1
  /\ depth' = depth - 1
  /\ at' = IF disable_counter' = 0 THEN "restore" ELSE "out"
  /\ UNCHANGED <<dsrs, chains, obj, prev, ie, disable_state, walk>>

Restore ==
  /\ Thread("restore")
  /\ ie' = disable_state
  /\ at' = "out"
  /\ UNCHANGED <<dsrs, chains, obj, prev, depth, disable_counter, disable_state, walk>>
-----------------------------------------------------------------------------
(***************************************************************************)
(* An interrupt.                                                           *)
(***************************************************************************)
\* A disable_interrupts and the enable_interrupts to it, with nothing else
\* to be seen between them.
Pair == IF disable_counter = 0 THEN disable_state' = ie ELSE UNCHANGED disable_state

\* Another thread runs in the place of the one that is preempted.
Others ==
  /\ vec = NULL /\ pc = "idle" /\ ie
  /\ Pair
  /\ UNCHANGED <<dsrs, chains, thread, ie, disable_counter, walk>>

Deliver(v) ==
  /\ vec = NULL
  /\ ie
  /\ HAL_TRANSLATE_VECTOR[v] \in hal
  /\ vec' = v
  /\ ie' = FALSE
  /\ p' = chain_list[HAL_TRANSLATE_VECTOR[v]]
  /\ UNCHANGED <<dsrs, chains, thread, disable_counter, disable_state, handled, asked>>

\* Call the ISR of the object, post its DSR if it says so, and leave if it
\* has handled the interrupt.
CallIsr ==
  /\ p # NULL
  /\ vector[p] = vec
  /\ asked' = Append(asked, p)
  /\ \E calls_dsr, done \in BOOLEAN :
       /\ IF calls_dsr THEN p \in HasDsr /\ post_dsr(p) ELSE UNCHANGED dsrs
       /\ handled' = done
       /\ p' = IF done THEN NULL ELSE chain_next[p]
  /\ Pair
  /\ UNCHANGED <<chains, thread, ie, disable_counter, vec>>

SkipIsr ==
  /\ p # NULL
  /\ vector[p] # vec
  /\ p' = chain_next[p]
  /\ UNCHANGED <<dsrs, chains, thread, mask, vec, handled, asked>>

\* The end of the walk, and of the interrupt.
EndIsr ==
  /\ vec # NULL
  /\ p = NULL
  /\ vec' = NULL
  /\ ie' = TRUE
  /\ handled' = FALSE
  /\ asked' = <<>>
  /\ UNCHANGED <<dsrs, chains, thread, disable_counter, disable_state, p>>

\* The DSRs of Dsr, when no interrupt is handled.
CallDsrs ==
  /\ vec = NULL
  /\ call_pending_DSRs \/ DsrReturns
  /\ UNCHANGED <<chains, thread, mask, walk>>

ChainNext ==
  \/ \E i \in Interrupt : Create(i) \/ Attach(i) \/ Detach(i)
  \/ Register \/ Link \/ Unregister
  \/ Disable \/ Save \/ Count \/ Enable \/ Restore
  \/ Others
  \/ \E v \in Vector : Deliver(v)
  \/ CallIsr \/ SkipIsr \/ EndIsr
  \/ CallDsrs

ChainSpec == ChainInit /\ [][ChainNext]_allvars
-----------------------------------------------------------------------------
(***************************************************************************)
(* Properties.                                                             *)
(***************************************************************************)
\* No ISR is missed: wherever an interrupt falls into an attach or a detach,
\* when no ISR has handled it the ISR of every attached object of its vector
\* was called, once, in the order of their priorities, and of no other object
\* than these and the one being attached (intr.cxx:411).
NoneMissed ==
  /\ \A i \in attached : IndexOf(i) \in hal
  /\ vec # NULL /\ p = NULL /\ ~handled =>
       /\ \A i \in attached : vector[i] = vec => i \in Range(asked)
       /\ \A m, n \in DOMAIN asked :
            m < n => asked[m] # asked[n] /\ priority[asked[m]] >= priority[asked[n]]
       /\ Range(asked) \subseteq attached \cup {obj}

\* Interrupts stay disabled from the first of nested disable_interrupts to the
\* last enable_interrupts, and are enabled again then, whatever ISRs and other
\* threads do between the test of the counter and the store of the state
\* (intr.cxx:626).
DisableHolds ==
  vec = NULL =>
    /\ depth > 0 => ~ie
    /\ depth = 0 /\ at \notin {"count", "restore"} => ie
    /\ disable_counter = depth
=============================================================================
