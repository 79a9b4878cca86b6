----------------------------- MODULE ThreadList -----------------------------
(***************************************************************************)
(* The housekeeping list of threads (thread.cxx), the ids of the threads,  *)
(* and the calls of kapi.cxx that enumerate the list.                      *)
(*                                                                         *)
(* A piece of code that runs with the scheduler locked is one step.  The   *)
(* constructor and the destructor of a thread are not locked as a whole:   *)
(* their caller is preempted before and after the list is changed, and     *)
(* between the read and the write of next_unique_id.                       *)
(*                                                                         *)
(* The application creates, resumes and deletes one thread object with one *)
(* call at a time; calls for different objects overlap.                    *)
(***************************************************************************)
EXTENDS Links, Functions

CONSTANTS
  Thread,       \* the thread objects
  Idle,         \* the idle thread, which is always there
  Caller,       \* those who create, resume and delete threads
  NULL,         \* no thread
  IdSize        \* the number of ids (2^16)

ASSUME ListAssumption == Idle \in Thread /\ NULL \notin Thread /\ IsFiniteSet(Thread)
ASSUME IdAssumption == IdSize \in Nat /\ IdSize > 2

Id == 0 .. IdSize - 1

VARIABLES
  thread_list,      \* the thread added last
  list_next,
  unique_id,        \* the id of each thread, 0 once deleted
  next_unique_id,
  life,             \* "none", "live" or "exited", for each thread object
  pc,               \* where each caller is
  target,           \* the thread object it works on
  drawn,            \* the id it has read
  cursor,           \* the arguments of cyg_thread_get_next
  cursor_id,
  shown,            \* history: how often it has shown each thread, at most twice
  start,            \* history: those listed since it began
  disturbed         \* history: what has happened to it meanwhile

callers == <<pc, target, drawn>>
enumeration == <<cursor, cursor_id, shown, start, disturbed>>
vars == <<thread_list, list_next, unique_id, next_unique_id, life,
          callers, enumeration>>

Unseen == [t \in Thread |-> 0]

Init ==
  /\ thread_list = Idle
  /\ list_next = [t \in Thread |-> IF t = Idle THEN Idle ELSE NULL]
  /\ unique_id = [t \in Thread |-> IF t = Idle THEN 1 ELSE 0]
  /\ next_unique_id = 2
  /\ life = [t \in Thread |-> IF t = Idle THEN "live" ELSE "none"]
  /\ pc = [c \in Caller |-> "out"]
  /\ target = [c \in Caller |-> Idle]
  /\ drawn = [c \in Caller |-> 0]
  /\ cursor = NULL
  /\ cursor_id = 0
  /\ shown = Unseen
  /\ start = {}
  /\ disturbed = {}

At(c, label) == pc[c] = label
Busy(t) == \E c \in Caller : ~At(c, "out") /\ target[c] = t
Return(c) == /\ pc' = [pc EXCEPT ![c] = "out"]
             /\ target' = [target EXCEPT ![c] = Idle]
             /\ drawn' = [drawn EXCEPT ![c] = 0]
Disturb(how) == /\ disturbed' = IF cursor = NULL THEN {} ELSE disturbed \cup how
                /\ UNCHANGED <<cursor, cursor_id, shown, start>>
-----------------------------------------------------------------------------
(***************************************************************************)
(* The list.                                                               *)
(***************************************************************************)
\* The threads from thread_list on along the links, once round.
Ring ==
  Linked([t \in Thread |-> IF list_next[t] = thread_list THEN NULL ELSE list_next[t]],
         NULL, thread_list)

Members == Range(Ring)

\* Slip: a thread that is on the list already is put on it again.
AddAgain(t) ==
  /\ list_next' = [list_next EXCEPT ![t] = list_next[thread_list], ![thread_list] = t]
  /\ thread_list' = t

\* A thread that is not on the list is put behind the last one; either way it
\* is the last one now.
add_to_list(t) ==
  /\ list_next' = IF t \in Members THEN list_next
                  ELSE [list_next EXCEPT ![t] = list_next[thread_list],
                                         ![thread_list] = t]
  /\ thread_list' = t

\* The link of the thread itself stays; when it was the last one, the first
\* one takes its place.
remove_from_list(t) ==
  IF t \in Members
    THEN LET prev == CHOOSE p \in Members : list_next[p] = t
         IN  /\ list_next' = [list_next EXCEPT ![prev] = list_next[t]]
             /\ thread_list' = IF thread_list = t THEN list_next[t] ELSE thread_list
    ELSE UNCHANGED <<list_next, thread_list>>

\* Inline methods of thread.inl, which is not part of the repository.
get_list_head == list_next[thread_list]
get_list_next(t) == IF t = thread_list THEN NULL ELSE list_next[t]
-----------------------------------------------------------------------------
(***************************************************************************)
(* The constructor, called by cyg_thread_create for a new object and by    *)
(* reinitialize for one that has exited and is still on the list.          *)
(***************************************************************************)
ReadId(c, t) ==
  /\ At(c, "out")
  /\ ~Busy(t)
  /\ life[t] \in {"none", "exited"}
  /\ pc' = [pc EXCEPT ![c] = "write"]
  /\ target' = [target EXCEPT ![c] = t]
  /\ drawn' = [drawn EXCEPT ![c] = next_unique_id]
  /\ UNCHANGED <<thread_list, list_next, unique_id, next_unique_id, life, enumeration>>

\* The other half of unique_id = next_unique_id++.
WriteId(c) ==
  /\ At(c, "write")
  /\ next_unique_id' = (drawn[c] + 1) % IdSize
  /\ unique_id' = [unique_id EXCEPT ![target[c]] = drawn[c]]
  /\ pc' = [pc EXCEPT ![c] = "add"]
  /\ Disturb(IF target[c] = cursor THEN {"order", "id"} ELSE {})
  /\ UNCHANGED <<thread_list, list_next, life, target, drawn>>

AddToList(c) ==
  /\ At(c, "add")
  /\ add_to_list(target[c])
  /\ life' = [life EXCEPT ![target[c]] = "live"]
  /\ Disturb(IF life[target[c]] = "exited" THEN {"order"} ELSE {})
  /\ Return(c)
  /\ UNCHANGED <<unique_id, next_unique_id>>

\* A thread exits, of itself or because it was killed.
Exit(t) ==
  /\ t # Idle
  /\ ~Busy(t)
  /\ life[t] = "live"
  /\ life' = [life EXCEPT ![t] = "exited"]
  /\ UNCHANGED <<thread_list, list_next, unique_id, next_unique_id, callers, enumeration>>

(***************************************************************************)
(* cyg_thread_delete: a thread that has not exited is killed first, which  *)
(* ends it at once unless it sleeps.  Then nothing is deleted, and it      *)
(* exits later.                                                            *)
(***************************************************************************)
Delete(c, t) ==
  /\ At(c, "out")
  /\ ~Busy(t)
  /\ t # Idle
  /\ life[t] # "none"
  /\ remove_from_list(t)
  /\ life' = [life EXCEPT ![t] = "exited"]
  /\ pc' = [pc EXCEPT ![c] = "zero"]
  /\ target' = [target EXCEPT ![c] = t]
  /\ disturbed' = IF cursor = NULL THEN {} ELSE disturbed
       \cup (IF t \in {thread_list, cursor} THEN {"order"} ELSE {})
       \cup (IF \E d \in Caller : At(d, "zero") THEN {"overlap"} ELSE {})
  /\ start' = start \ {t}
  /\ UNCHANGED <<unique_id, next_unique_id, drawn, cursor, cursor_id, shown>>

ZeroId(c) ==
  /\ At(c, "zero")
  /\ unique_id' = [unique_id EXCEPT ![target[c]] = 0]
  /\ life' = [life EXCEPT ![target[c]] = "none"]
  /\ Return(c)
  /\ UNCHANGED <<thread_list, list_next, next_unique_id, enumeration>>
-----------------------------------------------------------------------------
(***************************************************************************)
(* Enumeration and search.                                                 *)
(***************************************************************************)
\* The threads that are on the list, by what has been done to them.
Listed == {t \in Thread : /\ life[t] # "none"
                          /\ \A c \in Caller : At(c, "zero") => target[c] # t}

Show(t, id) ==
  /\ cursor' = t
  /\ cursor_id' = id
  /\ shown' = [shown EXCEPT ![t] = IF @ = 0 THEN 1 ELSE 2]
  /\ disturbed' = disturbed \cup IF cursor_id = 0 THEN {"id"} ELSE {}
  /\ UNCHANGED start

End ==
  /\ cursor' = NULL
  /\ cursor_id' = 0
  /\ shown' = Unseen
  /\ start' = {}
  /\ disturbed' = {}

\* cyg_thread_get_next with no thread yet: begin at the head.
GetFirst ==
  /\ cursor = NULL
  /\ cursor' = get_list_head
  /\ cursor_id' = unique_id[get_list_head]
  /\ shown' = [Unseen EXCEPT ![get_list_head] = 1]
  /\ start' = Listed
  /\ UNCHANGED <<thread_list, list_next, unique_id, next_unique_id, life, callers, disturbed>>

\* Slip: the id is not compared.
GetNextUnchecked ==
  /\ cursor # NULL
  /\ IF get_list_next(cursor) # NULL
       THEN Show(get_list_next(cursor), unique_id[get_list_next(cursor)])
       ELSE End
  /\ UNCHANGED <<thread_list, list_next, unique_id, next_unique_id, life, callers>>

\* Slip: the id of the thread shown before is kept.
GetNextKeepsId ==
  /\ cursor # NULL
  /\ IF unique_id[cursor] = cursor_id /\ get_list_next(cursor) # NULL
       THEN Show(get_list_next(cursor), cursor_id)
       ELSE End
  /\ UNCHANGED <<thread_list, list_next, unique_id, next_unique_id, life, callers>>

\* The next thread, unless there is none or the thread shown last no longer
\* has the id it was shown with: that ends the enumeration.
GetNext ==
  /\ cursor # NULL
  /\ IF unique_id[cursor] = cursor_id /\ get_list_next(cursor) # NULL
       THEN Show(get_list_next(cursor), unique_id[get_list_next(cursor)])
       ELSE End
  /\ UNCHANGED <<thread_list, list_next, unique_id, next_unique_id, life, callers>>

\* The first thread from the head on that has the id, or NULL.
cyg_thread_find(id) ==
  LET walk == Tail(Ring) \o <<thread_list>>
      hits == {i \in 1 .. Len(walk) : unique_id[walk[i]] = id}
  IN  IF hits = {} THEN NULL
      ELSE walk[CHOOSE i \in hits : \A j \in hits : i <= j]

Next ==
  \/ \E c \in Caller : \/ \E t \in Thread : ReadId(c, t) \/ Delete(c, t)
                       \/ WriteId(c) \/ AddToList(c) \/ ZeroId(c)
  \/ \E t \in Thread : Exit(t)
  \/ GetFirst
  \/ GetNext

Spec == Init /\ [][Next]_vars
-----------------------------------------------------------------------------
(***************************************************************************)
(* Properties.                                                             *)
(***************************************************************************)

\* Whatever is created, resumed and deleted at the same time, the links lead
\* from thread_list round exactly the threads on the list and back, so that
\* every search (kapi.cxx:369) ends and finds a thread that has the id if
\* there is one.
RingExact ==
  /\ Members = Listed
  /\ list_next[Ring[Len(Ring)]] = thread_list
  /\ \A t \in Listed : unique_id[cyg_thread_find(unique_id[t])] = unique_id[t]

\* An enumeration shows every thread that was listed all the time, once,
\* though others are created and deleted between its calls (kapi.cxx:342).
\* Excepted are those during which a thread was resumed after its exit, the
\* last one of the list deleted, or the one shown last.
EnumerationRight ==
  [][cursor # NULL /\ cursor' = NULL /\ "order" \notin disturbed
       => \A t \in start : shown[t] = 1]_vars

\* The thread a call shows is on the list, unless the one before had id 0 or
\* was created anew, or two deletions overlapped: the assertion that it is a
\* thread (kapi.cxx:347).
ShownAlive ==
  [][cursor # NULL /\ cursor' \notin {NULL, cursor}
       => cursor' \in Listed \/ disturbed' \cap {"overlap", "id"} # {}]_vars
=============================================================================
