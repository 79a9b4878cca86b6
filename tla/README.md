# A verification project for the LibTooling call graph tool and the eCos kernel it analyses

The repository holds two programs:

* a **LibTooling tool** (`main.cpp`, `LibtoolingClasses.h`, `CallGraph.h`,
  `CallGraph.cpp`) that reads C and C++ files with clang, builds one call graph over all
  of them and reports which functions of one eCos package call which functions of
  another;
* the **eCos kernel sources it is run on** (`sched.cxx`, `mlqueue.cxx`, `thread.cxx`,
  `intr.cxx`, `kapi.cxx`, with precompiled AST files beside them). They are the core of a
  real-time kernel: a scheduler, threads, interrupts and the C API.

The first one is sequential, and its difficulty lies in what it promises about a graph
that it edits by hand, in an order a hash table of pointers decides. The second one is
concurrent in every line. Both are modelled.

## Inventory

| Component | State | Operations | Interacts with |
|---|---|---|---|
| Call graph (`CallGraph.h`, `CallGraph.cpp`) | `FunctionMap` (declaration to node), the root node, two adjacency lists for each node | visit a declaration, visit a call, insert a node, add callees, merge all pairs of nodes | called by `main` once for each translation unit, then `MergeFunctionMap` |
| Package boundary analysis (`main.cpp`) | `funcPackageMap`, `callRelation[i][j]`, `rootFunctions[i]`, the list of callees | `traverseFunction`, `findMargin`, `findCallee`, `findRootCaller`, print | reads the merged graph |
| AST file front end (`main.cpp`, `LibtoolingClasses.h`) | the list of files and an iterator over it, the AST files on disk | save each unit, load each unit | clang, the file system |
| Scheduler core (`sched.cxx`) | `sched_lock`, `need_reschedule`, the current thread; mutex counts and inherited priorities | `unlock_inner`, `thread_entry`, `start_cpu`, the inheritance protocol | calls the queue scheduler and `call_pending_DSRs`; called by everything that unlocks |
| Multi-level queue scheduler (`mlqueue.cxx`) | run queues, `queue_map`, `timeslice_count`; the wait queues | add, remove, schedule, tick, yield, rotate, move to head; enqueue, dequeue, remove | the threads |
| Threads (`thread.cxx`) | state bits, `suspend_count`, `wakeup_count`, sleep and wake reasons, priority, timer; the housekeeping list, ids, data slots | sleep, wake, counted sleep and wake, suspend, resume, release, kill, exit, set priority, delay, reinitialize | scheduler, clock |
| Interrupts (`intr.cxx`) | the list of posted DSRs, links and counts; the ISR chains; the disable counter | post, call, `interrupt_end`; attach, detach, `chain_isr`; mask, enable and disable | interrupts, scheduler |
| C API (`kapi.cxx`) | `thread` handles, nothing of its own | one wrapper for each method; `cyg_thread_resume`, `cyg_thread_delete`, `cyg_scheduler_safe_lock` and the enumeration do more | threads, scheduler; synchronization objects, counters, alarms |

Behaviours that are hard to test:

* *Ordering.* The merge visits the nodes in the order of a `DenseMap` of pointers; DSRs
  and timers arrive between any two steps of the scheduler.
* *Faults.* A source file does not compile, an AST file is missing or left by an earlier
  run, and the front end goes by the position in a list.
* *Interleaving.* An interrupt walks the chain that a thread is attaching to. Threads are
  created, resumed and deleted while another one enumerates them. Every method of a thread may be preempted at the moment it unlocks, a
  DSR may wake, suspend or release the very thread that is on its way to sleep, and a
  thread can be killed in every stage of a sleep.
* *Atomicity.* `cyg_thread_resume` reads a state without a lock; `unlock_inner` clears
  the lock before it looks for DSRs a last time.
* *Stale state.* A timer that stays armed, a timeslice count that stays zero, a queue
  pointer that outlives the wait.
* *Liveness.* Equals share the processor; a posted DSR is called; a killed sleeper exits.

What makes each component correct:

* Call graph: every function is reachable from the root, the two lists describe one
  graph, no call is invented and none is lost, methods of different classes are kept
  apart, and after the merge all declarations of a function have its callers and callees.
* Scheduler and queues: a thread is on exactly the run queue of its priority exactly when
  it is runnable, and the best runnable thread runs whenever the scheduler is unlocked.
* Scheduler lock: in effect a variable of each thread, and no DSR waits when it is zero.
* Threads: the state bits agree with the counts and reasons beside them, a timer can
  only end the sleep it was armed for, and a killed thread stays killed.
* DSRs: a queue of posted interrupts that loses and repeats nothing.
* Front end: the ASTs that are analysed are those of the source files, or the tool says so.
* Boundary analysis: margins are calls of the program that cross packages, no crossing is
  missed, root callers are the functions nobody calls, and the traversals end.
* Priority protocols: whoever holds a mutex runs at least at the priority of the threads
  that wait for it, gets its own priority back, and the best thread gets the mutex.
* Thread list: a ring of exactly the threads there are, of which an enumeration shows each
  one that stays, once, and none that is gone.
* Chains: an interrupt reaches the ISR of every attached object of its vector, once, in
  order of priority, and interrupts stay disabled while they should.

## Modules

| Module | What it models |
|---|---|
| `CallGraph` | the walk over the declarations of all units (`VisitFunctionDecl`), the merge (`StartMerge`, `MergePair`), and the graph operations they use |
| `CallGraphProofs` | invariants of `CallGraph` for every program, and that the graph is complete for programs without what the findings are about |
| `MCCallGraph` | programs for TLC |
| `Boundary` | composes with `CallGraph`: the traversals of `main.cpp` over the merged graph and their results |
| `Main` | composes with `Boundary`: the front end before it, from the source files over the AST files to the declarations |
| `MainProofs` | invariants of `Boundary` for every program, that no margin or root caller is missed, and what `Main` analyses, for every failure of the front end |
| `MCMain` | programs in two source files, file names and packages for TLC |
| `MLQueue` | the run queues, the wait queues and the timeslice, as operators on the record `k` of the kernel's objects |
| `Thread` | the methods of `Cyg_Thread`, operators on the same record |
| `Kernel` | the composition: `unlock_inner`, interrupts, DSRs, context switches and the API calls as actions |
| `ThreadProofs` | what each method of `MLQueue` and `Thread` does to the record of objects, for every record it may find |
| `KernelProofs` | invariants of `Kernel` for any threads, calls and bounds |
| `MCKernel` | threads and calls for TLC |
| `Inherit` | priority inheritance and priority ceilings on the same operators, with mutexes that use them |
| `InheritProofs` | invariants of `Inherit` for any threads, priorities and mutexes |
| `MCInherit` | three threads and a mutex of each protocol for TLC |
| `Links` | what a loop along the links of objects meets: the DSR list, the chains and the housekeeping list are read with it |
| `LinksProofs` | lemmas about it: the sequence that links join, and what the stores of the code make of that sequence |
| `ThreadList` | the housekeeping list and the ids of threads, creation and deletion, enumeration and search |
| `ThreadListProofs` | that the list is one ring for any threads and callers, and what an enumeration shows |
| `MCThreadList` | an instance of `ThreadList` |
| `Dsr` | the DSR list, pointer by pointer, and its mapping to `DsrQueue` |
| `DsrQueue` | what the DSR list promises: a queue of posted interrupts |
| `Chain` | composes with `Dsr`: the chains of interrupt objects, `attach`, `detach`, `chain_isr`, which posts the DSRs, and the disable counter |
| `ChainProofs` | invariants of `Dsr` and that it implements `DsrQueue`, for every number of interrupts and posts; that `Chain` implements `Dsr`, that no ISR is missed and that disables nest, for any chains |
| `MCChain` | an instance of `Chain` |

`Kernel` and `Inherit` EXTEND `Thread`, which EXTENDS `MLQueue`. In both libraries of operators a
method is an operator from the record before the call to the record after it, because
the code runs it with the scheduler locked: interrupts may arrive meanwhile, but their
DSRs, the only part that touches these objects, wait for the unlock. What is *not*
under one lock is a step of its own in `Kernel`.

### How `CallGraph` corresponds to the code

* A *declaration* stands for one `FunctionDecl` object. Two files that see the same header
  have two declarations of each function in it. `program` gives the order in which the
  walk meets the declarations and the call expressions of each body; it is chosen in
  `Init` and stays fixed.
* `graph.callees` and `graph.parents` are the two lists of each node, kept as sets: order
  and repetition are only printed.
* `VisitFunctionDecl` is `includeInGraph` followed by `addNodeForDecl`, which inserts the
  node and visits the body at once. `VisitCallExpr` finds only calls that are not inside
  another call, as the code does not visit the children of a `CallExpr`.
* `StartMerge` picks any order of `FunctionMap`: a `DenseMap` keyed by pointers has none.
  `MergePair` is one turn of the inner loop of `MergeFunctionMap`. Two methods of one
  class satisfy the inner test and the outer one, and are merged twice.
* Left out: Objective-C messages and blocks (the tool reads C and C++), printing.

### How `Boundary` corresponds to the code

* `main` runs its phases one after the other: `build` is `CallGraph`, then come
  `traverseFunction`, `findMargin`, `findCallee` and `findRootCaller`.
* The three recursive functions have one skeleton: a frame of `stack` is a call, `node`
  its argument, `rest` the callees its loop has not reached. `VisitCallee` is one turn
  of the loop, `Follows` its `continue`s, and `AddPackage`, `AddMargin` and `AddCalled` what
  each of the three does before it recurses. `Return` is the end of a call.
* As the lists are sets in `CallGraph`, a loop takes its callees in any order: which
  callee a margin keeps depends on it.
* A file name is the set of the keys and special names that occur in it (`FilePatterns`);
  `PackageOf` is the search for them.
* The local `callerType` is the package of the caller in every turn, because
  `funcPackageMap` no longer changes. The lists of callees and root callers are sets of
  definitions and of names: `findRootCaller` only looks at names.
* `MaxDepth` bounds the stack of calls. Only programs with mutual recursion reach it.

### How `Main` corresponds to the code

* `front` is where `main` is: `run` inside `tool.run`, `load` in the loop over the AST
  files, `loaded` from the call graph on, `gone` after `return 1`.
* `RunSource` is what clang does with one source file. It passes over one without a
  compile command, which is no error to it; it fails to open one, without calling
  `HandleTranslationUnit`; or it compiles one, with errors or without, and calls it. This is
  the fault model, and external: `ClangTool` is not in the repository.
* `HandleTranslationUnit` saves under the next name, wherever clang is by then. `disk` maps the
  position of a name to the source file whose AST is under it, to `Old` (an AST file of an earlier
  run, which loads and defines no function) or to `Missing`.
* `EndLoad` makes the declarations that were loaded, in the order in which the units were, the
  stream that `CallGraph` walks.
* A source file has one compile command. With two, `HandleTranslationUnit` is called twice for
  it, and the names shift as they do when a file is passed over.

### How `Kernel` corresponds to the code

`pc` is the place of the one processor: `boot` before `start_cpu`; `app` outside the
scheduler; `loop`, `dsrs`, `switch` and `unlock` are the places of `unlock_inner`
between which an interrupt matters. A thread switched out in `unlock_inner` keeps its
argument (`new_lock`) and the rest of the method that called it (`then`).

* `unlock()` does nothing but decrement while the lock is above one. With the lock at
  one it enters `unlock_inner(0)`: `UnlockFrom`. `reschedule()` and `unlock_reschedule()`
  enter it with a lock that stays held: `RescheduleAt`.
* `call_pending_DSRs` detaches the list, `ClockDsr` and `DeviceDsr` run one DSR each,
  `SwitchContext` is the middle of the loop, up to the point where the thread that
  returns from the switch goes on, `FinishUnlock` the end, with the second look at the
  DSRs. An interrupt can come between any two.
* A method that ends with `unlock()` is one action with a continuation in `then`:
  `AfterTimedSleep`, `AfterDelay`, `AfterSleep`, `AfterWait` run when the thread is back.
  `cyg_thread_resume` takes three steps: the unlocked look at the state (`ResumeCheck`),
  the constructor called again (`Reinitialize`) and `ResumeCall`.
* The configuration is the one the repository's AST files were made with: one processor,
  multi-level queue, timeslicing, counted DSR list in FIFO order. Code replaced by
  `//deleted` is not there to be modelled.
* What the repository has only the use of is modelled from that use, and marked as
  external in the map: the inline files (`unlock`, `set_timer`, the sleep and wake
  reasons), the lists of `clist.hxx`, the clock DSR, a device's DSR, and
  the waiting side of a synchronization object, of which there is one, with a FIFO queue.

Abstractions a reader should know:

* An interrupt between the clearing of the lock and the last look at the DSRs is not a
  step of its own. Its `interrupt_end` sees a lock of zero and goes through
  `unlock_inner` itself: the same as an interrupt right after the return.
* A clock tick fires at most one timer. Two that are due in one tick fire in two ticks,
  between which the model need not do anything else.
* A DSR posted several times is one element of `dsr_list`; the counts are in `Dsr`.
* Blocking calls are made with the scheduler unlocked, as the API demands; in DSRs only
  calls that do not block.
* `Reinitialize` is one step: all it writes belongs to the thread it is about.

### How `Dsr` corresponds to the code

`post_dsr` runs with interrupts disabled, and so do the pieces of
`call_pending_DSRs_inner` that look at the list: detaching it, and reading and clearing
count and link of the next interrupt. They are `post_dsr`, `call_pending_DSRs` and
`DsrReturns` (which takes the next interrupt when the DSR of the one before returns).
A DSR runs with interrupts enabled, so a post falls between any two of these steps.
`Waiting` reads the queue out of the pointers, following the links of the part taken off and
then those of the list (`Linked` in `Links`): that is the refinement mapping to `DsrQueue`.

### How `Chain` corresponds to the code

* `chain_list`, `chain_next`, `priority` and `vector` are the fields of `Cyg_Interrupt`
  with chains, one of the two configurations of `intr.cxx`. `hal` says where `chain_isr`
  is registered: a registered vector is delivered.
* A thread attaches, detaches, disables and enables; `at` is where it is. `attach` and `detach`
  do not disable interrupts, so each store that an interrupt can see is a step: the head of
  an empty chain (`Attach`) and the registration (`Register`); the link of the new object (`Attach`)
  and the pointer to it (`Link`); the pointer past the object (`Detach`) and the end of the
  registration (`Unregister`). `disable_interrupts` is the test of the counter, the claim of
  the spinlock, and the increment.
* `Deliver`, `CallIsr`, `SkipIsr` and `EndIsr` are the walk of `chain_isr`. It runs with interrupts
  disabled and before any thread or DSR goes on, so only its own ISRs change something
  during it: they post DSRs, and may disable and enable interrupts themselves (`Pair`).
* `Others` is a thread that preempts the one modelled and pairs the two calls. It cannot do so
  between the claim of the spinlock and its release. Interrupts stay disabled there.
* An object is attached when its link is NULL, which `attach` asserts. `detach` does not clear the link,
  so that an object taken out of the middle of a chain can be attached again only after
  its constructor (`Create`) has run.
* One thread at a time attaches and detaches, as the code needs: it takes no lock.

### How `Inherit` corresponds to the code

* The operators have the names of the methods of `Cyg_SchedThread` and call
  `set_priority` of `Thread`, which looks at the same flag: the protocol clears the flag
  around the call, as the code does.
* The mutex is external and modelled from the assertions of its callees and from the API: the
  count goes up before the thread waits, the owner inherits from each waiter, `Unlock`
  relays to the first waiter, wakes it, and only then gives up what was inherited. The woken
  thread finds the mutex free or taken again (`LockAgain`).
* A method and the switch at its end are one step: what falls between them is in `Kernel`.
* `wanted` is the priority last given to a thread by `cyg_thread_set_priority`; `bid` the priority at
  which a waiter began to wait: the protocol looks at it then and not again.

### How `ThreadList` corresponds to the code

* `list_next` is the link of each thread and `thread_list` the thread added last. `add_to_list`
  and `remove_from_list` run with the scheduler locked: one step each.
* The constructor and the destructor are not locked as a whole. `ReadId` and `WriteId` are the
  two halves of `unique_id = next_unique_id++`, `AddToList` the rest; `Delete` is
  `cyg_thread_delete` up to the removal from the list, `ZeroId` the rest of the destructor.
  Two callers create, resume and delete different thread objects at the same time; two calls for
  one object are the application's mistake.
* `cursor` and `cursor_id` are the two arguments of `cyg_thread_get_next`, of one
  enumeration at a time. `shown`, `start` and `disturbed` are what its properties speak of.
* `IdSize` stands for 2^16. With three ids they wrap and meet after two creations.

## Runs

| Run | Configuration | Properties | What it shows |
|---|---|---|---|
| `callgraph` | 8 functions and methods; 930 programs in six visiting orders, each body with up to two calls of what was declared before it, some with mutual recursion; every order of the merge | `TypeOK`, `Rooted`, `EdgesMirror`, `EdgesSound`, `AllCallSites`, `ClassesApart`, `MergeJoinsCallers`, `MergeSharesCallees` | The graph is a rooted, mirrored, sound graph at every step, and after the merge it does not matter which declaration of a function one asks |
| `callgraph_nested` | calls through pointers and in arguments | `AllCallSites` fails | `f(g())` records the call of `f` only |
| `callgraph_inclass` | two methods defined in their class | `BodiesWalked` fails | the second one gets a node by being called, and its own body is then skipped |
| `main` | 44 programs of main, f and g in two source files and three packages, with self and mutual recursion, every merge order and every order of the loops; for one of them every failure of the front end and every set of old AST files | `AnalysisTypeOK`, `MarginSound`, `MarginShown`, `RootCallersRight`, `NothingStale`, `Ends` | The results say what the program does, the program is that of the source files, and without mutual recursion the tool ends |
| `interrupts` | 3 interrupt objects of two vectors on one chain, two of equal priority; at most 2 posts each at a time and 2 nested disables | `TypeOK`, `TailMatchesHead`, `CalledWithPosts`, `NoneMissed`, `DisableHolds`, `ImplementsQueue` | No ISR is missed and none called twice while the chain changes, interrupts stay disabled, and the list of DSRs implements the queue |
| `kernel_threads` | 2 threads and the idle thread, the clock and a device; up to 2 suspensions and 1 queued wakeup | `TypeOK`, `RunQueues`, `StatesAgree`, `TimersInSleep`, `NoDeadThreadRuns`, `KillSticks` | Suspending, resuming, waking, releasing and killing in every order |
| `kernel_objects` | 2 threads of equal priority; up to 2 nested locks | `WaitQueues`, `HighestRuns`, `LockPerThread`, `LockPrecondition`, `NoDsrWaits` | Waiting, locking, yielding and changes of priority in every order |
| `kernel_live` | 3 threads, two of them equals that spin | `TakeTurns`, `DsrServed`, `KilledExits` | Nobody starves |
| `inherit` | low, middle and high threads, one mutex of each protocol, low and middle given two priorities each | `BaseKept`, `Boosted`, `NoInversion` | Whoever holds a mutex runs at the priority of the waiters, and the priority of its own is never lost |
| `thread_list` | 2 thread objects and the idle thread, 2 callers, 3 ids | `RingExact`, `EnumerationRight`, `ShownAlive` | Creation, resumption and deletion at the same time keep the list, and an enumeration on the way shows what it should |
| `kernel_nap` | a thread that naps, one that spins | `TimesliceLeft` fails | A tick between going to sleep and being woken leaves the count at zero |
| `kernel_race` | two threads resume one that exits | `ReinitializesExited` fails | The second resume reinitializes a runnable thread |

**Bounds.** Two application threads and DSRs are enough for every race of two actors over
one thread; the third party of `kernel_live` and `kernel_race` is there because taking
turns and resuming someone else's thread need one. `Ticks` is 1 or 2, so that a timeslice
can end at any tick or not. `CountSize` stands for 2^32: the count wraps there as it
would in the code. `MaxSuspend`, `MaxWakeup`, `MaxHeld` and `MaxPosts` bound counters
whose code compares them with 0 and 1 only; 2 is one more than what the code tells
apart. Three interrupts let one be running, one be taken and one be posted again; they are
also the head, the middle and the tail of a chain, and the two vectors make the walk pass over
some. Three priorities are what an inversion takes. Two thread objects beside the idle thread
let one be removed while the other is added, in front of, behind or in place of each other.

**Fairness.** `FairSpec` has weak fairness of the scheduler's own steps (the processor
executes instructions), strong fairness of the rest of a call that was interrupted
(interrupts break in again and again, but the processor comes back each time), and weak
fairness of the clock interrupt. No call of the application is fair: a thread may spin
for ever, which is what `TakeTurns` is about. `KilledExits` is conditional on `NoStorm`,
because `unlock_inner` goes around as long as DSRs arrive: nothing in the code bounds
that, and with an endless storm the property is false. `Main` has weak fairness of
its one process. `Inherit` assumes that a lock in progress goes on (the processor), that a
sleeping thread is woken, and that whoever holds a mutex and runs again and again releases
it (the application's side of a mutex); a thread that holds nothing may keep the processor for ever. Its conditions
are written with the guards of the actions instead of ENABLED, which says the same: the
actions named change the state whenever their guards hold.

**Deadlock** is checked for the kernel: an idle processor still takes interrupts. It is
not checked for `CallGraph` and `Main`, which end. `Inherit`, `Chain` and `ThreadList` are checked.

**Slips.** A definition whose comment begins with "Slip" is a form an
operation might take by mistake. No action of the model uses it; it is there to show
that a property notices the mistake.

## Findings

* `callgraph_nested`: `CallGraph.cpp:67`, calls in arguments of calls are not found.
* `callgraph_inclass`: `CallGraph.cpp:209`, a definition that is called before it is
  visited is never walked.
* `kernel_nap`: `mlqueue.cxx:526`, the comment's "we are going to reschedule anyway" is
  not true of a thread that is awake again before the reschedule.
* `kernel_race`: `kapi.cxx:209`, the state is read outside the lock.

Met on the way, without a run:

* The package of a file is the first key its name contains, and `infra` comes before
  `isoinfra`: a file of `isoinfra` is counted to `infra` (`main.cpp:97`).
* A source file that clang passes over, or a failed `Save`, leaves an AST under the name of another
  file, or an old one in its place; `main` loads it all the same. `NothingStale` is stated for runs
  without either. `Unit` is not looked at before `Save` (`LibtoolingClasses.h:91-92`).
* `printMarginDot` does not clear its lists of callers and callees between two target packages
  (`main.cpp:383-413`): the cluster of one lists the callees in the packages before it, under the
  name of the first.
* Priority inheritance is not transitive, and a holder of two mutexes keeps what it inherited
  until it releases the last one (the comment at `sched.cxx:650` says so): it can lock the first one
  again before the waiter runs. `NoInversion` is false then, and is stated for threads that
  lock one mutex at a time (`Flat`).
* `set_priority` of a thread that holds a mutex and has not inherited yet can put it below its
  waiters: nothing is inherited again. `Boosted` excepts it (`demoted`).
* Two constructors that are preempted inside `next_unique_id++` draw the same id, and after 2^16
  threads ids come back, and one of them is 0, the id of a deleted thread.
* `cyg_thread_get_next` can show a thread that is being deleted by another caller when two
  deletions overlap (the assertion at `kapi.cxx:347`), and ends early when the last thread of the list
  is deleted or a thread is resumed after its exit on the way.
* `detach` leaves the link of an object that was not the last of its chain, and `attach` asserts that it
  is NULL: detaching and attaching again fails the assertion (`intr.cxx:462`).
* A DSR that is pending when its object is detached or deleted is still called.
* `new_data_index` returns with the scheduler locked when no index is left (`thread.cxx:1054`).
* Two functions that call each other make the traversals of `main.cpp` recurse for ever.
* `callRelation` keeps one callee for a caller and a pair of packages: that there is a
  crossing is shown, not each call (`MarginShown`).
* A plain function that shares its name with methods of two classes joins the two
  (each pair passes the test), so `ClassesApart` is stated for programs without one.
* A thread that yields in the same unlock as the tick that ends its slice is rotated
  twice, so `TakeTurns` is stated for threads that do not yield.
* `to_queue_head` asks for a reschedule only when the thread is better than the current
  one, although its comment says that it forces one.
* A thread that suspends itself with the scheduler locked and then exits is removed from
  a run queue it is not on, against the assertion at `mlqueue.cxx:310`.

## Proofs

TLAPS checks the following for every value of the constants.

`CallGraphProofs`, for every finite set of declarations, every program and every merge
order: `TypeCorrect`, `AlwaysRooted`, `AlwaysEdgesMirror`, `AlwaysEdgesSound`. None of
them is inductive alone. The inductive invariant is

    IInv == TypeOK /\ Good(graph) /\ Sound(ByName, graph) /\ OrderOnMap /\ IteratorsFresh

`Good` joins `Rooted` and `EdgesMirror`: the merge adopts the *parents* of a node, and only
the mirror shows that these have nodes, and only the root's place that merging a node does
not make the root a callee. `Sound` is `EdgesSound`, kept by a merge because it merges
nodes of one name. `OrderOnMap` says that the merge iterates over nodes of
the map, none of them the root; without it nothing is known of the pairs it merges.
`IteratorsFresh` says that the iterators have not moved before the merge
starts. The lemmas follow the operations: what `addCallee`, `AdoptParents` and
`getOrInsertNode` add, that each keeps a graph good and sound, then
`mergeCallGraphNode`, then a turn of the loop, then a step.

Then, *nothing is lost*. The findings say when something is: a call in an argument of a call, and a
definition that is called before it is visited. `CallsNotNested` and `DefinedBeforeCalled` (both at the end of
`CallGraph`) say that a program has neither, and for such programs `AlwaysBodiesWalked` and
`AlwaysAllCallSites` prove that each call site is an edge. The invariant `WalkInv` says where the walk has
been: the visited definitions have all their callees, and a definition that has a node has been visited. It is the
second part that a call before the definition would break, and that the merge, which adds no
nodes, keeps.

*The merge joins the declarations of a function, those and no others*, in programs where no plain
function has the name of a method (`NamesApart`); a plain function with such a name is why the three
theorems need a condition. `AlwaysClassesApart` is soundness once more, `Sound(ByFunction, graph)`: two
nodes that pass the test are then of one function (`MergeableIsOneFunction`).
`AlwaysMergeJoinsCallers` is about one pass over the pairs, in an order nobody chose, after which nothing
is looked at again; that one pass is enough is not obvious, because a node merged early does not have what the
later ones bring. The invariant `ParentsInv` looks at the first and the last node of each function in the
order: the first has the parents of all it has been paired with, so that when it comes to the last it has
those of the whole function and gives them to it (`Full`); every other node is paired with the last
after that, and gets them from it. Whatever is `Full` remains so, because a merge of two nodes
adds to nodes of this function only what one of them has.
`AlwaysMergeSharesCallees` has an easier one (`CalleesInv`): a declaration has no callees, or those of its
only definition, and the two agree once they have been paired.

`MainProofs`, first about `Boundary`, for the same and every set of packages and files: `AnalysisTypeCorrect`
and `AlwaysMarginSound`. The invariant adds to `IInv` that there are frames
only during the traversals, when the graph no longer changes, that the rest of a
frame are callees of its node (`FramesOnGraph`), and that `funcPackageMap` has the packages
of `PackageOf` (`PackagesRight`). Then a margin is an edge, and an edge a call by
`EdgesSound`. That `PackageOf` is a key needs a least element of a set of numbers, from
well-founded induction.

The other direction, that nothing is missed, is `AlwaysMarginShown` (where `DefinedBeforeCalled` and
`NamesApart`) and `AlwaysRootCallersRight` (where `UniqueNames` in place of `NamesApart`, because
`findRootCaller` compares names alone). It takes a graph that has the call (`WalkInv`) and has it for the
definition that is called, not only for the declaration the caller saw (`Joined`, by
`AlwaysMergeJoinsCallers`), and traversals that have been everywhere. The traversals are recursive and
their stack has any depth, but the invariant `LoopInv` is about the outermost two frames alone: every function is a
callee of the root, so that the loop of the root comes to each, and the call it makes for it comes to each
callee; the deeper calls only add results. `AfterInv` carries what one traversal leaves to the
next: `findMargin` finds the packages of both ends because `traverseFunction` has entered every definition.
If the traversals do not end, as with mutual recursion, the theorems say nothing: both are about
`phase = "done"`.

The DSR list, the chains and the housekeeping list are recursive data, and induction over data is not
available here. `LinksProofs` does without: the invariants name a *sequence* of objects
beside the pointers, `Path(link, none, first, w)` says that `first` and the links run through `w`, each
object once, and then stop (`Ringed`, that they go around), and `LinkedIsPath` shows once that a loop along the
links meets exactly `w`: otherwise there would be a last turn of the loop from which on it does not, by the
well-foundedness of the numbers. The other lemmas say what the stores of the code make of the sequence: an object put at
the end, taken off the front, linked in or taken out anywhere. After that a proof is about sequences.

`ChainProofs` begins with `Dsr`, for every finite set of interrupts and every bound on posts: `TypeCorrect`,
`TailAlwaysMatchesHead`, `AlwaysCalledWithPosts`, the assertions of `intr.cxx`. The invariant
says that whatever is linked has posts (`OnlyPosted`), that nothing is linked twice (`LinkedOnce`), and that the
interrupts of the detached part are a set closed under the links that the head and the tail of the new list are
outside of (`Apart`). That last part is what keeps a post during a DSR from
being appended to the part that has been taken off. `DsrImplementsQueue` is the refinement. Its invariant,

    QInv == IInv /\ \E taken, listed \in Seq(Interrupt) : OnLists(taken, listed)

says that the part taken and the list are two paths without a common object, that the tail points to the end
of the second one, and that their objects are exactly those with posts. Then a post appends to `taken \o listed` or
leaves it, detaching the list moves `listed` to `taken`, and each call takes the head.

Then `Chain`, for any objects, vectors, priorities and chains. `ImplementsDsr`: `ChainSpec => Spec` of
`Dsr`, step by step, because an ISR only posts; the theorems about `Dsr` follow for chains
(`ChainCallsWithPosts`, `ChainTailMatchesHead`, `ChainImplementsQueue`). `AlwaysNoneMissed` is about the walk of an
interrupt that may fall between any two stores of a thread that attaches or detaches. Its invariant is

    ChainInv == ChainTypeOK /\ (\A x \in Index : \E w \in Seq(Interrupt) : Chained(x, w))
                /\ BetweenStores /\ Registered /\ Walking

`Chained` is a path through the attached objects of one entry of the table, of priorities that do not rise, at
*every* moment, also in the middle of an attach; that depends on what `attach` has found
remaining true until it stores (`InPlace`: the place between the objects of a higher and a lower
priority, and the link already set to the one behind it). `Registered` says that the one chain that an interrupt cannot
reach is the one not registered yet, whose object is not counted as attached. `Walking` says that a walk at the k-th object has
called the ISRs of its vector before that one, and no others. `AlwaysDisableHolds` needs the invariant `DInv`:
interrupts are disabled exactly inside the outermost pair of calls or in an interrupt, never both, and
inside the pair the state saved is the enabled one. The second part is what the ISRs and threads
that run between the test of the counter and the claim of the spinlock could have spoiled.

`ThreadListProofs`, for any finite set of threads, any callers and any number of ids: `AlwaysRingExact`,
`AlwaysEnumerationRight`, `AlwaysShownAlive`. The invariant is

    IInv == TypeOK /\ OneCallerEach /\ StillThere
            /\ \E e \in Seq(Thread) : Order(e) /\ Undisturbed(e)

`e` is the ring from the head to the thread added last, in the order of an enumeration. `OneCallerEach` (nobody
works on the thread object of another caller, and none is alive while its constructor or destructor runs) is
what makes an addition one of a thread that is not on the list, and a removal one of a thread
that is. `Undisturbed` ties an enumeration to the same `e`: at its k-th thread it has shown those that were there at the
start up to k, once each, and none behind. A new thread is put at the end and a deletion closes a gap, so that
both keep the order of the others; what does not (a thread put at the end a second time, the last one
or the shown one taken off) is what the property excepts. `StillThere` is for
`ShownAlive`: between the removal of a thread and the clearing of its id an enumeration takes it for alive, and
goes on along the link it has kept, which leads to a thread on the list until a second deletion overlaps.

`MainProofs`, then about `Main`, for any programs and any failures: `NeverStale`. The invariant `MInv` relates three
positions: while nothing has gone wrong, the next name is that of the next source file, and each AST
saved is under the name of its file; what is loaded is then in the order of the files.

`ThreadProofs` has the lemmas for the next two: for each method of the queues and of `Cyg_Thread`,
what it requires of the record and what it makes of it. Three shapes recur. A method that
another thread or a DSR calls *prods* a thread (`Prodded`): it may wake it, suspend it or kill
it, and changes nothing the thread counts on. A method a thread calls for itself is *about*
that thread. And every method keeps the record `Consistent`: the run queues hold the runnable
threads, each once at its priority, the map of queues has a bit for each queue that is not empty, a
reschedule is asked for when a better thread than the current one is runnable, and bits, counts
and reasons agree.

`KernelProofs`, in two layers. The first holds of every application. Its invariant is

    LockInv == TypeOK /\ Sane(k) /\ Control

`Sane` says that the map agrees with the queues and that the idle thread is queued, so that
`schedule` finds a thread: without that the current thread has no type. `Control` says for each
place of the processor how the lock is held, and for each thread that is switched out, which of the
rest of its call is to come (`InPlace`): the lock a thread will be given back is the one it
counts. From this follow `TypeCorrect`, `AlwaysLockPrecondition` and `AlwaysNoDsrWaits`.

The second layer is

    ThreadInv == Consistent(k) /\ Running /\ \A t \in Thread : ThreadPlace(t)

where `ThreadPlace` ties the record of a thread to its place: a sleeping thread is in the call that put
it to sleep, one that was told to exit has exited or is on its way out of a sleep, an armed timer is that
of a timed sleep. None of this survives a thread's being constructed again while it is runnable,
which the finding `kernel_race` shows is possible. So `AlwaysRunQueues`, `AlwaysWaitQueues`,
`AlwaysStatesAgree`, `AlwaysTimersInSleep`, `AlwaysNoDeadThreadRuns`, `AlwaysLockPerThread`,
`AlwaysHighestRuns` and `AlwaysKillSticks` have the form
`Spec /\ []ReinitializesExited => []...`: the races of `cyg_thread_resume` are the one thing that can
break them. The condition is one programs can meet. `AlwaysReinitializesExited` proves it
for every program in which one thread alone calls `cyg_thread_resume` (`OneReviver`), and
`OneReviverIsSafe` draws the conclusion. The program of `kernel_threads` is of this kind, that of
`kernel_race` is not.

The proof corrected the model once: `StatesAgree` had said that a thread is suspended exactly
while its count is not zero, which is false of a thread that suspends itself under the scheduler lock and
exits. TLC had not met it, because no program of the runs makes those two calls with the lock held.

`InheritProofs`, for any threads, priorities and finite sets of mutexes. The invariant is

    MutexInv == Settled /\ Types /\ \A t \in Thread : Placed(t) /\ Counted(t) /\ Based(t)
    BoostInv == ~demoted => /\ \A m \in Inheriting : Led(m)
                            /\ \A m \in DOMAIN Ceiling : ...

`Counted` is what the two hang on: `mutex_count` is the number of mutexes a thread owns, and one
more while it waits for one or has been woken to take it. It is the count that decides when a thread
gives up what it inherited, so that `AlwaysBaseKept` needs the *cardinality* of the mutexes owned.
`Led` is `Boosted` for one mutex. It is not kept by `Unlock` alone: the owner gives up what it
inherited from the waiters of *another* mutex too, unless it holds one still, and the thread that is woken
must have been relayed the priority before. `NobodyInBetweenRuns` is what `NoInversion`
says without fairness: while the owner of a mutex can run, no thread of a priority between its own and
that of a waiter does. `InheritorsCount` is the assertion at `sched.cxx:595`.

The assumptions are those stated with the constants: the root and "no declaration" are not
declarations, only definitions have bodies, the set of declarations is finite; `NULL` is
no interrupt and no vector; interrupts, and the threads of `ThreadList`, are finitely many, and so are the threads and mutexes of `Inherit`; the units of a program hold its declarations in order. The theorems
about `Boundary` are about the analysis of any program; that it is the one in the source
files is `NeverStale`.

The hypotheses on programs are conditions that the programs of the runs `callgraph` and `main` meet: TLC
evaluates them there (`MCHypotheses` in `MCCallGraph` and `MCMain`), and the runs of the two findings
show what happens where the first two do not hold.

Only model-checked: liveness under fairness (`TakeTurns`, `DsrServed`, `KilledExits`, `NoInversion`,
`Ends`), out of the prover's reach; of `NoInversion` the safety part is proved (`NobodyInBetweenRuns`).
Every invariant, action property and refinement of the passing runs is a theorem, some with the hypotheses
stated above. Of the properties that fail, `ReinitializesExited` and `BodiesWalked` hold under conditions
that are proved to be enough, and so does `AllCallSites`; `TimesliceLeft` is false as it stands.

## Plan

What is left: two drivers that attach and detach on one chain, which the code leaves unlocked
(`intr.cxx:518`); the data indices of threads, with the lock that is not released (`thread.cxx:1054`); a name of a
package that is part of another one (`main.cpp:97`).

## Not modelled, and why

* Data indices and exceptions of threads, the limit of the stack: bookkeeping of one object
  each. Masks, VSRs and the processor of an interrupt: each is one call of the HAL.
* A thread that is released or killed while it waits for a mutex: what it does then is in the mutex,
  which is not in the repository. Mutexes with more than one protocol at a time: not compiled.
* The API of mutexes, semaphores, flags, mailboxes, counters, clocks and alarms: wrappers
  around classes that are not in the repository. `Wait` and `Signal` stand for them.
* Printing, dot files, scripts, AST files and the test inputs: no behaviour of their own.
* `MyVisitor` in `LibtoolingClasses.h` is never used. `cyg_thread_create` and the
  constructors' stack set-up: memory layout.
