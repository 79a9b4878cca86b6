----------------------------- MODULE CallGraph -----------------------------
(***************************************************************************)
(* The call graph of the LibTooling tool: CallGraph.h and CallGraph.cpp.   *)
(*                                                                         *)
(* The tool walks the declarations of every translation unit in turn       *)
(* (addToCallGraph), gives each function definition a node, records the    *)
(* calls found in its body, and then (MergeFunctionMap) merges the nodes   *)
(* of the declarations and definitions of one function, which clang keeps  *)
(* apart as different Decl objects.                                        *)
(*                                                                         *)
(* The lists of callees and of parents are kept as sets: their order and   *)
(* repetitions are only ever printed.  Objective-C messages and blocks are *)
(* left out: the tool is run on C and C++ files.                           *)
(***************************************************************************)
EXTENDS Naturals, Sequences, FiniteSets

CONSTANTS
  Decl,         \* the FunctionDecls of the translation units
  Root,         \* the virtual root node (the node of the null Decl)
  NoDecl,       \* "no direct callee": a call through a pointer
  NoClass,      \* the class of a function that is not a CXXMethodDecl
  NameOf,       \* getNameAsString of each declaration
  ClassOf,      \* the class of a method, NoClass for a plain function
  Definition,   \* the declarations that are definitions
  Skipped,      \* "__inline" functions and functions of dependent contexts
  Program       \* the pairs of a visiting order and call sites to explore

Node == Decl \cup {Root}

(***************************************************************************)
(* A call expression of a body: the declaration getDirectCallee returns    *)
(* and whether it is written inside another call expression (f in g(f())). *)
(***************************************************************************)
CallSite == [callee : Decl \cup {NoDecl}, nested : BOOLEAN]

(***************************************************************************)
(* A program is a visiting order of declarations and the call sites of     *)
(* each body.  Only a definition has a body.                               *)
(***************************************************************************)
ASSUME NodeAssumption ==
  IsFiniteSet(Decl) /\ Root \notin Decl /\ NoDecl \notin Node
ASSUME SourceAssumption ==
  /\ Definition \subseteq Decl
  /\ Skipped \subseteq Decl
ASSUME ProgramAssumption ==
  \A p \in Program :
    /\ p.stream \in Seq(Decl)
    /\ p.body \in [Decl -> SUBSET CallSite]
    /\ \A d \in Decl \ Definition : p.body[d] = {}

VARIABLES
  program,      \* the program being analysed
  visited,      \* how many declarations of the stream have been visited
  graph,        \* FunctionMap and, for each node, its callees and parents
  order,        \* the order in which the merge iterates over FunctionMap
  it, it2       \* the iterators of its two loops, as positions in order

vars == <<program, visited, graph, order, it, it2>>

Graph == [FunctionMap : SUBSET Node,
          callees : [Node -> SUBSET Node],
          parents : [Node -> SUBSET Node]]
-----------------------------------------------------------------------------
(***************************************************************************)
(* Operations on the graph.                                                *)
(***************************************************************************)

\* Definitions marked "Slip" are the forms a plausible slip would give the
\* operation that follows them; nothing in the model uses them.

\* Slip: the callee forgets its parent.
AddCalleeOneWay(g, caller, called) ==
  [g EXCEPT !.callees[caller] = @ \cup called]

\* Every node of "called" becomes a callee of "caller", which becomes a
\* parent of each of them.
addCallee(g, caller, called) ==
  [g EXCEPT !.callees[caller] = @ \cup called,
            !.parents = [n \in Node |-> IF n \in called
                                          THEN @[n] \cup {caller}
                                          ELSE @[n]]]

\* Slip: the new nodes are not hung below the root.
InsertUnrooted(g, ds) == [g EXCEPT !.FunctionMap = @ \cup ds]

\* The nodes of "ds" exist afterwards; the new ones hang below the root.
getOrInsertNode(g, ds) ==
  addCallee([g EXCEPT !.FunctionMap = @ \cup ds], Root, ds \ g.FunctionMap)

\* Whether a visited declaration gets a node: not when it has one already.
includeInGraph(g, d) ==
  /\ d \notin g.FunctionMap
  /\ d \in Definition
  /\ d \notin Skipped

\* The callees CGBuilder finds.  VisitCallExpr does not visit the children
\* of the call, so that a call inside the arguments of another is not seen.
VisitCallExpr(body) ==
  {c.callee : c \in {s \in body : ~s.nested /\ s.callee # NoDecl}}

\* Slip: the callee must pass includeInGraph, as in the graph of clang that
\* this one modifies.
AddNodeIncluded(g, d, body) ==
  LET called == {c \in VisitCallExpr(body) : includeInGraph(g, c)}
  IN  addCallee(getOrInsertNode(g, {d} \cup called), d, called)

\* The node of a visited definition, and an edge to each callee, which gets a
\* node although its definition may be elsewhere.
addNodeForDecl(g, d, body) ==
  LET called == VisitCallExpr(body)
  IN  addCallee(getOrInsertNode(g, {d} \cup called), d, called)

\* "n" becomes a callee of the nodes of "ps" that do not call it yet.
AdoptParents(g, ps, n) ==
  LET new == {p \in ps : n \notin g.callees[p]}
  IN  [g EXCEPT !.callees = [p \in Node |-> IF p \in new THEN @[p] \cup {n}
                                                         ELSE @[p]],
                !.parents[n] = @ \cup new]

\* Slip: the callees are not shared.
MergeParentsOnly(g, n1, n2) ==
  LET joined == AdoptParents(g, g.parents[n2], n1)
  IN  AdoptParents(joined, joined.parents[n1], n2)

\* Slip: only the first node takes the parents of the other one.
MergeOneSided(g, n1, n2) ==
  LET filled == IF g.callees[n1] = {} THEN addCallee(g, n1, g.callees[n2])
                ELSE IF g.callees[n2] = {} THEN addCallee(g, n2, g.callees[n1])
                ELSE g
  IN  AdoptParents(filled, filled.parents[n2], n1)

\* An empty node takes the callees of the other one; then each takes the
\* parents of the other one.  An empty list of parents gives nothing.
mergeCallGraphNode(g, n1, n2) ==
  LET filled == IF g.callees[n1] = {} THEN addCallee(g, n1, g.callees[n2])
                ELSE IF g.callees[n2] = {} THEN addCallee(g, n2, g.callees[n1])
                ELSE g
      joined == AdoptParents(filled, filled.parents[n2], n1)
  IN  IF filled.parents[n1] = {} THEN joined
      ELSE AdoptParents(joined, joined.parents[n1], n2)

\* Slip: the class alone is compared.
SameClass(d, e) == ClassOf[d] = ClassOf[e]

SameName(d, e) == NameOf[d] = NameOf[e]

\* The test of MergeFunctionMap: same name, and for two methods same class.
Mergeable(d, e) ==
  /\ SameName(d, e)
  /\ (ClassOf[d] # NoClass /\ ClassOf[e] # NoClass) => ClassOf[d] = ClassOf[e]
-----------------------------------------------------------------------------
(***************************************************************************)
(* The walk over the declarations and the merge.                           *)
(***************************************************************************)

\* The orders in which a FunctionMap with the nodes of "ds" may iterate.
Orders(ds) == {o \in [1 .. Cardinality(ds) -> ds] :
                 \A i, j \in DOMAIN o : i # j => o[i] # o[j]}

\* The body of the loops of MergeFunctionMap for one pair of declarations:
\* two methods of a class are merged by the inner test and again after it.
MergeFunctionMap(g, d, e) ==
  IF ~Mergeable(d, e) THEN g
  ELSE IF ClassOf[d] = NoClass \/ ClassOf[e] = NoClass
         THEN mergeCallGraphNode(g, d, e)
         ELSE mergeCallGraphNode(mergeCallGraphNode(g, d, e), d, e)

Init ==
  /\ program \in Program
  /\ visited = 0
  /\ graph = [FunctionMap |-> {Root},
              callees |-> [n \in Node |-> {}],
              parents |-> [n \in Node |-> {}]]
  /\ order = <<>>
  /\ it = 1
  /\ it2 = 2

Walking == visited < Len(program.stream)
Merging == visited = Len(program.stream) + 1

\* One declaration of the stream: its node and the calls of its body.
VisitFunctionDecl ==
  /\ Walking
  /\ LET d == program.stream[visited + 1]
     IN  graph' = IF includeInGraph(graph, d)
                    THEN addNodeForDecl(graph, d, program.body[d])
                    ELSE graph
  /\ visited' = visited + 1
  /\ UNCHANGED <<program, order, it, it2>>

\* The walk is over: MergeFunctionMap iterates over FunctionMap, a hash
\* table of pointers, in an order nothing determines.
StartMerge ==
  /\ visited = Len(program.stream)
  /\ visited' = visited + 1
  /\ order' \in Orders(graph.FunctionMap \ {Root})
  /\ UNCHANGED <<program, graph, it, it2>>

\* Slip: the inner iterator runs one past the end.
MergePastEnd ==
  /\ Merging
  /\ it < Len(order)
  /\ graph' = MergeFunctionMap(graph, order[it], order[it2])
  /\ \/ it2 <= Len(order) /\ it2' = it2 + 1 /\ it' = it
     \/ it2 > Len(order) /\ it' = it + 1 /\ it2' = it + 2
  /\ UNCHANGED <<program, visited, order>>

\* The next pair of the two loops.
MergePair ==
  /\ Merging
  /\ it < Len(order)
  /\ graph' = MergeFunctionMap(graph, order[it], order[it2])
  /\ \/ it2 < Len(order) /\ it2' = it2 + 1 /\ it' = it
     \/ it2 = Len(order) /\ it' = it + 1 /\ it2' = it + 2
  /\ UNCHANGED <<program, visited, order>>

Next == VisitFunctionDecl \/ StartMerge \/ MergePair

Spec == Init /\ [][Next]_vars

Done == Merging /\ it >= Len(order)
-----------------------------------------------------------------------------
(***************************************************************************)
(* Properties.                                                             *)
(***************************************************************************)

\* The graph is a graph over the nodes of FunctionMap.
TypeOK ==
  /\ program.stream \in Seq(Decl)
  /\ program.body \in [Decl -> SUBSET CallSite]
  /\ visited \in 0 .. Len(program.stream) + 1
  /\ graph \in Graph
  /\ order \in Seq(Decl)
  /\ it \in Nat \ {0}
  /\ it2 \in Nat
  /\ it < it2
  /\ it < Len(order) => it2 <= Len(order)

\* Root is a parent of every function, so that all are reachable from it
\* (CallGraph.cpp:260), and no one calls the root (the assertion of print,
\* CallGraph.cpp:285).
Rooted ==
  /\ Root \in graph.FunctionMap
  /\ \A n \in graph.FunctionMap \ {Root} : n \in graph.callees[Root]
  /\ \A n \in Node : Root \notin graph.callees[n]

\* The two adjacency lists describe one graph: c is a callee of p exactly
\* when p is a parent of c, and both ends have a node.  The root-finding and
\* the merge walk the graph upwards, the traversal downwards.
EdgesMirror ==
  \A p, c \in Node :
    /\ (c \in graph.callees[p]) <=> (p \in graph.parents[c])
    /\ c \in graph.callees[p] => {p, c} \subseteq graph.FunctionMap

\* The names of the two ends of a call written in the program.
CallsByName(p, c) ==
  \E d \in Decl : \E s \in program.body[d] :
    /\ s.callee \in Decl
    /\ SameName(d, p)
    /\ SameName(s.callee, c)

\* The graph invents no call: every edge that does not start at the root is
\* between functions whose names call each other somewhere in the program.
EdgesSound ==
  \A p \in Decl : \A c \in graph.callees[p] : CallsByName(p, c)

\* The builder locates all the call sites of a body (CallGraph.cpp:29): once
\* the walk is over every call of a definition that has a node is an edge.
AllCallSites ==
  ~Walking =>
    \A d \in graph.FunctionMap \cap (Definition \ Skipped) :
      \A s \in program.body[d] : s.callee \in Decl => s.callee \in graph.callees[d]

\* Every visited definition has its calls processed "as well" as its node
\* inserted (CallGraph.cpp:242), whichever declarations were visited before.
BodiesWalked ==
  ~Walking =>
    \A i \in 1 .. Len(program.stream) :
      LET d == program.stream[i]
      IN  d \in Definition \ Skipped =>
            VisitCallExpr(program.body[d]) \subseteq graph.callees[d]

\* The nodes of one function: the declarations with one name, and one class
\* for methods.
OneFunction(d, e) == SameName(d, e) /\ ClassOf[d] = ClassOf[e]

\* After the merge the declarations and the definition of a function have
\* the same callers, in whatever order the map was iterated over.
MergeJoinsCallers ==
  Done => \A d, e \in graph.FunctionMap \ {Root} :
            OneFunction(d, e) => graph.parents[d] = graph.parents[e]

\* After the merge a declaration without a body has the callees of the only
\* definition of its function that makes calls.
MergeSharesCallees ==
  Done => \A d, e \in graph.FunctionMap \ {Root} :
            /\ OneFunction(d, e)
            /\ d \notin Definition
            /\ e \in Definition
            /\ \A f \in graph.FunctionMap \cap Definition : OneFunction(e, f) => f = e
            => graph.callees[d] = graph.callees[e]

\* Methods of different classes are kept apart (CallGraph.cpp:184), as long as
\* no plain function has their name: a caller recorded for a method calls
\* that class's method, never only the method of another class.
ClassesApart ==
  \A p \in Decl : \A c \in graph.callees[p] :
    \E d \in Decl : \E s \in program.body[d] :
      /\ s.callee \in Decl
      /\ SameName(d, p)
      /\ OneFunction(s.callee, c)
-----------------------------------------------------------------------------
(***************************************************************************)
(* What a program must not have for nothing to be lost or confused: the    *)
(* first two say the opposite of the findings about BodiesWalked and       *)
(* AllCallSites.                                                           *)
(***************************************************************************)

\* What a body calls was visited before, if it is a definition to walk.
DefinedBeforeCalled ==
  \A p \in Program : \A i \in 1 .. Len(p.stream) :
    \A c \in VisitCallExpr(p.body[p.stream[i]]) \cap (Definition \ Skipped) :
      \E j \in 1 .. i : p.stream[j] = c

\* No call of a declaration is an argument of another call.
CallsNotNested ==
  \A p \in Program : \A d \in Decl : \A s \in p.body[d] : s.callee \in Decl => ~s.nested

\* What the walk of a program gets to see.
Appears(p) ==
  {p.stream[i] : i \in 1 .. Len(p.stream)}
    \cup UNION {VisitCallExpr(p.body[p.stream[i]]) : i \in 1 .. Len(p.stream)}

\* No plain function has the name of a method: for such the test of
\* MergeFunctionMap passes, and what it joins the classes keep apart.
NamesApart ==
  \A p \in Program : \A d, e \in Appears(p) :
    SameName(d, e) => (ClassOf[d] = NoClass <=> ClassOf[e] = NoClass)

\* A name is that of one function: findRootCaller compares names alone.
UniqueNames ==
  \A p \in Program : \A d, e \in Appears(p) : SameName(d, e) => OneFunction(d, e)
=============================================================================
