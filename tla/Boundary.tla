------------------------------ MODULE Boundary ------------------------------
(***************************************************************************)
(* The package boundary analysis of main.cpp on the merged call graph:     *)
(* main builds and merges the graph, then three recursive functions walk   *)
(* it from the root (traverseFunction, findMargin, findCallee) and         *)
(* findRootCaller puts their results together.                             *)
(*                                                                         *)
(* The recursion is a stack of frames: a node and the callees its loop has *)
(* not come to yet.  The lists of callees have no order in CallGraph, so   *)
(* that a loop takes them in any.                                          *)
(***************************************************************************)
EXTENDS CallGraph

CONSTANTS
  keys,         \* the names of the packages, in the order they are looked for
  FilePatterns, \* which of the keys and of Special each file name contains
  MaxDepth      \* bound on the depth of the recursion

Package == {keys[i] : i \in 1 .. Len(keys)}
Special == {"mathincl", "libc", "memalloc", "math.h"}

ASSUME KeysAssumption ==
  /\ keys \in Seq(STRING)
  /\ "empty" \notin Package
  /\ {"language", "services"} \subseteq Package
ASSUME FileAssumption == FilePatterns \in [Decl -> SUBSET (Package \cup Special)]
ASSUME DepthAssumption == MaxDepth \in Nat

VARIABLES
  phase,          \* the function of main.cpp that is running
  stack,          \* its frames
  funcPackageMap, \* the package of each definition
  callRelation,   \* for two packages and a caller in one a callee in the other
  callees,        \* the definitions that are called
  rootFunctions   \* the functions nobody calls, by package

analysis == <<phase, stack, funcPackageMap, callRelation, callees, rootFunctions>>
allVars == <<vars, analysis>>

Phase == {"build", "traverseFunction", "findMargin", "findCallee",
          "findRootCaller", "done"}
Frame == [node : Node, rest : SUBSET Node]
Margin == [from : Package, to : Package, caller : Decl, callee : Decl]
-----------------------------------------------------------------------------
(***************************************************************************)
(* What the loops do with one callee.                                      *)
(***************************************************************************)

\* The package of a declaration: the first key its file name contains, unless
\* it contains one of four special names.
PackageOf(d) ==
  LET has == FilePatterns[d]
      found == {i \in 1 .. Len(keys) : keys[i] \in has}
  IN  IF "math.h" \in has THEN "language"
      ELSE IF "memalloc" \in has THEN "services"
      ELSE IF has \cap {"libc", "mathincl"} # {} THEN "language"
      ELSE IF found = {} THEN "empty"
      ELSE keys[CHOOSE i \in found : \A j \in found : i <= j]

\* Slip: a function that calls itself is followed.
FollowsItself(p, c) ==
  p # Root /\ phase # "traverseFunction" => c \in Definition

\* Whether the recursion goes on from callee c of p: not to a function of the
\* same name, and, in findMargin and findCallee, only to definitions.
Follows(p, c) ==
  p # Root =>
    /\ ~SameName(p, c)
    /\ phase # "traverseFunction" => c \in Definition

\* traverseFunction: each definition gets its package.
AddPackage(p, c) ==
  IF c \in Definition \ DOMAIN funcPackageMap
    THEN [d \in DOMAIN funcPackageMap \cup {c} |->
            IF d = c THEN PackageOf(c) ELSE funcPackageMap[d]]
    ELSE funcPackageMap

\* Slip: the indices of caller and callee are swapped.
AddSwappedMargin(p, c) ==
  IF p # Root /\ {p, c} \subseteq DOMAIN funcPackageMap
    THEN LET from == funcPackageMap[c]
             to == funcPackageMap[p]
         IN  IF from # to /\ {from, to} \subseteq Package
                /\ ~\E m \in callRelation : m.from = from /\ m.to = to /\ m.caller = p
               THEN callRelation \cup
                      {[from |-> from, to |-> to, caller |-> p, callee |-> c]}
               ELSE callRelation
    ELSE callRelation

\* Slip: a caller has one margin, whatever the package it calls.
AddFirstMargin(p, c) ==
  IF p # Root /\ {p, c} \subseteq DOMAIN funcPackageMap
    THEN LET from == funcPackageMap[p]
             to == funcPackageMap[c]
         IN  IF from # to /\ {from, to} \subseteq Package
                /\ ~\E m \in callRelation : m.caller = p
               THEN callRelation \cup
                      {[from |-> from, to |-> to, caller |-> p, callee |-> c]}
               ELSE callRelation
    ELSE callRelation

\* findMargin: a call from one package to another, unless the caller has one
\* between the two already (insert does not replace an element of a map).
AddMargin(p, c) ==
  IF p # Root /\ {p, c} \subseteq DOMAIN funcPackageMap
    THEN LET from == funcPackageMap[p]
             to == funcPackageMap[c]
         IN  IF from # to /\ {from, to} \subseteq Package
                /\ ~\E m \in callRelation : m.from = from /\ m.to = to /\ m.caller = p
               THEN callRelation \cup
                      {[from |-> from, to |-> to, caller |-> p, callee |-> c]}
               ELSE callRelation
    ELSE callRelation

\* Slip: the callees of the root count as called.
AddRootCallee(p, c) ==
  IF c \in DOMAIN funcPackageMap THEN callees \cup {c} ELSE callees

\* findCallee: a definition that some function calls.  (The list keeps one of
\* those that agree in name and type; only the names are used.)
AddCalled(p, c) ==
  IF p # Root /\ c \in DOMAIN funcPackageMap THEN callees \cup {c} ELSE callees
-----------------------------------------------------------------------------
AnalysisInit ==
  /\ Init
  /\ phase = "build"
  /\ stack = <<>>
  /\ funcPackageMap = [d \in {} |-> "empty"]
  /\ callRelation = {}
  /\ callees = {}
  /\ rootFunctions = {}

Build == phase = "build" /\ Next /\ UNCHANGED analysis

Called(n) == [node |-> n, rest |-> graph.callees[n]]

\* MergeFunctionMap returns and traverseFunction is called with the root.
StartTraversal ==
  /\ phase = "build"
  /\ Done
  /\ order' = <<>> /\ it' = 1 /\ it2' = 2
  /\ phase' = "traverseFunction"
  /\ stack' = <<Called(Root)>>
  /\ UNCHANGED <<program, visited, graph, funcPackageMap, callRelation, callees,
                 rootFunctions>>

\* One turn of the loop of the innermost frame.
VisitCallee ==
  /\ stack # <<>>
  /\ LET n == Len(stack)
         p == stack[n].node
     IN  \E c \in stack[n].rest :
           LET turned == [stack EXCEPT ![n].rest = @ \ {c}]
           IN  IF ~Follows(p, c)
                 THEN /\ stack' = turned
                      /\ UNCHANGED <<funcPackageMap, callRelation, callees>>
                 ELSE /\ n < MaxDepth
                      /\ stack' = Append(turned, Called(c))
                      /\ funcPackageMap' = IF phase = "traverseFunction"
                                             THEN AddPackage(p, c) ELSE funcPackageMap
                      /\ callRelation' = IF phase = "findMargin"
                                           THEN AddMargin(p, c) ELSE callRelation
                      /\ callees' = IF phase = "findCallee"
                                      THEN AddCalled(p, c) ELSE callees
  /\ UNCHANGED <<vars, phase, rootFunctions>>

\* The function that main calls next.
Following == [traverseFunction |-> "findMargin", findMargin |-> "findCallee",
              findCallee |-> "findRootCaller"]

\* The innermost loop is over; when it is the outermost call that returns,
\* main calls the next function with the root.
Return ==
  /\ stack # <<>>
  /\ stack[Len(stack)].rest = {}
  /\ IF Len(stack) > 1
       THEN stack' = SubSeq(stack, 1, Len(stack) - 1) /\ UNCHANGED phase
       ELSE /\ phase' = Following[phase]
            /\ stack' = IF phase' = "findRootCaller" THEN <<>> ELSE <<Called(Root)>>
  /\ UNCHANGED <<vars, funcPackageMap, callRelation, callees, rootFunctions>>

\* Slip: functions of no known package are put on a list as well.
findAnyRootCaller ==
  /\ phase = "findRootCaller"
  /\ rootFunctions' = {<<funcPackageMap[d], NameOf[d]>> :
                         d \in {e \in DOMAIN funcPackageMap :
                                  \A c \in callees : ~SameName(c, e)}}
  /\ phase' = "done"
  /\ UNCHANGED <<vars, stack, funcPackageMap, callRelation, callees>>

\* The definitions no callee has the name of, by package and name.
findRootCaller ==
  /\ phase = "findRootCaller"
  /\ rootFunctions' = {<<funcPackageMap[d], NameOf[d]>> :
                         d \in {e \in DOMAIN funcPackageMap :
                                  /\ funcPackageMap[e] # "empty"
                                  /\ \A c \in callees : ~SameName(c, e)}}
  /\ phase' = "done"
  /\ UNCHANGED <<vars, stack, funcPackageMap, callRelation, callees>>

AnalysisNext ==
  Build \/ StartTraversal \/ VisitCallee \/ Return \/ findRootCaller

AnalysisSpec == AnalysisInit /\ [][AnalysisNext]_allVars

\* The tool is one process that runs.
FairAnalysis == AnalysisSpec /\ WF_allVars(AnalysisNext)
-----------------------------------------------------------------------------
(***************************************************************************)
(* Properties.                                                             *)
(***************************************************************************)

\* The results are over the declarations and the ten packages: no list is
\* indexed with the -1 that getTypeIndex gives for "empty".
AnalysisTypeOK ==
  /\ phase \in Phase
  /\ stack \in Seq(Frame)
  /\ DOMAIN funcPackageMap \subseteq Definition
  /\ \A d \in DOMAIN funcPackageMap : funcPackageMap[d] \in Package \cup {"empty"}
  /\ callRelation \subseteq Margin
  /\ callees \subseteq DOMAIN funcPackageMap
  /\ rootFunctions \subseteq Package \X {NameOf[d] : d \in Decl}

\* A margin is a call of the program that crosses from the package of its
\* caller to the package of its callee, and there is one for each caller and
\* pair of packages.
MarginSound ==
  /\ \A m \in callRelation :
       /\ m.from = PackageOf(m.caller) /\ m.to = PackageOf(m.callee)
       /\ m.from # m.to
       /\ {m.caller, m.callee} \subseteq Definition
       /\ CallsByName(m.caller, m.callee)
  /\ \A m, n \in callRelation :
       m.from = n.from /\ m.to = n.to /\ m.caller = n.caller => m = n

\* The walked definitions.
WalkedDefinition == graph.FunctionMap \cap (Definition \ Skipped)

\* When the tool is done no crossing is missed: a definition that calls, by any
\* declaration, a function defined in another package has a margin to that
\* package, though perhaps not the one of this call.
MarginShown ==
  phase = "done" =>
    \A d, e \in WalkedDefinition : \A c \in VisitCallExpr(program.body[d]) :
      /\ OneFunction(c, e)
      /\ ~SameName(d, e)
      /\ PackageOf(d) # PackageOf(e)
      /\ "empty" \notin {PackageOf(d), PackageOf(e)}
      => \E m \in callRelation : m.caller = d /\ m.to = PackageOf(e)

\* The root callers of a package are the functions defined in it that no
\* function of another name calls, by whatever declaration.
RootCallersRight ==
  phase = "done" =>
    \A e \in WalkedDefinition :
      PackageOf(e) # "empty" =>
        (<<PackageOf(e), NameOf[e]>> \in rootFunctions
         <=> ~\E d \in WalkedDefinition : \E c \in VisitCallExpr(program.body[d]) :
               ~SameName(d, e) /\ SameName(c, e))

\* No two functions of different names call each other in a circle.
NoMutualRecursion ==
  \A S \in SUBSET (graph.FunctionMap \ {Root}) :
    S # {} => \E n \in S : \A c \in S : c \in graph.callees[n] => SameName(n, c)

\* Without mutual recursion the three traversals come to an end, functions
\* that call themselves and declarations merged with them included.
Ends == phase = "traverseFunction" /\ NoMutualRecursion ~> phase = "done"
=============================================================================
