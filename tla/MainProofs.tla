----------------------------- MODULE MainProofs -----------------------------
(***************************************************************************)
(* Proofs about Boundary and Main: whatever the program, the merge order   *)
(* and the order of the traversals, the results are well formed and every  *)
(* margin is a call of the program that crosses packages; for programs     *)
(* whose graph is complete, no such call is without a margin and the root  *)
(* callers are the functions nobody calls; and whatever fails in the front *)
(* end, what is analysed is what is in the source files, or the tool says  *)
(* that it is not.                                                         *)
(***************************************************************************)
EXTENDS Main, CallGraphProofs


\* The package of a declaration is one of the keys or "empty".
LEMMA PackageOfType ==
  ASSUME NEW d \in Decl
  PROVE  PackageOf(d) \in Package \cup {"empty"}
<1> DEFINE found == {i \in 1 .. Len(keys) : keys[i] \in FilePatterns[d]}
           first == CHOOSE i \in found : \A j \in found : i <= j
<1>1. CASE found = {}
  BY <1>1, KeysAssumption DEF PackageOf
<1>2. CASE found # {}
  <2>1. found \subseteq Nat
    OBVIOUS
  <2>4. \E i \in found : \A j \in found : i <= j
    <3> HIDE DEF found
    <3> QED
      BY <1>2, <2>1, LeastNumber
  <2>5. first \in found
    BY <2>4
  <2>6. keys[first] \in Package
    BY <2>5 DEF Package
  <2> QED
    BY <2>6, KeysAssumption DEF PackageOf
<1> QED
  BY <1>1, <1>2
-----------------------------------------------------------------------------
(***************************************************************************)
(* The invariant.  There are frames only during the traversals, when the   *)
(* graph is final, and a loop only has callees of its node before it.      *)
(***************************************************************************)
FramesOnGraph ==
  /\ stack # <<>> => phase \in {"traverseFunction", "findMargin", "findCallee"}
  /\ \A i \in 1 .. Len(stack) : stack[i].rest \subseteq graph.callees[stack[i].node]

PackagesRight ==
  \A d \in DOMAIN funcPackageMap : funcPackageMap[d] = PackageOf(d)

AInv == IInv /\ AnalysisTypeOK /\ FramesOnGraph /\ PackagesRight /\ MarginSound

\* A frame of a node has only callees of the node before it.
LEMMA CalledFrame ==
  ASSUME IInv, NEW n \in Node
  PROVE  Called(n) \in Frame /\ Called(n).rest \subseteq graph.callees[n]
                             /\ Called(n).node = n
  BY DEF Called, Frame, IInv, TypeOK, Graph

\* A new margin is a call that crosses packages, and the only one of its caller
\* between these packages.
LEMMA AddMarginSound ==
  ASSUME AInv, NEW p \in Node, NEW c \in graph.callees[p], c \in Decl,
         callRelation' = AddMargin(p, c), UNCHANGED program
  PROVE  callRelation' \subseteq Margin /\ MarginSound'
<1> DEFINE from == funcPackageMap[p]
           to == funcPackageMap[c]
           m0 == [from |-> from, to |-> to, caller |-> p, callee |-> c]
<1>1. CASE callRelation' = callRelation
  BY <1>1 DEF AInv, AnalysisTypeOK, MarginSound, CallsByName
<1>2. CASE callRelation' # callRelation
  <2>1. /\ p \in Decl /\ {p, c} \subseteq DOMAIN funcPackageMap
        /\ from # to /\ {from, to} \subseteq Package
        /\ ~\E m \in callRelation : m.from = from /\ m.to = to /\ m.caller = p
        /\ callRelation' = callRelation \cup {m0}
    BY <1>2 DEF AddMargin, Node
  <2>2. m0 \in Margin
    BY <2>1 DEF Margin
  <2>3. from = PackageOf(p) /\ to = PackageOf(c) /\ {p, c} \subseteq Definition
    BY <2>1 DEF AInv, PackagesRight, AnalysisTypeOK
  <2>4. CallsByName(p, c)
    BY <2>1, EdgeIsCall DEF AInv
  <2> HIDE DEF from, to
  <2>5. \A m \in callRelation' :
          /\ m.from = PackageOf(m.caller) /\ m.to = PackageOf(m.callee)
          /\ m.from # m.to
          /\ {m.caller, m.callee} \subseteq Definition
          /\ CallsByName(m.caller, m.callee)
    BY <2>1, <2>3, <2>4 DEF AInv, MarginSound
  <2>6. \A m, n \in callRelation' :
          m.from = n.from /\ m.to = n.to /\ m.caller = n.caller => m = n
    BY <2>1 DEF AInv, MarginSound
  <2> QED
    BY <2>1, <2>2, <2>5, <2>6 DEF AInv, AnalysisTypeOK, MarginSound, CallsByName
<1> QED
  BY <1>1, <1>2
-----------------------------------------------------------------------------
(***************************************************************************)
(* The induction.                                                          *)
(***************************************************************************)

\* At the start there are no results.
LEMMA InitAInv == AnalysisInit => AInv
<1> SUFFICES ASSUME AnalysisInit PROVE AInv
  OBVIOUS
<1>1. IInv
  BY InitIInv DEF AnalysisInit
<1>2. AnalysisTypeOK
  BY DEF AnalysisInit, AnalysisTypeOK, Phase
<1>3. FramesOnGraph /\ PackagesRight /\ MarginSound
  BY DEF AnalysisInit, FramesOnGraph, PackagesRight, MarginSound
<1> QED
  BY <1>1, <1>2, <1>3 DEF AInv

\* The graph's invariant does not depend on what the analysis changes.
LEMMA SameGraph ==
  ASSUME IInv, UNCHANGED vars
  PROVE  IInv'
  BY NextIInv

\* One turn of a loop keeps the invariant.
LEMMA VisitCalleeAInv ==
  ASSUME AInv, VisitCallee
  PROVE  AInv'
<1> DEFINE n == Len(stack)
           p == stack[n].node
<1>1. /\ IInv' /\ UNCHANGED <<program, graph, phase, rootFunctions>>
  BY SameGraph DEF AInv, VisitCallee, vars
<1>2. n \in 1 .. Len(stack) /\ stack \in Seq(Frame)
  BY DEF VisitCallee, AInv, AnalysisTypeOK
<1>3. p \in Node /\ stack[n].rest \subseteq graph.callees[p]
  <2> HIDE DEF n
  <2>1. stack[n] \in Frame
    BY <1>2
  <2>2. p \in Node
    BY <2>1 DEF Frame
  <2> QED
    BY <1>2, <2>2 DEF AInv, FramesOnGraph
<1> HIDE DEF n
<1>4. PICK c \in stack[n].rest :
        LET turned == [stack EXCEPT ![n].rest = @ \ {c}]
        IN  \/ /\ stack' = turned
               /\ UNCHANGED <<funcPackageMap, callRelation, callees>>
            \/ /\ stack' = Append(turned, Called(c))
               /\ funcPackageMap' = funcPackageMap \/ funcPackageMap' = AddPackage(p, c)
               /\ callRelation' = callRelation \/ callRelation' = AddMargin(p, c)
               /\ callees' = callees \/ callees' = AddCalled(p, c)
  BY DEF VisitCallee, n
<1> DEFINE turned == [stack EXCEPT ![n].rest = @ \ {c}]
<1>5. c \in Decl /\ c \in graph.callees[p]
  BY <1>3, <1>4 DEF AInv, IInv, Good, Hung, TypeOK, Graph, Node
<1>6. turned \in Seq(Frame) /\ Len(turned) = Len(stack)
  <2>1. stack[n] \in Frame
    BY <1>2
  <2>2. [stack[n] EXCEPT !.rest = @ \ {c}] \in Frame
    BY <2>1 DEF Frame
  <2>3. turned = [stack EXCEPT ![n] = [stack[n] EXCEPT !.rest = @ \ {c}]]
    OBVIOUS
  <2> QED
    BY <1>2, <2>2, <2>3
<1>7. \A i \in 1 .. Len(turned) : turned[i].rest \subseteq graph.callees[turned[i].node]
  BY <1>2 DEF AInv, FramesOnGraph, Frame
<1>8. Called(c) \in Frame /\ Called(c).rest \subseteq graph.callees[Called(c).node]
  BY <1>5, CalledFrame DEF AInv, Node
<1> HIDE DEF turned
<1>9. stack' \in Seq(Frame) /\ FramesOnGraph'
  <2>1. stack' = turned \/ stack' = Append(turned, Called(c))
    BY <1>4 DEF turned
  <2>2. phase \in {"traverseFunction", "findMargin", "findCallee"}
    BY DEF AInv, FramesOnGraph, VisitCallee
  <2> QED
    BY <1>1, <1>6, <1>7, <1>8, <2>1, <2>2 DEF FramesOnGraph
<1>10. /\ DOMAIN funcPackageMap \subseteq DOMAIN funcPackageMap'
       /\ DOMAIN funcPackageMap' \subseteq Definition
       /\ PackagesRight'
  BY <1>4 DEF AddPackage, AInv, PackagesRight, AnalysisTypeOK
<1>11. \A d \in DOMAIN funcPackageMap' : funcPackageMap'[d] \in Package \cup {"empty"}
  BY <1>10, PackageOfType, SourceAssumption DEF PackagesRight
<1>12. callees' \subseteq DOMAIN funcPackageMap'
  BY <1>4, <1>10 DEF AddCalled, AInv, AnalysisTypeOK
<1>13. callRelation' \subseteq Margin /\ MarginSound'
  <2>1. CASE callRelation' = callRelation
    BY <1>1, <2>1 DEF AInv, AnalysisTypeOK, MarginSound, CallsByName
  <2>2. CASE callRelation' = AddMargin(p, c)
    <3> HIDE DEF p
    <3> QED
      BY <1>1, <1>3, <1>5, <2>2, AddMarginSound
  <2> QED
    BY <1>4, <2>1, <2>2
<1> QED
  BY <1>1, <1>9, <1>10, <1>11, <1>12, <1>13 DEF AInv, AnalysisTypeOK

\* Every step keeps the invariant.
LEMMA AnalysisNextAInv == AInv /\ [AnalysisNext]_allVars => AInv'
<1> SUFFICES ASSUME AInv, [AnalysisNext]_allVars PROVE AInv'
  OBVIOUS
<1>1. CASE Build
  <2>1. IInv' /\ UNCHANGED <<program, analysis>>
    BY <1>1, NextIInv DEF Build, AInv, Next, VisitFunctionDecl, StartMerge, MergePair
  <2>2. FramesOnGraph'
    BY <1>1, <2>1 DEF Build, FramesOnGraph, analysis, AInv
  <2> QED
    BY <2>1, <2>2 DEF AInv, analysis, AnalysisTypeOK, PackagesRight, MarginSound, CallsByName
<1>2. CASE StartTraversal
  <2>1. Root \in Node
    BY DEF Node
  <2>2. IInv'
    <3>1. UNCHANGED <<program, visited, graph>> /\ order' = <<>> /\ it' = 1 /\ it2' = 2
      BY <1>2 DEF StartTraversal
    <3>2. TypeOK' /\ Good(graph)' /\ OrderOnMap' /\ IteratorsFresh'
      BY <1>2, <3>1 DEF AInv, IInv, TypeOK, Good, Hung, Mirror, OrderOnMap, IteratorsFresh
    <3>3. Sound(ByName, graph)'
      BY <3>1, SoundPrime DEF AInv, IInv
    <3> QED
      BY <3>2, <3>3 DEF IInv
  <2>3. stack' = <<Called(Root)>> /\ UNCHANGED graph /\ phase' = "traverseFunction"
    BY <1>2 DEF StartTraversal
  <2>4. stack' \in Seq(Frame) /\ FramesOnGraph'
    BY <2>1, <2>3, CalledFrame DEF AInv, FramesOnGraph
  <2> QED
    BY <1>2, <2>2, <2>3, <2>4 DEF StartTraversal, AInv, AnalysisTypeOK, PackagesRight,
                                  MarginSound, CallsByName, Phase
<1>3. CASE VisitCallee
  BY <1>3, VisitCalleeAInv
<1>4. CASE Return
  <2>1. IInv' /\ UNCHANGED <<program, graph>>
    BY <1>4, SameGraph DEF AInv, Return, vars
  <2>2. stack' \in Seq(Frame) /\ FramesOnGraph' /\ phase' \in Phase
    <3>1. CASE Len(stack) > 1
      BY <1>4, <2>1, <3>1 DEF Return, AInv, AnalysisTypeOK, FramesOnGraph
    <3>2. CASE ~(Len(stack) > 1)
      <4>1. Called(Root) \in Frame /\ Called(Root).rest \subseteq graph.callees[Root]
                                  /\ Called(Root).node = Root
        BY CalledFrame DEF AInv, Node
      <4>2. phase' = Following[phase] /\ stack' \in {<<>>, <<Called(Root)>>}
        BY <1>4, <3>2 DEF Return
      <4>3. phase \in {"traverseFunction", "findMargin", "findCallee"}
        BY <1>4 DEF Return, AInv, AnalysisTypeOK, FramesOnGraph, Phase
      <4>4. /\ phase' \in Phase
            /\ phase' = "findRootCaller" => stack' = <<>>
            /\ phase' # "findRootCaller" => phase' \in {"findMargin", "findCallee"}
        <5>1. phase' = Following[phase]
          BY <4>2
        <5>2. phase' \in {"findMargin", "findCallee", "findRootCaller"}
          BY <4>3, <5>1 DEF Following
        <5>3. phase' = "findRootCaller" => stack' = <<>>
          BY <1>4, <3>2 DEF Return
        <5> QED
          BY <5>2, <5>3 DEF Phase
      <4>5. stack' \in Seq(Frame)
        <5>1. CASE stack' = <<>>
          BY <5>1
        <5>2. CASE stack' = <<Called(Root)>>
          BY <4>1, <5>2
        <5> QED
          BY <4>2, <5>1, <5>2
      <4>6. \A i \in 1 .. Len(stack') : stack'[i].rest \subseteq graph.callees[stack'[i].node]
        <5>1. CASE stack' = <<>>
          BY <5>1
        <5>2. CASE stack' = <<Called(Root)>>
          BY <4>1, <5>2
        <5> QED
          BY <4>2, <5>1, <5>2
      <4> QED
        BY <2>1, <4>4, <4>5, <4>6 DEF FramesOnGraph
    <3> QED
      BY <3>1, <3>2
  <2> QED
    BY <1>4, <2>1, <2>2 DEF Return, AInv, AnalysisTypeOK, PackagesRight, MarginSound, CallsByName
<1>5. CASE findRootCaller
  <2>1. IInv' /\ UNCHANGED <<program, graph>>
    BY <1>5, SameGraph DEF AInv, findRootCaller, vars
  <2>2. rootFunctions' \subseteq Package \X {NameOf[d] : d \in Decl}
    BY <1>5, SourceAssumption DEF findRootCaller, AInv, AnalysisTypeOK
  <2> QED
    BY <1>5, <2>1, <2>2 DEF findRootCaller, AInv, AnalysisTypeOK, FramesOnGraph,
                            PackagesRight, MarginSound, CallsByName, Phase
<1>6. CASE UNCHANGED allVars
  <2>1. IInv' /\ UNCHANGED <<program, graph, analysis>>
    BY <1>6, SameGraph DEF AInv, allVars, vars
  <2> QED
    BY <2>1 DEF analysis, AInv, AnalysisTypeOK, FramesOnGraph, PackagesRight, MarginSound,
                CallsByName
<1> QED
  BY <1>1, <1>2, <1>3, <1>4, <1>5, <1>6 DEF AnalysisNext

\* The invariant holds in every state of the tool.
LEMMA SpecAInv == AnalysisSpec => []AInv
  BY InitAInv, AnalysisNextAInv, PTL DEF AnalysisSpec
-----------------------------------------------------------------------------
(***************************************************************************)
(* The theorems.                                                           *)
(***************************************************************************)

\* The results of the analysis are over declarations and the packages of keys:
\* rootFunctions and callRelation are never indexed with -1 (main.cpp:257, 332).
THEOREM AnalysisTypeCorrect == AnalysisSpec => []AnalysisTypeOK
<1>1. AInv => AnalysisTypeOK
  BY DEF AInv
<1> QED
  BY <1>1, SpecAInv, PTL

\* Every margin that findMargin records is a call of the program, up to the
\* names the merge identifies, that leaves the package of its caller.
THEOREM AlwaysMarginSound == AnalysisSpec => []MarginSound
<1>1. AInv => MarginSound
  BY DEF AInv
<1> QED
  BY <1>1, SpecAInv, PTL
-----------------------------------------------------------------------------
(***************************************************************************)
(* Nothing is missed.  That takes a graph that has every call and every    *)
(* declaration of what is called (WalkInv and Joined), and traversals that *)
(* have been everywhere.  The second rests on the outermost two calls of   *)
(* each traversal: the loop of the root comes to every node, and the call  *)
(* for that node to each of its callees; whatever the deeper calls do only *)
(* adds results.                                                           *)
(***************************************************************************)

\* The declarations of a function have the same callers.
Joined ==
  \A d, e \in graph.FunctionMap \ {Root} :
    OneFunction(d, e) => graph.parents[d] = graph.parents[e]

BuiltInv ==
  /\ WalkInv /\ MapInv
  /\ phase = "build" => OrderIsMap /\ ParentsInv
  /\ phase # "build" => ~Walking /\ Joined

\* At the start nothing is built.
LEMMA InitBuilt == AnalysisInit => BuiltInv
  BY InitWalk, InitMap, InitParents DEF AnalysisInit, BuiltInv

\* Every step preserves it.
LEMMA NextBuilt ==
  ASSUME DefinedBeforeCalled, NamesApart
  PROVE  AInv /\ BuiltInv /\ [AnalysisNext]_allVars => BuiltInv'
<1> SUFFICES ASSUME AInv, BuiltInv, [AnalysisNext]_allVars PROVE BuiltInv'
  OBVIOUS
<1>1. CASE Build
  <2>1. phase = "build" /\ phase' = "build" /\ Next
    BY <1>1 DEF Build, analysis
  <2>2. WalkInv' /\ MapInv' /\ OrderIsMap' /\ ParentsInv'
    BY <2>1, NextWalk, NextMap, NextOrderIsMap, NextParents DEF AInv, BuiltInv
  <2> QED
    BY <2>1, <2>2 DEF BuiltInv
<1>2. CASE StartTraversal
  <2>1. UNCHANGED <<program, visited, graph>> /\ phase = "build" /\ phase' # "build" /\ Done
    BY <1>2 DEF StartTraversal
  <2>2. WalkInv' /\ MapInv'
    BY <2>1 DEF BuiltInv, WalkInv, MapInv, Walked
  <2>3. Joined
    BY <2>1, JoinedAtEnd DEF BuiltInv, AInv, Joined
  <2>4. Joined' /\ ~Walking'
    BY <2>1, <2>3 DEF Joined, Walking, Done, Merging, AInv, IInv, TypeOK
  <2> QED
    BY <2>1, <2>2, <2>4 DEF BuiltInv
<1>3. CASE UNCHANGED vars /\ (phase' = "build" => phase = "build")
           /\ (phase = "build" => phase' = "build")
  BY <1>3 DEF vars, BuiltInv, WalkInv, Walked, MapInv, OrderIsMap, Merging, ParentsInv, Index,
              Together, Passed, IsFirst, IsLast, Has, Full, Walking, Joined
<1>4. CASE VisitCallee \/ findRootCaller \/ UNCHANGED allVars
  <2>1. UNCHANGED vars /\ (phase' = phase \/ (phase = "findRootCaller" /\ phase' = "done"))
    BY <1>4 DEF VisitCallee, findRootCaller, allVars, analysis
  <2> QED
    BY <1>3, <2>1
<1>5. CASE Return
  <2>1. phase \in {"traverseFunction", "findMargin", "findCallee"} /\ UNCHANGED vars
    BY <1>5 DEF Return, AInv, FramesOnGraph
  <2>2. phase' # "build"
    BY <1>5, <2>1 DEF Return, Following
  <2> QED
    BY <1>3, <2>1, <2>2
<1> QED
  BY <1>1, <1>2, <1>4, <1>5 DEF AnalysisNext

\* The traversals find a complete graph.
LEMMA SpecBuilt ==
  ASSUME DefinedBeforeCalled, NamesApart
  PROVE  AnalysisSpec => []BuiltInv
  BY InitBuilt, NextBuilt, SpecAInv, PTL DEF AnalysisSpec

\* What the loops do with a node and with one of its callees.
Entered(p) == p \in Definition => p \in DOMAIN funcPackageMap

Crosses(p, c) ==
  /\ p \in Definition /\ c \in Definition /\ ~SameName(p, c)
  /\ PackageOf(p) # PackageOf(c) /\ {PackageOf(p), PackageOf(c)} \subseteq Package
Shown(p, c) ==
  Crosses(p, c) => \E m \in callRelation : m.caller = p /\ m.to = PackageOf(c)

Noted(p, c) == c \in Definition /\ ~SameName(p, c) => c \in callees

Treated(p, c) ==
  /\ phase = "findMargin" => Shown(p, c)
  /\ phase = "findCallee" => Noted(p, c)

\* What the outermost loop has come past is entered, and what the loop of the
\* call it has made last has come past is treated.
LoopInv ==
  /\ phase \in {"traverseFunction", "findMargin", "findCallee"} => stack # <<>>
  /\ stack # <<>> =>
       /\ stack[1].node = Root
       /\ \A p \in graph.callees[Root] \ stack[1].rest :
            /\ Entered(p)
            /\ \A c \in graph.callees[p] :
                 \/ Treated(p, c)
                 \/ Len(stack) > 1 /\ stack[2].node = p /\ c \in stack[2].rest

\* What a traversal leaves behind.
AfterInv ==
  /\ phase \in {"findMargin", "findCallee", "findRootCaller", "done"} =>
       \A p \in graph.callees[Root] : Entered(p)
  /\ phase \in {"findCallee", "findRootCaller", "done"} =>
       \A p \in graph.callees[Root] : \A c \in graph.callees[p] : Shown(p, c)
  /\ phase \in {"findRootCaller", "done"} =>
       \A p \in graph.callees[Root] : \A c \in graph.callees[p] : Noted(p, c)

\* The list of callees has only what a function of another name calls, and the
\* root callers are what findRootCaller makes of it.
ListsRight ==
  /\ phase = "build" => callees = {}
  /\ \A c \in callees : \E p \in Decl : c \in graph.callees[p] /\ ~SameName(p, c)
  /\ phase = "done" =>
       rootFunctions = {<<funcPackageMap[d], NameOf[d]>> :
                          d \in {e \in DOMAIN funcPackageMap :
                                   /\ funcPackageMap[e] # "empty"
                                   /\ \A c \in callees : ~SameName(c, e)}}

DInv == LoopInv /\ AfterInv /\ ListsRight

\* The callees of the root are the nodes.
LEMMA RootCallees ==
  ASSUME IInv
  PROVE  graph.callees[Root] = graph.FunctionMap \ {Root} /\ graph.callees[Root] \subseteq Decl
  BY DEF IInv, Good, Hung, Mirror, Graph, Node

\* One turn of a loop, with every place of the stack.
Turn(n, p, c) ==
  /\ c \in stack[n].rest /\ c \in Decl /\ c \in graph.callees[p]
  /\ \A i \in 1 .. n - 1 : stack'[i] = stack[i]
  /\ stack'[n].node = p /\ stack'[n].rest = stack[n].rest \ {c}
  /\ Len(stack') \in {n, n + 1}
  /\ ~Follows(p, c) => Len(stack') = n
  /\ Len(stack') = n + 1 => stack'[n + 1] = Called(c)
  /\ DOMAIN funcPackageMap \subseteq DOMAIN funcPackageMap'
  /\ callRelation \subseteq callRelation' /\ callees \subseteq callees'
  /\ Follows(p, c) =>
       /\ Len(stack') = n + 1
       /\ phase = "traverseFunction" => funcPackageMap' = AddPackage(p, c)
       /\ phase = "findMargin" => callRelation' = AddMargin(p, c)
       /\ phase = "findCallee" => callees' = AddCalled(p, c)
  /\ callees' # callees => phase = "findCallee" /\ Follows(p, c)

\* Each step of VisitCallee is such a turn of the innermost loop.
LEMMA VisitCalleeTurn ==
  ASSUME AInv, VisitCallee, NEW n, n = Len(stack), NEW p, p = stack[n].node
  PROVE  \E c : Turn(n, p, c)
<1>1. n \in 1 .. Len(stack) /\ stack \in Seq(Frame) /\ n \in Nat \ {0}
  BY DEF VisitCallee, AInv, AnalysisTypeOK
<1>2. stack[n] \in Frame
  BY <1>1
<1>3. p \in Node /\ stack[n].rest \subseteq graph.callees[p]
  BY <1>1, <1>2 DEF AInv, FramesOnGraph, Frame
<1>4. PICK c \in stack[n].rest :
        LET turned == [stack EXCEPT ![n].rest = @ \ {c}]
        IN  IF ~Follows(p, c)
              THEN /\ stack' = turned
                   /\ UNCHANGED <<funcPackageMap, callRelation, callees>>
              ELSE /\ stack' = Append(turned, Called(c))
                   /\ funcPackageMap' = IF phase = "traverseFunction"
                                          THEN AddPackage(p, c) ELSE funcPackageMap
                   /\ callRelation' = IF phase = "findMargin"
                                        THEN AddMargin(p, c) ELSE callRelation
                   /\ callees' = IF phase = "findCallee"
                                   THEN AddCalled(p, c) ELSE callees
  BY DEF VisitCallee
<1> DEFINE turned == [stack EXCEPT ![n].rest = @ \ {c}]
<1>5. c \in Decl /\ c \in graph.callees[p]
  BY <1>3, <1>4 DEF AInv, IInv, Good, Hung, TypeOK, Graph, Node
<1>6. /\ turned \in Seq(Frame) /\ Len(turned) = n
      /\ \A i \in 1 .. n - 1 : turned[i] = stack[i]
      /\ turned[n].node = p /\ turned[n].rest = stack[n].rest \ {c}
  <2>1. [stack[n] EXCEPT !.rest = @ \ {c}] \in Frame
    BY <1>2 DEF Frame
  <2>2. turned = [stack EXCEPT ![n] = [stack[n] EXCEPT !.rest = @ \ {c}]]
    OBVIOUS
  <2> QED
    BY <1>1, <1>2, <2>1, <2>2 DEF Frame
<1> HIDE DEF turned
<1>7. DOMAIN funcPackageMap \subseteq DOMAIN AddPackage(p, c)
  BY DEF AddPackage
<1>8. callRelation \subseteq AddMargin(p, c)
  BY DEF AddMargin
<1>9. callees \subseteq AddCalled(p, c)
  BY DEF AddCalled
<1>10. CASE ~Follows(p, c)
  <2>1. stack' = turned /\ UNCHANGED <<funcPackageMap, callRelation, callees>>
    BY <1>4, <1>10 DEF turned
  <2>2. Turn(n, p, c)
    BY <1>1, <1>4, <1>5, <1>6, <1>10, <2>1 DEF Turn
  <2> QED
    BY <2>2
<1>11. CASE Follows(p, c)
  <2>1. stack' = Append(turned, Called(c))
    BY <1>4, <1>11 DEF turned
  <2>2. /\ Len(stack') = n + 1 /\ stack'[n + 1] = Called(c)
        /\ \A i \in 1 .. n : stack'[i] = turned[i]
    BY <1>1, <1>6, <2>1
  <2>3. /\ phase = "traverseFunction" => funcPackageMap' = AddPackage(p, c)
        /\ phase # "traverseFunction" => funcPackageMap' = funcPackageMap
        /\ phase = "findMargin" => callRelation' = AddMargin(p, c)
        /\ phase # "findMargin" => callRelation' = callRelation
        /\ phase = "findCallee" => callees' = AddCalled(p, c)
        /\ phase # "findCallee" => callees' = callees
    BY <1>4, <1>11
  <2>4. /\ \A i \in 1 .. n - 1 : stack'[i] = stack[i]
        /\ stack'[n].node = p /\ stack'[n].rest = stack[n].rest \ {c}
    BY <1>1, <1>6, <2>2
  <2>5. /\ DOMAIN funcPackageMap \subseteq DOMAIN funcPackageMap'
        /\ callRelation \subseteq callRelation' /\ callees \subseteq callees'
    BY <1>7, <1>8, <1>9, <2>3
  <2> QED
    BY <1>4, <1>5, <1>11, <2>2, <2>3, <2>4, <2>5 DEF Turn
<1> QED
  BY <1>10, <1>11

\* Results once there stay, so that what is entered or treated remains so.
LEMMA TreatedStays ==
  ASSUME NEW p, NEW c, phase' = phase,
         DOMAIN funcPackageMap \subseteq DOMAIN funcPackageMap',
         callRelation \subseteq callRelation', callees \subseteq callees'
  PROVE  /\ Entered(p) => Entered(p)'
         /\ Shown(p, c) => Shown(p, c)'
         /\ Noted(p, c) => Noted(p, c)'
         /\ Treated(p, c) => Treated(p, c)'
<1>1. Entered(p) => Entered(p)'
  BY DEF Entered
<1>2. Shown(p, c) => Shown(p, c)'
  BY DEF Shown, Crosses, PackageOf
<1>3. Noted(p, c) => Noted(p, c)'
  BY DEF Noted
<1> QED
  BY <1>1, <1>2, <1>3 DEF Treated

\* The loop of a definition does what it is for with each callee it comes to.
LEMMA CalleeTreated ==
  ASSUME AInv, AfterInv, NEW n, NEW p \in graph.callees[Root], NEW c \in graph.callees[p],
         Turn(n, p, c), phase' = phase
  PROVE  Treated(p, c)'
<1>1. p \in Decl /\ p # Root /\ c \in graph.callees[Root]
  BY RootCallees, SourceAssumption DEF AInv, IInv, Good, Hung, Mirror, Graph, Node, TypeOK
<1>2. ASSUME phase = "findMargin" PROVE Shown(p, c)'
  <2> SUFFICES ASSUME Crosses(p, c) PROVE \E m \in callRelation' : m.caller = p /\ m.to = PackageOf(c)
    BY DEF Shown, Crosses, PackageOf
  <2>1. Follows(p, c)
    BY DEF Crosses, Follows
  <2>2. callRelation' = AddMargin(p, c)
    BY <1>2, <2>1 DEF Turn
  <2>3. {p, c} \subseteq DOMAIN funcPackageMap
    BY <1>1, <1>2 DEF AfterInv, Entered, Crosses
  <2>4. funcPackageMap[p] = PackageOf(p) /\ funcPackageMap[c] = PackageOf(c)
    BY <2>3 DEF AInv, PackagesRight
  <2>5. CASE \E m \in callRelation : m.from = PackageOf(p) /\ m.to = PackageOf(c) /\ m.caller = p
    BY <2>5 DEF Turn
  <2>6. CASE ~\E m \in callRelation : m.from = PackageOf(p) /\ m.to = PackageOf(c) /\ m.caller = p
    <3>1. callRelation' = callRelation \cup
             {[from |-> PackageOf(p), to |-> PackageOf(c), caller |-> p, callee |-> c]}
      BY <1>1, <2>2, <2>3, <2>4, <2>6 DEF AddMargin, Crosses
    <3>2. [from |-> PackageOf(p), to |-> PackageOf(c), caller |-> p, callee |-> c]
            \in callRelation'
      BY <3>1
    <3> QED
      BY <3>2
  <2> QED
    BY <2>5, <2>6
<1>3. ASSUME phase = "findCallee" PROVE Noted(p, c)'
  <2> SUFFICES ASSUME c \in Definition, ~SameName(p, c) PROVE c \in callees'
    BY DEF Noted
  <2>1. Follows(p, c)
    BY DEF Follows
  <2>2. callees' = AddCalled(p, c)
    BY <1>3, <2>1 DEF Turn
  <2>3. c \in DOMAIN funcPackageMap
    BY <1>1, <1>3 DEF AfterInv, Entered
  <2> QED
    BY <1>1, <2>2, <2>3 DEF AddCalled
<1> QED
  BY <1>2, <1>3 DEF Treated

\* The first call of a loop enters its node in the table of packages.
LEMMA NodeEntered ==
  ASSUME AInv, AfterInv, NEW n, NEW c, Turn(n, Root, c), phase' = phase,
         phase \in {"traverseFunction", "findMargin", "findCallee"}
  PROVE  Entered(c)'
<1>1. Follows(Root, c)
  BY DEF Follows
<1>2. CASE phase = "traverseFunction"
  <2>1. funcPackageMap' = AddPackage(Root, c)
    BY <1>1, <1>2 DEF Turn
  <2> QED
    BY <2>1 DEF AddPackage, Entered
<1>3. CASE phase # "traverseFunction"
  <2>1. Entered(c)
    BY <1>3 DEF AfterInv, Turn
  <2> QED
    BY <2>1 DEF Turn, Entered
<1> QED
  BY <1>2, <1>3

\* One turn of a loop.
LEMMA VisitCalleeDInv ==
  ASSUME AInv, DInv, VisitCallee
  PROVE  DInv'
<1>1. /\ UNCHANGED <<vars, phase, rootFunctions>> /\ stack # <<>>
      /\ UNCHANGED graph
      /\ phase \in {"traverseFunction", "findMargin", "findCallee"}
      /\ stack \in Seq(Frame)
  BY DEF VisitCallee, vars, AInv, AnalysisTypeOK, FramesOnGraph
<1>2. PICK n \in 1 .. Len(stack) : n = Len(stack)
  BY <1>1
<1>3. PICK p : p = stack[n].node
  OBVIOUS
<1>4. PICK c : Turn(n, p, c)
  BY <1>2, <1>3, VisitCalleeTurn
<1>5. /\ DOMAIN funcPackageMap \subseteq DOMAIN funcPackageMap'
      /\ callRelation \subseteq callRelation' /\ callees \subseteq callees'
  BY <1>4 DEF Turn
<1>6. AfterInv'
  BY <1>1, <1>5, TreatedStays DEF DInv, AfterInv
<1>7. ListsRight'
  <2>1. callees' = callees \/ (callees' = AddCalled(p, c) /\ Follows(p, c))
    BY <1>4 DEF Turn
  <2>2. ASSUME NEW d \in callees' PROVE \E q \in Decl : d \in graph.callees[q] /\ ~SameName(q, d)
    <3>1. CASE d \in callees
      BY <3>1 DEF DInv, ListsRight
    <3>2. CASE d \notin callees
      <4>1. p # Root /\ d = c /\ Follows(p, c)
        BY <2>1, <2>2, <3>2 DEF AddCalled
      <4>2. p \in Decl
        <5>1. stack[n] \in Frame
          BY <1>1, <1>2
        <5> QED
          BY <1>3, <4>1, <5>1 DEF Frame, Node
      <4>3. c \in graph.callees[p] /\ ~SameName(p, c)
        BY <1>4, <4>1 DEF Turn, Follows
      <4> QED
        BY <4>1, <4>2, <4>3
    <3> QED
      BY <3>1, <3>2
  <2> QED
    BY <1>1, <2>2 DEF ListsRight, DInv
<1>8. LoopInv'
  <2>1. /\ stack' # <<>> /\ stack'[1].node = Root
    <3>1. CASE n = 1
      BY <1>1, <1>2, <1>3, <1>4, <3>1 DEF Turn, DInv, LoopInv
    <3>2. CASE n # 1
      BY <1>1, <1>2, <1>3, <1>4, <3>2 DEF Turn, DInv, LoopInv
    <3> QED
      BY <3>1, <3>2
  <2>2. ASSUME NEW q \in graph.callees[Root] \ stack'[1].rest
        PROVE  /\ Entered(q)'
               /\ \A d \in graph.callees[q] :
                    \/ Treated(q, d)'
                    \/ Len(stack') > 1 /\ stack'[2].node = q /\ d \in stack'[2].rest
    <3>1. CASE n = 1
      <4>1. p = Root /\ Follows(p, c)
        BY <1>1, <1>3, <3>1 DEF DInv, LoopInv, Follows
      <4>2. /\ stack'[1].rest = stack[1].rest \ {c} /\ Len(stack') = 2
            /\ stack'[2] = Called(c)
        BY <1>4, <3>1, <4>1 DEF Turn
      <4>3. CASE q = c
        <5>1. Entered(q)'
          BY <1>1, <1>4, <4>1, <4>3, NodeEntered DEF DInv
        <5>2. stack'[2].node = q /\ stack'[2].rest = graph.callees[q]
          BY <4>2, <4>3 DEF Called
        <5> QED
          BY <4>2, <5>1, <5>2
      <4>4. CASE q # c
        <5>1. /\ Entered(q)
              /\ \A d \in graph.callees[q] : Treated(q, d)
          BY <1>1, <1>2, <2>2, <3>1, <4>2, <4>4 DEF DInv, LoopInv
        <5> QED
          BY <1>1, <1>5, <5>1, TreatedStays
      <4> QED
        BY <4>3, <4>4
    <3>2. CASE n = 2
      <4>1. /\ stack'[1] = stack[1] /\ Len(stack') > 1
            /\ stack'[2].node = p /\ stack'[2].rest = stack[2].rest \ {c}
            /\ c \in graph.callees[p]
        BY <1>4, <3>2 DEF Turn
      <4>2. /\ Entered(q)
            /\ \A d \in graph.callees[q] :
                 Treated(q, d) \/ (p = q /\ d \in stack[2].rest)
        BY <1>1, <1>3, <2>2, <3>2, <4>1 DEF DInv, LoopInv
      <4>3. Entered(q)'
        BY <1>1, <1>5, <4>2, TreatedStays
      <4>4. ASSUME NEW d \in graph.callees[q], ~(stack'[2].node = q /\ d \in stack'[2].rest)
            PROVE  Treated(q, d)'
        <5>1. CASE Treated(q, d)
          BY <1>1, <1>5, <5>1, TreatedStays
        <5>2. CASE p = q /\ d = c
          BY <1>1, <1>4, <2>2, <5>2, CalleeTreated DEF DInv
        <5> QED
          BY <4>1, <4>2, <4>4, <5>1, <5>2
      <4> QED
        BY <4>1, <4>3, <4>4
    <3>3. CASE n > 2
      <4>1. stack'[1] = stack[1] /\ stack'[2] = stack[2] /\ Len(stack') > 1
        BY <1>4, <3>3 DEF Turn
      <4>2. /\ Entered(q)
            /\ \A d \in graph.callees[q] :
                 Treated(q, d) \/ (stack[2].node = q /\ d \in stack[2].rest)
        BY <1>1, <2>2, <4>1 DEF DInv, LoopInv
      <4> QED
        BY <1>1, <1>5, <4>1, <4>2, TreatedStays
    <3> QED
      BY <1>2, <3>1, <3>2, <3>3
  <2> QED
    BY <1>1, <2>1, <2>2 DEF LoopInv
<1> QED
  BY <1>6, <1>7, <1>8 DEF DInv

\* When a call returns its loop has come past all callees; when it is the
\* outermost one, the traversal has been everywhere.
LEMMA ReturnDInv ==
  ASSUME AInv, DInv, Return
  PROVE  DInv'
<1>1. /\ UNCHANGED <<vars, funcPackageMap, callRelation, callees, rootFunctions>>
      /\ UNCHANGED graph
      /\ phase \in {"traverseFunction", "findMargin", "findCallee"}
      /\ stack \in Seq(Frame) /\ stack # <<>> /\ stack[Len(stack)].rest = {}
  BY DEF Return, vars, AInv, AnalysisTypeOK, FramesOnGraph
<1>4. PICK n \in Nat \ {0} : n = Len(stack)
  BY <1>1
<1>2. CASE n > 1
  <2>1. stack' = SubSeq(stack, 1, Len(stack) - 1) /\ phase' = phase
    BY <1>2, <1>4 DEF Return
  <2>2. /\ Len(stack') = n - 1 /\ stack' # <<>> /\ stack'[1] = stack[1]
        /\ n > 2 => stack'[2] = stack[2]
    <3>1. stack' = SubSeq(stack, 1, n - 1)
      BY <1>4, <2>1
    <3>2. Len(stack') = n - 1
      BY <1>1, <1>2, <1>4, <3>1
    <3>3. \A i \in 1 .. n - 1 : stack'[i] = stack[i]
      BY <1>1, <1>2, <1>4, <3>1
    <3>4. stack' # <<>>
      BY <1>2, <3>2
    <3> QED
      BY <1>2, <3>2, <3>3, <3>4
  <2>3. AfterInv' /\ ListsRight'
    BY <1>1, <2>1, TreatedStays DEF DInv, AfterInv, ListsRight
  <2>4. ASSUME NEW q \in graph.callees[Root] \ stack'[1].rest
        PROVE  /\ Entered(q)'
               /\ \A d \in graph.callees[q] :
                    \/ Treated(q, d)'
                    \/ Len(stack') > 1 /\ stack'[2].node = q /\ d \in stack'[2].rest
    <3>1. /\ Entered(q)
          /\ \A d \in graph.callees[q] :
               Treated(q, d) \/ (stack[2].node = q /\ d \in stack[2].rest)
      BY <1>1, <2>2, <2>4 DEF DInv, LoopInv
    <3>2. Entered(q)' /\ \A d \in graph.callees[q] : Treated(q, d) => Treated(q, d)'
      BY <1>1, <2>1, <3>1, TreatedStays
    <3>3. CASE n = 2
      BY <1>1, <1>4, <3>1, <3>2, <3>3
    <3>4. CASE n > 2
      BY <1>1, <2>2, <3>1, <3>2, <3>4
    <3> QED
      BY <1>2, <1>4, <3>3, <3>4
  <2>5. stack'[1].node = Root
    BY <1>1, <2>2 DEF DInv, LoopInv
  <2> QED
    BY <1>1, <2>1, <2>2, <2>3, <2>4, <2>5 DEF DInv, LoopInv
<1>3. CASE ~(n > 1)
  <2>1. Len(stack) = 1 /\ stack[1].rest = {} /\ phase' = Following[phase]
        /\ stack' = IF phase' = "findRootCaller" THEN <<>> ELSE <<Called(Root)>>
    <3>1. n = 1
      BY <1>3
    <3> QED
      BY <1>1, <1>3, <1>4, <3>1 DEF Return
  <2>2. \A q \in graph.callees[Root] :
          Entered(q) /\ \A d \in graph.callees[q] : Treated(q, d)
    BY <1>1, <2>1 DEF DInv, LoopInv
  <2>3. \/ phase = "traverseFunction" /\ phase' = "findMargin"
        \/ phase = "findMargin" /\ phase' = "findCallee"
        \/ phase = "findCallee" /\ phase' = "findRootCaller"
    BY <1>1, <2>1 DEF Following
  <2>4. \A q \in graph.callees[Root] : Entered(q)'
    BY <1>1, <2>2 DEF Entered
  <2>5. phase' \in {"findCallee", "findRootCaller"} =>
          \A q \in graph.callees[Root] : \A d \in graph.callees[q] : Shown(q, d)'
    <3>1. phase \in {"findMargin", "findCallee"} =>
            \A q \in graph.callees[Root] : \A d \in graph.callees[q] : Shown(q, d)
      BY <2>2 DEF Treated, DInv, AfterInv
    <3>2. \A q, d : Shown(q, d)' = Shown(q, d)
      BY <1>1 DEF Shown, Crosses, PackageOf
    <3> QED
      BY <2>3, <3>1, <3>2
  <2>6. phase' = "findRootCaller" =>
          \A q \in graph.callees[Root] : \A d \in graph.callees[q] : Noted(q, d)'
    BY <1>1, <2>2, <2>3 DEF Treated, Noted
  <2>7. AfterInv'
    BY <1>1, <2>3, <2>4, <2>5, <2>6 DEF AfterInv
  <2>8. ListsRight'
    BY <1>1, <2>3 DEF DInv, ListsRight
  <2>9. LoopInv'
    BY <1>1, <2>1, <2>3 DEF LoopInv, Called
  <2> QED
    BY <2>7, <2>8, <2>9 DEF DInv
<1> QED
  BY <1>2, <1>3

\* At the start there is nothing to have come past.
LEMMA InitDInv == AnalysisInit => DInv
  BY DEF AnalysisInit, DInv, LoopInv, AfterInv, ListsRight

\* Every step preserves it.
LEMMA NextDInv == AInv /\ DInv /\ [AnalysisNext]_allVars => DInv'
<1> SUFFICES ASSUME AInv, DInv, [AnalysisNext]_allVars PROVE DInv'
  OBVIOUS
<1>1. CASE Build
  <2>1. UNCHANGED analysis /\ phase = "build" /\ stack = <<>>
    BY <1>1 DEF Build, AInv, FramesOnGraph
  <2> QED
    BY <2>1 DEF analysis, DInv, LoopInv, AfterInv, ListsRight
<1>2. CASE StartTraversal
  <2>1. /\ phase = "build" /\ phase' = "traverseFunction" /\ stack' = <<Called(Root)>>
        /\ UNCHANGED <<graph, callees>>
    BY <1>2 DEF StartTraversal
  <2>2. LoopInv'
    BY <2>1 DEF LoopInv, Called
  <2>3. AfterInv' /\ ListsRight'
    BY <2>1 DEF DInv, AfterInv, ListsRight
  <2> QED
    BY <2>2, <2>3 DEF DInv
<1>3. CASE VisitCallee
  BY <1>3, VisitCalleeDInv
<1>4. CASE Return
  BY <1>4, ReturnDInv
<1>5. CASE findRootCaller
  <2>1. /\ phase = "findRootCaller" /\ phase' = "done" /\ stack = <<>> /\ stack' = <<>>
        /\ UNCHANGED <<graph, funcPackageMap, callRelation, callees>>
    BY <1>5 DEF findRootCaller, vars, AInv, FramesOnGraph
  <2>2. AfterInv'
    <3>1. \A q, d : /\ Entered(q)' = Entered(q)
                    /\ Shown(q, d)' = Shown(q, d) /\ Noted(q, d)' = Noted(q, d)
      BY <2>1 DEF Entered, Shown, Crosses, PackageOf, Noted
    <3> QED
      BY <2>1, <3>1 DEF DInv, AfterInv
  <2>3. LoopInv'
    BY <2>1 DEF LoopInv
  <2>4. ListsRight'
    BY <1>5, <2>1 DEF findRootCaller, DInv, ListsRight
  <2> QED
    BY <2>2, <2>3, <2>4 DEF DInv
<1>6. CASE UNCHANGED allVars
  <2>1. UNCHANGED <<graph, phase, stack, funcPackageMap, callRelation, callees, rootFunctions>>
    BY <1>6 DEF allVars, vars, analysis
  <2>2. \A q, d : /\ Entered(q)' = Entered(q) /\ Treated(q, d)' = Treated(q, d)
                  /\ Shown(q, d)' = Shown(q, d) /\ Noted(q, d)' = Noted(q, d)
    BY <2>1 DEF Entered, Shown, Crosses, PackageOf, Noted, Treated
  <2>3. LoopInv'
    BY <2>1, <2>2 DEF DInv, LoopInv
  <2>4. AfterInv'
    BY <2>1, <2>2 DEF DInv, AfterInv
  <2>5. ListsRight'
    BY <2>1 DEF DInv, ListsRight
  <2> QED
    BY <2>3, <2>4, <2>5 DEF DInv
<1> QED
  BY <1>1, <1>2, <1>3, <1>4, <1>5, <1>6 DEF AnalysisNext

\* The traversals go everywhere.
LEMMA SpecDInv == AnalysisSpec => []DInv
  BY InitDInv, NextDInv, SpecAInv, PTL DEF AnalysisSpec
-----------------------------------------------------------------------------
\* What a walked definition calls is a callee of it, by the definition of the
\* function as well as by the declaration that is called.
LEMMA CallIsEdge ==
  ASSUME AInv, BuiltInv, phase # "build",
         NEW d \in WalkedDefinition, NEW e \in WalkedDefinition,
         NEW c \in VisitCallExpr(program.body[d]), OneFunction(c, e)
  PROVE  d \in graph.callees[Root] /\ e \in graph.callees[d]
<1>1. d \in Walked(graph) /\ e \in Walked(graph)
  BY DEF WalkedDefinition, Walked
<1>2. PICK i \in 1 .. Len(program.stream) : i <= visited /\ program.stream[i] = d
  BY <1>1 DEF BuiltInv, WalkInv
<1>3. c \in graph.callees[d]
  BY <1>1, <1>2 DEF BuiltInv, WalkInv, Walked
<1>4. d \in Decl /\ e \in Decl /\ d # Root /\ e # Root
  BY <1>1, SourceAssumption, NodeAssumption DEF Walked
<1>5. c \in Node /\ c # Root /\ d \in graph.parents[c] /\ c \in graph.FunctionMap
  BY <1>3, <1>4 DEF AInv, IInv, Good, Graph, Hung, Mirror, Node
<1>6. graph.parents[c] = graph.parents[e]
  BY <1>1, <1>4, <1>5 DEF BuiltInv, Joined, Walked
<1>7. e \in graph.callees[d]
  BY <1>4, <1>5, <1>6 DEF AInv, IInv, Good, Mirror, Node
<1>8. d \in graph.callees[Root]
  BY <1>1, <1>4 DEF AInv, IInv, Good, Hung, Walked
<1> QED
  BY <1>7, <1>8

\* When the tool is done no call of a walked definition that leaves its package
\* is without a margin (findMargin, main.cpp:209): the graph has an edge for it
\* to the definition that is called, and the traversal has been there.
THEOREM AlwaysMarginShown ==
  ASSUME DefinedBeforeCalled, NamesApart
  PROVE  AnalysisSpec => []MarginShown
<1>1. ASSUME AInv, BuiltInv, DInv, phase = "done",
             NEW d \in WalkedDefinition, NEW e \in WalkedDefinition,
             NEW c \in VisitCallExpr(program.body[d]), OneFunction(c, e),
             ~SameName(d, e), PackageOf(d) # PackageOf(e),
             "empty" \notin {PackageOf(d), PackageOf(e)}
      PROVE  \E m \in callRelation : m.caller = d /\ m.to = PackageOf(e)
  <2>1. d \in graph.callees[Root] /\ e \in graph.callees[d]
    BY <1>1, CallIsEdge
  <2>2. Shown(d, e)
    BY <1>1, <2>1 DEF DInv, AfterInv
  <2>3. {PackageOf(d), PackageOf(e)} \subseteq Package
    BY <1>1, PackageOfType, SourceAssumption DEF WalkedDefinition
  <2>4. Crosses(d, e)
    BY <1>1, <2>3 DEF Crosses, WalkedDefinition
  <2> QED
    BY <2>2, <2>4 DEF Shown
<1>2. AInv /\ BuiltInv /\ DInv => MarginShown
  BY <1>1 DEF MarginShown
<1> QED
  BY <1>2, SpecAInv, SpecBuilt, SpecDInv, PTL

\* Where a name is that of one function no plain function has that of a method.
LEMMA UniqueNamesApart == UniqueNames => NamesApart
  BY DEF UniqueNames, NamesApart, OneFunction

\* When the tool is done the root callers of a package are the functions that
\* are defined in it and that no function of another name calls
\* (findRootCaller, main.cpp:315).
THEOREM AlwaysRootCallersRight ==
  ASSUME DefinedBeforeCalled, UniqueNames
  PROVE  AnalysisSpec => []RootCallersRight
<1>1. ASSUME AInv, BuiltInv, DInv, phase = "done",
             NEW e \in WalkedDefinition, PackageOf(e) # "empty",
             NEW d \in WalkedDefinition, NEW c \in VisitCallExpr(program.body[d]),
             ~SameName(d, e), SameName(c, e)
      PROVE  <<PackageOf(e), NameOf[e]>> \notin rootFunctions
  <2>1. c \in Appears(program) /\ e \in Appears(program)
    <3>1. d \in Walked(graph) /\ e \in Walked(graph)
      BY <1>1 DEF WalkedDefinition, Walked
    <3>2. /\ \E i \in 1 .. Len(program.stream) : program.stream[i] = d
          /\ \E i \in 1 .. Len(program.stream) : program.stream[i] = e
      BY <1>1, <3>1 DEF BuiltInv, WalkInv
    <3> QED
      BY <1>1, <3>2 DEF Appears
  <2>2. OneFunction(c, e)
    BY <1>1, <2>1 DEF UniqueNames, BuiltInv, WalkInv
  <2>3. d \in graph.callees[Root] /\ e \in graph.callees[d]
    BY <1>1, <2>2, CallIsEdge
  <2>4. Noted(d, e)
    BY <1>1, <2>3 DEF DInv, AfterInv
  <2>5. e \in callees
    BY <1>1, <2>4 DEF Noted, WalkedDefinition
  <2>6. SUFFICES ASSUME NEW f \in DOMAIN funcPackageMap, NameOf[f] = NameOf[e],
                        \A b \in callees : ~SameName(b, f)
                 PROVE  FALSE
    BY <1>1 DEF DInv, ListsRight
  <2> QED
    BY <2>5, <2>6 DEF SameName
<1>2. ASSUME AInv, BuiltInv, DInv, phase = "done",
             NEW e \in WalkedDefinition, PackageOf(e) # "empty",
             ~\E d \in WalkedDefinition : \E c \in VisitCallExpr(program.body[d]) :
                ~SameName(d, e) /\ SameName(c, e)
      PROVE  <<PackageOf(e), NameOf[e]>> \in rootFunctions
  <2>1. e \in graph.callees[Root]
    BY <1>2, SourceAssumption, NodeAssumption
       DEF AInv, IInv, Good, Hung, WalkedDefinition
  <2>2. e \in DOMAIN funcPackageMap /\ funcPackageMap[e] = PackageOf(e)
    BY <1>2, <2>1 DEF DInv, AfterInv, Entered, WalkedDefinition, AInv, PackagesRight
  <2>3. ASSUME NEW c \in callees, SameName(c, e) PROVE FALSE
    <3>1. PICK p \in Decl : c \in graph.callees[p] /\ ~SameName(p, c)
      BY <1>2 DEF DInv, ListsRight
    <3>2. PICK d \in Walked(graph) : \E b \in VisitCallExpr(program.body[d]) :
                 <<d, p>> \in ByName /\ <<b, c>> \in ByName
      BY <1>2, <3>1 DEF AInv, IInv, Sound, CallsBy
    <3>3. PICK b \in VisitCallExpr(program.body[d]) :
                 <<d, p>> \in ByName /\ <<b, c>> \in ByName
      BY <3>2
    <3>4. ~SameName(d, e) /\ SameName(b, e)
      BY <2>3, <3>1, <3>3 DEF ByName, SameName
    <3>5. d \in WalkedDefinition
      BY <3>2 DEF Walked, WalkedDefinition
    <3> QED
      BY <1>2, <3>3, <3>4, <3>5
  <2>4. <<funcPackageMap[e], NameOf[e]>> \in rootFunctions
    BY <1>2, <2>2, <2>3 DEF DInv, ListsRight
  <2> QED
    BY <2>2, <2>4
<1>3. AInv /\ BuiltInv /\ DInv => RootCallersRight
  BY <1>1, <1>2 DEF RootCallersRight
<1> QED
  BY <1>3, UniqueNamesApart, SpecAInv, SpecBuilt, SpecDInv, PTL
-----------------------------------------------------------------------------
\* The AST of each of the first n source files is under the name of the file.
Named(n) == \A f \in 1 .. n : disk[f] = f

(***************************************************************************)
(* While clang runs and nothing has gone wrong, the next name belongs to   *)
(* the source file that is next, and the ASTs of those before it are under *)
(* theirs.  When clang has returned without an error, that holds of all of *)
(* them, and main loads them in the order of the names.                    *)
(***************************************************************************)
MInv ==
  /\ program.units \in Seq(Seq(Decl))
  /\ source \in 1 .. Len(program.units) + 1
  /\ DOMAIN disk = Files
  /\ \E S : Units \in Seq(S)
  /\ Len(Units) <= Len(program.units)
  /\ front = "run" => Units = <<>>
  /\ front = "loaded" => Len(Units) = Len(program.units)
  /\ front \in {"run", "load", "loaded", "gone"}
  /\ complete /\ result = 0 =>
       /\ front = "run" => file_it = source /\ Named(source - 1)
       /\ front \in {"load", "loaded"} =>
            Named(Len(program.units)) /\ \A i \in 1 .. Len(Units) : Units[i] = i

\* At the start nothing is read or analysed.
LEMMA InitMInv == MainInit => MInv
<1> SUFFICES ASSUME MainInit PROVE MInv
  OBVIOUS
<1>1. program \in Program
  BY DEF MainInit, AnalysisInit, Init
<1>2. program.units \in Seq(Seq(Decl))
  BY <1>1, UnitsAssumption
<1>3. Units = <<>> /\ Len(Units) = 0 /\ Units \in Seq({})
  BY DEF MainInit
<1>4. Named(source - 1)
  BY DEF MainInit, Named
<1> QED
  BY <1>2, <1>3, <1>4 DEF MainInit, MInv, Files

\* The analysis changes neither the program nor what the front end left.
LEMMA AnalyseKeeps == Analyse => UNCHANGED <<program, frontend>>
  BY DEF Analyse, AnalysisNext, Build, Next, VisitFunctionDecl, StartMerge, MergePair,
         StartTraversal, VisitCallee, Return, findRootCaller, vars

\* Every step keeps it, whether clang fails or not.
LEMMA NextMInv == MInv /\ [MainNext]_all => MInv'
<1> SUFFICES ASSUME MInv, [MainNext]_all PROVE MInv'
  OBVIOUS
<1> USE DEF MInv, Files, Named
<1>1. CASE RunSource
  <2>1. program' = program /\ Units' = Units /\ front' = front /\ front = "run"
        /\ source \in Files /\ source' = source + 1
    BY <1>1 DEF RunSource, allVars, vars
  <2>2. DOMAIN disk' = Files
    BY <1>1 DEF RunSource, HandleTranslationUnit
  <2>3. ASSUME complete', result' = 0
         PROVE  file_it' = source' /\ \A f \in 1 .. source' - 1 : disk'[f] = f
    <3>1. PICK saved, errors \in BOOLEAN :
            /\ HandleTranslationUnit(saved)
            /\ result' = IF errors /\ program \in Troubled THEN 1 ELSE result
            /\ complete' = (complete /\ saved)
      <4>1. ~(complete' = FALSE) /\ ~(result' = 1)
        BY <2>3
      <4> QED
        BY <1>1, <4>1, Zenon DEF RunSource
    <3>2. saved /\ complete
      BY <3>1, <2>3, Zenon
    <3>3. result = 0
      BY <3>1, <2>3
    <3>4. file_it = source /\ \A f \in 1 .. source - 1 : disk[f] = f
      BY <3>2, <3>3, <2>1
    <3>5. disk' = [disk EXCEPT ![source] = source] /\ file_it' = source + 1
      <4>1. file_it \in Files
        BY <3>4, <2>1
      <4>2. disk' = [disk EXCEPT ![file_it] = source] /\ file_it' = file_it + 1
        BY <3>1, <3>2, <4>1, Zenon DEF HandleTranslationUnit
      <4> QED
        BY <4>2, <3>4
    <3> QED
      BY <3>4, <3>5, <2>1
  <2> QED
    BY <2>1, <2>2, <2>3
<1>2. CASE EndRun
  BY <1>2 DEF EndRun, allVars, vars
<1>3. CASE LoadUnit
  <2>1. front = "load" /\ program' = program
        /\ UNCHANGED <<source, file_it, disk, result, complete>>
    BY <1>3 DEF LoadUnit, allVars, vars
  <2>2. CASE front' = "gone" /\ UNCHANGED Units
    BY <2>1, <2>2
  <2>3. CASE /\ Len(Units) < Len(program.units)
             /\ Units' = Append(Units, disk[Len(Units) + 1])
             /\ UNCHANGED front
    <3>1. PICK S : Units \in Seq(S)
      OBVIOUS
    <3>2. Units \in Seq(S \cup {disk[Len(Units) + 1]})
      BY <3>1
    <3>3. /\ Units' \in Seq(S \cup {disk[Len(Units) + 1]})
          /\ Len(Units') = Len(Units) + 1
          /\ \A i \in 1 .. Len(Units) : Units'[i] = Units[i]
          /\ Units'[Len(Units) + 1] = disk[Len(Units) + 1]
      BY <2>3, <3>2
    <3> QED
      BY <2>1, <2>3, <3>3
  <2> QED
    BY <1>3, <2>2, <2>3 DEF LoadUnit
<1>4. CASE EndLoad
  <2>1. program'.units = program.units
    BY <1>4 DEF EndLoad
  <2> QED
    BY <1>4, <2>1 DEF EndLoad
<1>5. CASE Analyse
  BY <1>5, AnalyseKeeps DEF frontend
<1>6. CASE UNCHANGED all
  BY <1>6 DEF all, frontend, allVars, vars
<1> QED
  BY <1>1, <1>2, <1>3, <1>4, <1>5, <1>6 DEF MainNext

\* Unless clang passed over a file or an AST could not be saved, what is
\* analysed is what is in the source files, or main has given up, or it
\* returns an error (main.cpp:152, LibtoolingClasses.h:88).
THEOREM NeverStale == MainSpec => []NothingStale
<1>1. MInv => NothingStale
  <2> SUFFICES ASSUME MInv, front = "loaded", complete, result = 0
               PROVE  Units = [f \in Files |-> f]
    BY DEF NothingStale
  <2>1. PICK S : Units \in Seq(S)
    BY DEF MInv
  <2>2. Len(Units) = Len(program.units) /\ \A i \in 1 .. Len(Units) : Units[i] = i
    BY DEF MInv
  <2> QED
    BY <2>1, <2>2 DEF Files
<1> QED
  BY <1>1, InitMInv, NextMInv, PTL DEF MainSpec
=============================================================================
