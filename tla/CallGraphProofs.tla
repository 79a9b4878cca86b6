--------------------------- MODULE CallGraphProofs ---------------------------
(***************************************************************************)
(* Proofs about CallGraph, for all declarations, programs and orders of    *)
(* the merge: its type invariant, and the invariants that the graph stays  *)
(* rooted, that its two adjacency lists agree and that every edge comes    *)
(* from a call of the program; and, for programs without what the findings *)
(* are about, that no call is lost and that the merge joins the            *)
(* declarations of a function, those and no others.                        *)
(*                                                                         *)
(* The invariants are stated on a graph g first (Hung, Mirror, Sound), so  *)
(* that a lemma about each operation of the graph says it preserves them;  *)
(* the induction over the steps of the program then only has to say which  *)
(* operation a step calls, and that its arguments are nodes.               *)
(***************************************************************************)
EXTENDS CallGraph, FiniteSetTheorems, SequenceTheorems, WellFoundedInduction, TLAPS

\* Rooted, EdgesMirror and EdgesSound of a graph that is not the variable.
Hung(g) ==
  /\ Root \in g.FunctionMap
  /\ \A n \in g.FunctionMap \ {Root} : n \in g.callees[Root]
  /\ \A n \in Node : Root \notin g.callees[n]

Mirror(g) ==
  \A p, c \in Node :
    /\ (c \in g.callees[p]) <=> (p \in g.parents[c])
    /\ c \in g.callees[p] => {p, c} \subseteq g.FunctionMap

\* The definitions a graph has nodes for, whose bodies are walked.
Walked(g) == g.FunctionMap \cap (Definition \ Skipped)

\* The merge treats declarations as one that a relation R relates: those of one
\* name, or those of one function.
ByName == {e \in Decl \X Decl : SameName(e[1], e[2])}
ByFunction == {e \in Decl \X Decl : OneFunction(e[1], e[2])}

Equivalence(R) ==
  /\ \A d \in Decl : <<d, d>> \in R
  /\ \A d, e \in Decl : <<d, e>> \in R => <<e, d>> \in R
  /\ \A d, e, f \in Decl : <<d, e>> \in R /\ <<e, f>> \in R => <<d, f>> \in R

\* Up to R, a walked body has a call from p to c; every edge is such a call.
CallsBy(R, g, p, c) ==
  \E d \in Walked(g) : \E b \in VisitCallExpr(program.body[d]) :
    <<d, p>> \in R /\ <<b, c>> \in R

Sound(R, g) == \A p \in Decl : \A c \in g.callees[p] : CallsBy(R, g, p, c)

Good(g) == g \in Graph /\ Hung(g) /\ Mirror(g)

\* Both relations are equivalences.
LEMMA Equivalences == Equivalence(ByName) /\ Equivalence(ByFunction)
  BY DEF Equivalence, ByName, ByFunction, OneFunction, SameName

\* What is a call in a graph is one in a graph with more nodes.
LEMMA CallsStay ==
  ASSUME NEW R, NEW g, NEW a, g.FunctionMap \subseteq a.FunctionMap, NEW p, NEW c,
         CallsBy(R, g, p, c)
  PROVE  CallsBy(R, a, p, c)
  BY DEF CallsBy, Walked
-----------------------------------------------------------------------------
(***************************************************************************)
(* The operations of the graph.                                            *)
(***************************************************************************)

\* What addCallee and AdoptParents leave in each field of the graph.
Linked(g, caller, called, a) ==
  /\ a \in Graph
  /\ a.FunctionMap = g.FunctionMap
  /\ \A n \in Node : a.callees[n] = IF n = caller THEN g.callees[n] \cup called
                                                  ELSE g.callees[n]
  /\ \A n \in Node : a.parents[n] = IF n \in called THEN g.parents[n] \cup {caller}
                                                    ELSE g.parents[n]

Adopted(g, ps, n, a) ==
  /\ a \in Graph
  /\ a.FunctionMap = g.FunctionMap
  /\ \A p \in Node : a.callees[p] = IF p \in ps THEN g.callees[p] \cup {n}
                                                ELSE g.callees[p]
  /\ \A c \in Node \ {n} : a.parents[c] = g.parents[c]
  /\ a.parents[n] = g.parents[n] \cup {p \in ps : n \notin g.callees[p]}

\* addCallee adds exactly the edges it is asked for, to both lists.
LEMMA AddCalleeFields ==
  ASSUME NEW g \in Graph, NEW caller \in Node, NEW called \in SUBSET Node
  PROVE  Linked(g, caller, called, addCallee(g, caller, called))
  BY DEF addCallee, Graph, Linked

\* AdoptParents adds exactly the edges from the nodes that have none yet.
LEMMA AdoptParentsFields ==
  ASSUME NEW g \in Graph, NEW ps \in SUBSET Node, NEW n \in Node
  PROVE  Adopted(g, ps, n, AdoptParents(g, ps, n))
  BY DEF AdoptParents, Graph, Adopted

\* Linking nodes of the graph, the root not among the callees, keeps it good.
LEMMA LinkedGood ==
  ASSUME NEW g, Good(g), NEW a,
         NEW caller \in g.FunctionMap, NEW called \in SUBSET (g.FunctionMap \ {Root}),
         Linked(g, caller, called, a)
  PROVE  Good(a)
<1>1. g.FunctionMap \subseteq Node
  BY DEF Good, Graph
<1>2. Hung(a)
  <2>1. Root \in a.FunctionMap
    BY DEF Linked, Good, Hung
  <2>2. \A n \in a.FunctionMap \ {Root} : n \in a.callees[Root]
    BY DEF Linked, Good, Hung, Node
  <2>3. \A n \in Node : Root \notin a.callees[n]
    BY DEF Linked, Good, Hung
  <2> QED
    BY <2>1, <2>2, <2>3 DEF Hung
<1>3. Mirror(a)
  <2> SUFFICES ASSUME NEW p \in Node, NEW c \in Node
               PROVE  /\ (c \in a.callees[p]) <=> (p \in a.parents[c])
                      /\ c \in a.callees[p] => {p, c} \subseteq a.FunctionMap
    BY DEF Mirror
  <2>1. /\ (c \in g.callees[p]) <=> (p \in g.parents[c])
        /\ c \in g.callees[p] => {p, c} \subseteq g.FunctionMap
    BY DEF Good, Mirror
  <2> QED
    BY <1>1, <2>1 DEF Linked
<1> QED
  BY <1>2, <1>3 DEF Good, Linked

\* A node of the graph other than the root may be adopted by any nodes of it.
LEMMA AdoptedGood ==
  ASSUME NEW g, Good(g), NEW a, NEW ps \in SUBSET g.FunctionMap,
         NEW n \in g.FunctionMap \ {Root},
         Adopted(g, ps, n, a)
  PROVE  Good(a)
<1>1. g.FunctionMap \subseteq Node
  BY DEF Good, Graph
<1>2. Hung(a)
  <2>1. Root \in a.FunctionMap
    BY DEF Adopted, Good, Hung
  <2>2. \A m \in a.FunctionMap \ {Root} : m \in a.callees[Root]
    BY DEF Adopted, Good, Hung, Node
  <2>3. \A m \in Node : Root \notin a.callees[m]
    BY DEF Adopted, Good, Hung
  <2> QED
    BY <2>1, <2>2, <2>3 DEF Hung
<1>3. Mirror(a)
  <2> SUFFICES ASSUME NEW p \in Node, NEW c \in Node
               PROVE  /\ (c \in a.callees[p]) <=> (p \in a.parents[c])
                      /\ c \in a.callees[p] => {p, c} \subseteq a.FunctionMap
    BY DEF Mirror
  <2>1. /\ (c \in g.callees[p]) <=> (p \in g.parents[c])
        /\ c \in g.callees[p] => {p, c} \subseteq g.FunctionMap
    BY DEF Good, Mirror
  <2>2. CASE c = n
    BY <1>1, <2>1, <2>2 DEF Adopted
  <2>3. CASE c # n
    BY <1>1, <2>1, <2>3 DEF Adopted
  <2> QED
    BY <2>2, <2>3
<1> QED
  BY <1>2, <1>3 DEF Good, Adopted

\* The nodes getOrInsertNode inserts hang below the root and have no calls.
Inserted(g, ds, a) ==
  /\ a \in Graph
  /\ a.FunctionMap = g.FunctionMap \cup ds
  /\ \A n \in Node : a.callees[n] = IF n = Root THEN g.callees[n] \cup (ds \ g.FunctionMap)
                                                ELSE g.callees[n]
  /\ \A n \in Node : a.parents[n] = IF n \in ds \ g.FunctionMap
                                      THEN g.parents[n] \cup {Root}
                                      ELSE g.parents[n]

\* getOrInsertNode adds the nodes and, for the new ones only, the edge from
\* the root.
LEMMA GetOrInsertNodeFields ==
  ASSUME NEW g \in Graph, NEW ds \in SUBSET Decl
  PROVE  Inserted(g, ds, getOrInsertNode(g, ds))
<1> DEFINE b == [g EXCEPT !.FunctionMap = @ \cup ds]
<1>1. /\ b \in Graph
      /\ b.FunctionMap = g.FunctionMap \cup ds
      /\ b.callees = g.callees
      /\ b.parents = g.parents
  BY DEF Graph, Node
<1>2. Root \in Node /\ ds \ g.FunctionMap \in SUBSET Node
  BY DEF Node
<1> HIDE DEF b
<1>3. Linked(b, Root, ds \ g.FunctionMap, addCallee(b, Root, ds \ g.FunctionMap))
  BY <1>1, <1>2, AddCalleeFields
<1>4. getOrInsertNode(g, ds) = addCallee(b, Root, ds \ g.FunctionMap)
  BY DEF getOrInsertNode, b
<1> QED
  BY <1>1, <1>2, <1>3, <1>4 DEF Linked, Inserted

\* Inserting nodes keeps the graph good.
LEMMA InsertedGood ==
  ASSUME NEW g, Good(g), NEW a, NEW ds \in SUBSET Decl, Inserted(g, ds, a)
  PROVE  Good(a)
<1>1. g.FunctionMap \subseteq Node /\ Root \notin ds /\ Root \in Node
  BY NodeAssumption DEF Good, Graph, Node
<1>2. Hung(a)
  <2>1. Root \in a.FunctionMap
    BY DEF Inserted, Good, Hung
  <2>2. \A n \in a.FunctionMap \ {Root} : n \in a.callees[Root]
    BY <1>1 DEF Inserted, Good, Hung
  <2>3. \A n \in Node : Root \notin a.callees[n]
    BY <1>1 DEF Inserted, Good, Hung
  <2> QED
    BY <2>1, <2>2, <2>3 DEF Hung
<1>3. Mirror(a)
  <2> SUFFICES ASSUME NEW p \in Node, NEW c \in Node
               PROVE  /\ (c \in a.callees[p]) <=> (p \in a.parents[c])
                      /\ c \in a.callees[p] => {p, c} \subseteq a.FunctionMap
    BY DEF Mirror
  <2>1. /\ (c \in g.callees[p]) <=> (p \in g.parents[c])
        /\ c \in g.callees[p] => {p, c} \subseteq g.FunctionMap
    BY DEF Good, Mirror
  <2>2. Root \in g.FunctionMap
    BY DEF Good, Hung
  <2>3. CASE p = Root
    BY <1>1, <2>1, <2>2, <2>3 DEF Inserted
  <2>4. CASE p # Root
    BY <1>1, <2>1, <2>4 DEF Inserted
  <2> QED
    BY <2>3, <2>4
<1> QED
  BY <1>2, <1>3 DEF Good, Inserted

\* A visited definition and its callees keep the graph good, and sound when
\* the body is the one the program has for it.
LEMMA AddNodeForDeclGood ==
  ASSUME NEW R, Equivalence(R), NEW g, Good(g), Sound(R, g),
         NEW d \in Decl, d \in Definition \ Skipped,
         program.body \in [Decl -> SUBSET CallSite]
  PROVE  LET a == addNodeForDecl(g, d, program.body[d])
         IN  /\ Good(a) /\ Sound(R, a)
             /\ a.FunctionMap = g.FunctionMap \cup {d} \cup VisitCallExpr(program.body[d])
             /\ \A n \in Decl : a.callees[n] =
                  g.callees[n] \cup IF n = d THEN VisitCallExpr(program.body[d]) ELSE {}
<1> DEFINE called == VisitCallExpr(program.body[d])
           b == getOrInsertNode(g, {d} \cup called)
           a == addCallee(b, d, called)
<1>1. called \in SUBSET Decl
  BY DEF VisitCallExpr, CallSite
<1>2. addNodeForDecl(g, d, program.body[d]) = a
  BY DEF addNodeForDecl
<1>11. called = VisitCallExpr(program.body[d])
  OBVIOUS
<1> HIDE DEF called
<1>3. Inserted(g, {d} \cup called, b)
  BY <1>1, GetOrInsertNodeFields DEF Good
<1> HIDE DEF b
<1>4. Good(b)
  BY <1>1, <1>3, InsertedGood
<1>5. b \in Graph /\ d \in b.FunctionMap /\ called \in SUBSET (b.FunctionMap \ {Root})
  BY <1>1, <1>3, NodeAssumption DEF Inserted
<1>6. d \in Node /\ called \in SUBSET Node
  BY <1>1 DEF Node
<1>7. Linked(b, d, called, a)
  BY <1>5, <1>6, AddCalleeFields
<1> HIDE DEF a
<1>8. Good(a)
  BY <1>4, <1>5, <1>7, LinkedGood
<1>10. a.FunctionMap = g.FunctionMap \cup {d} \cup called
  BY <1>3, <1>7 DEF Inserted, Linked
<1>9. Sound(R, a)
  <2> SUFFICES ASSUME NEW p \in Decl, NEW c \in a.callees[p]
               PROVE  CallsBy(R, a, p, c)
    BY DEF Sound
  <2>1. p \in Node /\ p # Root
    BY NodeAssumption DEF Node
  <2>2. b.callees[p] = g.callees[p]
    BY <2>1, <1>3 DEF Inserted
  <2>3. c \in g.callees[p] \/ (p = d /\ c \in called)
    BY <2>1, <2>2, <1>7 DEF Linked
  <2>4. CASE c \in g.callees[p]
    <3>1. CallsBy(R, g, p, c)
      BY <2>4 DEF Sound
    <3> QED
      BY <3>1, <1>10, CallsStay
  <2>5. CASE p = d /\ c \in called
    <3>1. d \in Walked(a) /\ <<d, p>> \in R /\ <<c, c>> \in R
      BY <1>1, <1>10, <2>5 DEF Walked, Equivalence
    <3> QED
      BY <3>1, <2>5, <1>11 DEF CallsBy
  <2> QED
    BY <2>3, <2>4, <2>5
<1>12. \A n \in Decl : a.callees[n] = g.callees[n] \cup IF n = d THEN called ELSE {}
  <2> SUFFICES ASSUME NEW n \in Decl
               PROVE  a.callees[n] = g.callees[n] \cup IF n = d THEN called ELSE {}
    OBVIOUS
  <2>1. n \in Node /\ n # Root
    BY NodeAssumption DEF Node
  <2>2. b.callees[n] = g.callees[n]
    BY <2>1, <1>3 DEF Inserted
  <2> QED
    BY <2>1, <2>2, <1>7 DEF Linked
<1> QED
  BY <1>2, <1>8, <1>9, <1>10, <1>11, <1>12

\* A node of a function takes callees or parents of another node of it.
LEMMA LinkedSound ==
  ASSUME NEW R, Equivalence(R), NEW g, Good(g), Sound(R, g), NEW a,
         NEW n1 \in Decl, NEW n2 \in Decl, <<n1, n2>> \in R,
         Linked(g, n1, g.callees[n2], a)
  PROVE  Sound(R, a)
<1> SUFFICES ASSUME NEW p \in Decl, NEW c \in a.callees[p]
             PROVE  CallsBy(R, g, p, c)
  <2>1. g.FunctionMap \subseteq a.FunctionMap
    BY DEF Linked, Adopted
  <2> QED
    BY <2>1, CallsStay DEF Sound
<1>4. \A d \in Walked(g) : d \in Decl
  BY SourceAssumption DEF Walked
<1>1. p \in Node
  BY DEF Node
<1>2. CASE c \in g.callees[p]
  BY <1>2 DEF Sound
<1>3. CASE p = n1 /\ c \in g.callees[n2]
  <2>1. CallsBy(R, g, n2, c)
    BY <1>3 DEF Sound
  <2> QED
    BY <1>3, <1>4, <2>1 DEF CallsBy, Equivalence
<1> QED
  BY <1>1, <1>2, <1>3 DEF Linked

\* A node of a function takes over parents from another node of it.
LEMMA AdoptedSound ==
  ASSUME NEW R, Equivalence(R), NEW g, Good(g), Sound(R, g), NEW a,
         NEW n1 \in Decl, NEW n2 \in Decl, <<n1, n2>> \in R,
         Adopted(g, g.parents[n2], n1, a),
         program.body \in [Decl -> SUBSET CallSite]
  PROVE  Sound(R, a)
<1> SUFFICES ASSUME NEW p \in Decl, NEW c \in a.callees[p]
             PROVE  CallsBy(R, g, p, c)
  <2>1. g.FunctionMap \subseteq a.FunctionMap
    BY DEF Linked, Adopted
  <2> QED
    BY <2>1, CallsStay DEF Sound
<1>4. \A d \in Walked(g) : d \in Decl
  BY SourceAssumption DEF Walked
<1>1. p \in Node /\ n2 \in Node
  BY DEF Node
<1>2. CASE c \in g.callees[p]
  BY <1>2 DEF Sound
<1>3. CASE c = n1 /\ p \in g.parents[n2]
  <2>1. n2 \in g.callees[p]
    BY <1>1, <1>3 DEF Good, Mirror
  <2>2. CallsBy(R, g, p, n2)
    BY <2>1 DEF Sound
  <2>3. \A d \in Walked(g) : VisitCallExpr(program.body[d]) \subseteq Decl
    BY <1>4 DEF VisitCallExpr, CallSite
  <2> QED
    BY <1>3, <2>2, <2>3 DEF CallsBy, Equivalence
<1> QED
  BY <1>1, <1>2, <1>3 DEF Adopted

\* The first of its three parts: an empty node takes the callees of the other.
Fill(g, n1, n2, a) ==
  \/ g.callees[n1] = {} /\ Linked(g, n1, g.callees[n2], a)
  \/ g.callees[n1] # {} /\ g.callees[n2] = {} /\ Linked(g, n2, g.callees[n1], a)
  \/ g.callees[n1] # {} /\ g.callees[n2] # {} /\ a = g

\* mergeCallGraphNode fills an empty node, then each node adopts the parents
\* of the other: every node has a parent, if only the root.
LEMMA MergeParts ==
  ASSUME NEW g, Good(g),
         NEW n1 \in Decl \cap g.FunctionMap, NEW n2 \in Decl \cap g.FunctionMap
  PROVE  \E a, b :
           /\ Good(a) /\ Fill(g, n1, n2, a)
           /\ Good(b) /\ Adopted(a, a.parents[n2], n1, b)
           /\ Good(mergeCallGraphNode(g, n1, n2))
           /\ Adopted(b, b.parents[n1], n2, mergeCallGraphNode(g, n1, n2))
<1> DEFINE g0 == IF g.callees[n1] = {} THEN addCallee(g, n1, g.callees[n2])
                 ELSE IF g.callees[n2] = {} THEN addCallee(g, n2, g.callees[n1])
                 ELSE g
           g1 == AdoptParents(g0, g0.parents[n2], n1)
           g2 == AdoptParents(g1, g1.parents[n1], n2)
<1>1. /\ n1 \in Node /\ n2 \in Node
      /\ n1 # Root /\ n2 # Root
  BY NodeAssumption DEF Node
<1>2. Good(g0) /\ Fill(g, n1, n2, g0) /\ g0.FunctionMap = g.FunctionMap
  <2>1. \A n \in Node : g.callees[n] \in SUBSET (g.FunctionMap \ {Root})
    BY DEF Good, Mirror, Hung, Graph
  <2>2. g \in Graph /\ \A n \in Node : g.callees[n] \in SUBSET Node
    BY DEF Good, Graph
  <2>3. CASE g.callees[n1] = {}
    <3>1. g0 = addCallee(g, n1, g.callees[n2])
      BY <2>3
    <3> HIDE DEF g0
    <3>2. Linked(g, n1, g.callees[n2], addCallee(g, n1, g.callees[n2]))
      BY <1>1, <2>2, AddCalleeFields
    <3>3. Linked(g, n1, g.callees[n2], g0)
      BY <3>1, <3>2
    <3>4. Good(g0)
      BY <1>1, <2>1, <3>3, LinkedGood
    <3> QED
      BY <2>3, <3>3, <3>4 DEF Linked, Fill
  <2>4. CASE g.callees[n1] # {} /\ g.callees[n2] = {}
    <3>1. g0 = addCallee(g, n2, g.callees[n1])
      BY <2>4
    <3> HIDE DEF g0
    <3>2. Linked(g, n2, g.callees[n1], addCallee(g, n2, g.callees[n1]))
      BY <1>1, <2>2, AddCalleeFields
    <3>3. Linked(g, n2, g.callees[n1], g0)
      BY <3>1, <3>2
    <3>4. Good(g0)
      BY <1>1, <2>1, <3>3, LinkedGood
    <3> QED
      BY <2>4, <3>3, <3>4 DEF Linked, Fill
  <2>5. CASE g.callees[n1] # {} /\ g.callees[n2] # {}
    BY <2>5 DEF Fill
  <2> QED
    BY <2>3, <2>4, <2>5
<1> HIDE DEF g0
<1>3. Good(g1) /\ Adopted(g0, g0.parents[n2], n1, g1) /\ g1.FunctionMap = g.FunctionMap
  <2>1. /\ g0 \in Graph
        /\ g0.parents[n2] \in SUBSET g0.FunctionMap
        /\ g0.parents[n2] \in SUBSET Node
    BY <1>1, <1>2 DEF Good, Mirror, Graph
  <2>2. Adopted(g0, g0.parents[n2], n1, g1)
    BY <1>1, <2>1, AdoptParentsFields
  <2> HIDE DEF g1
  <2>3. Good(g1)
    BY <1>1, <1>2, <2>1, <2>2, AdoptedGood
  <2> QED
    BY <1>2, <2>2, <2>3 DEF Adopted
<1> HIDE DEF g1
<1>4. Good(g2) /\ Adopted(g1, g1.parents[n1], n2, g2)
  <2>1. /\ g1 \in Graph
        /\ g1.parents[n1] \in SUBSET g1.FunctionMap
        /\ g1.parents[n1] \in SUBSET Node
    BY <1>1, <1>3 DEF Good, Mirror, Graph
  <2>2. Adopted(g1, g1.parents[n1], n2, g2)
    BY <1>1, <2>1, AdoptParentsFields
  <2> HIDE DEF g2
  <2>3. Good(g2)
    BY <1>1, <1>3, <2>1, <2>2, AdoptedGood
  <2> QED
    BY <2>2, <2>3
<1>5. Root \in g0.parents[n1]
  BY <1>1, <1>2 DEF Good, Hung, Mirror, Node
<1>6. mergeCallGraphNode(g, n1, n2) = g2
  BY <1>5 DEF mergeCallGraphNode, g0, g1
<1> HIDE DEF g2
<1> QED
  BY <1>2, <1>3, <1>4, <1>6

\* Merging two nodes of one name, or of one function, keeps the graph good and
\* sound, and inserts no node.
LEMMA MergeCallGraphNodeGood ==
  ASSUME NEW R, Equivalence(R), NEW g, Good(g), Sound(R, g),
         NEW n1 \in Decl \cap g.FunctionMap, NEW n2 \in Decl \cap g.FunctionMap,
         <<n1, n2>> \in R, program.body \in [Decl -> SUBSET CallSite]
  PROVE  LET m == mergeCallGraphNode(g, n1, n2)
         IN  Good(m) /\ Sound(R, m) /\ m.FunctionMap = g.FunctionMap
<1> DEFINE m == mergeCallGraphNode(g, n1, n2)
<1>1. PICK a, b : /\ Good(a) /\ Fill(g, n1, n2, a)
                  /\ Good(b) /\ Adopted(a, a.parents[n2], n1, b)
                  /\ Good(m) /\ Adopted(b, b.parents[n1], n2, m)
  BY MergeParts
<1> HIDE DEF m
<1>2. n1 \in Decl /\ n2 \in Decl /\ <<n2, n1>> \in R
  BY DEF Equivalence
<1>3. /\ a.FunctionMap = g.FunctionMap
      /\ b.FunctionMap = g.FunctionMap
      /\ m.FunctionMap = g.FunctionMap
  BY <1>1 DEF Fill, Linked, Adopted
<1>4. Sound(R, a)
  <2>1. CASE g.callees[n1] = {} /\ Linked(g, n1, g.callees[n2], a)
    BY <1>2, <2>1, LinkedSound
  <2>2. CASE Linked(g, n2, g.callees[n1], a)
    BY <1>2, <2>2, LinkedSound
  <2> QED
    BY <1>1, <2>1, <2>2 DEF Fill
<1>5. Sound(R, b)
  BY <1>1, <1>2, <1>4, AdoptedSound
<1>6. Sound(R, m)
  BY <1>1, <1>2, <1>5, AdoptedSound
<1> QED
  BY <1>1, <1>3, <1>6 DEF m

\* One turn of the two loops keeps the graph good and sound.
LEMMA MergeFunctionMapGood ==
  ASSUME NEW R, Equivalence(R), NEW g, Good(g), Sound(R, g),
         NEW d \in Decl \cap g.FunctionMap, NEW e \in Decl \cap g.FunctionMap,
         Mergeable(d, e) => <<d, e>> \in R, program.body \in [Decl -> SUBSET CallSite]
  PROVE  LET m == MergeFunctionMap(g, d, e)
         IN  Good(m) /\ Sound(R, m) /\ m.FunctionMap = g.FunctionMap
<1> DEFINE m1 == mergeCallGraphNode(g, d, e)
           m2 == mergeCallGraphNode(m1, d, e)
<1>1. CASE ~Mergeable(d, e)
  BY <1>1 DEF MergeFunctionMap
<1>2. CASE Mergeable(d, e)
  <2>1. <<d, e>> \in R
    BY <1>2
  <2>2. Good(m1) /\ Sound(R, m1) /\ m1.FunctionMap = g.FunctionMap
    BY <2>1, MergeCallGraphNodeGood
  <2> HIDE DEF m1
  <2>3. Good(m2) /\ Sound(R, m2) /\ m2.FunctionMap = g.FunctionMap
    BY <2>1, <2>2, MergeCallGraphNodeGood
  <2>4. MergeFunctionMap(g, d, e) = IF ClassOf[d] = NoClass \/ ClassOf[e] = NoClass
                                      THEN m1 ELSE m2
    BY <1>2 DEF MergeFunctionMap, m1
  <2> QED
    BY <2>2, <2>3, <2>4
<1> QED
  BY <1>1, <1>2
\* What adopting the parents of n2 makes of both lists.
LEMMA AdoptedEdges ==
  ASSUME NEW g, Good(g), NEW a, NEW n1 \in Node, NEW n2 \in Node,
         Adopted(g, g.parents[n2], n1, a)
  PROVE  /\ \A p \in Node : a.callees[p] =
              g.callees[p] \cup IF n2 \in g.callees[p] THEN {n1} ELSE {}
         /\ a.parents[n1] = g.parents[n1] \cup g.parents[n2]
         /\ \A c \in Node \ {n1} : a.parents[c] = g.parents[c]
<1>1. \A p \in Node : p \in g.parents[n2] <=> n2 \in g.callees[p]
  BY DEF Good, Mirror
<1>2. \A p \in Node : p \in g.parents[n1] <=> n1 \in g.callees[p]
  BY DEF Good, Mirror
<1>3. g.parents[n1] \subseteq Node /\ g.parents[n2] \subseteq Node
  BY DEF Good, Graph
<1>4. \A p \in Node : a.callees[p] =
        g.callees[p] \cup IF n2 \in g.callees[p] THEN {n1} ELSE {}
  BY <1>1 DEF Adopted
<1>5. a.parents[n1] = g.parents[n1] \cup {p \in g.parents[n2] : n1 \notin g.callees[p]}
  BY DEF Adopted
<1>6. a.parents[n1] = g.parents[n1] \cup g.parents[n2]
  BY <1>2, <1>3, <1>5
<1> QED
  BY <1>4, <1>6 DEF Adopted

\* The callees of p after the first part of a merge.
Filled(g, n1, n2, p) ==
  IF p = n1 /\ g.callees[n1] = {} THEN g.callees[n2]
  ELSE IF p = n2 /\ g.callees[n2] = {} THEN g.callees[n1]
  ELSE g.callees[p]

\* What merging n1 and n2 makes of the graph.  No edge is lost; nodes with the
\* same callees after the first part have the same afterwards, nodes with none
\* have none; n1 and n2 have the same parents; and a node that had all parents
\* of another one still has them, if the other one is not n1 or n2 or the node
\* has the parents of both.
Merged(g, n1, n2, m) ==
  /\ m.FunctionMap = g.FunctionMap
  /\ \A p \in Node : Filled(g, n1, n2, p) \subseteq m.callees[p]
  /\ \A p, q \in Node : Filled(g, n1, n2, p) = Filled(g, n1, n2, q)
                          => m.callees[p] = m.callees[q]
  /\ \A p \in Node : Filled(g, n1, n2, p) = {} => m.callees[p] = {}
  /\ m.parents[n1] = m.parents[n2]
  /\ \A c, d \in Node :
       /\ g.parents[d] \subseteq g.parents[c]
       /\ d \in {n1, n2} => \/ c \in {n1, n2}
                            \/ g.parents[n1] \cup g.parents[n2] \subseteq g.parents[c]
       => m.parents[d] \subseteq m.parents[c]

\* The first part keeps whose parents are among whose.
LEMMA FillEdges ==
  ASSUME NEW g, Good(g), NEW a, NEW n1 \in Node, NEW n2 \in Node, Fill(g, n1, n2, a)
  PROVE  /\ \A p \in Node : a.callees[p] = Filled(g, n1, n2, p)
         /\ \A c, d \in Node : g.parents[d] \subseteq g.parents[c]
                                 => a.parents[d] \subseteq a.parents[c]
<1>1. \A p \in Node : a.callees[p] = Filled(g, n1, n2, p)
  BY DEF Fill, Linked, Filled
<1>2. ASSUME NEW x \in Node, NEW y \in Node, Linked(g, x, g.callees[y], a),
             NEW c \in Node, NEW d \in Node, g.parents[d] \subseteq g.parents[c]
      PROVE  a.parents[d] \subseteq a.parents[c]
  <2>1. d \in g.callees[y] => c \in g.callees[y]
    BY <1>2 DEF Good, Mirror
  <2> QED
    BY <1>2, <2>1 DEF Linked
<1> QED
  BY <1>1, <1>2 DEF Fill

\* mergeCallGraphNode.
LEMMA MergedEdges ==
  ASSUME NEW g, Good(g),
         NEW n1 \in Decl \cap g.FunctionMap, NEW n2 \in Decl \cap g.FunctionMap
  PROVE  Merged(g, n1, n2, mergeCallGraphNode(g, n1, n2))
<1> DEFINE m == mergeCallGraphNode(g, n1, n2)
<1>1. PICK a, b : /\ Good(a) /\ Fill(g, n1, n2, a)
                  /\ Good(b) /\ Adopted(a, a.parents[n2], n1, b)
                  /\ Good(m) /\ Adopted(b, b.parents[n1], n2, m)
  BY MergeParts
<1> HIDE DEF m
<1>2. n1 \in Node /\ n2 \in Node
  BY DEF Node
<1>3. m.FunctionMap = g.FunctionMap
  BY <1>1 DEF Fill, Linked, Adopted
<1>4. /\ \A p \in Node : a.callees[p] = Filled(g, n1, n2, p)
      /\ \A c, d \in Node : g.parents[d] \subseteq g.parents[c]
                              => a.parents[d] \subseteq a.parents[c]
  BY <1>1, <1>2, FillEdges
<1>5. /\ \A p \in Node : b.callees[p] =
           a.callees[p] \cup IF n2 \in a.callees[p] THEN {n1} ELSE {}
      /\ b.parents[n1] = a.parents[n1] \cup a.parents[n2]
      /\ \A c \in Node \ {n1} : b.parents[c] = a.parents[c]
  BY <1>1, <1>2, AdoptedEdges
<1>6. /\ \A p \in Node : m.callees[p] =
           b.callees[p] \cup IF n1 \in b.callees[p] THEN {n2} ELSE {}
      /\ m.parents[n2] = b.parents[n2] \cup b.parents[n1]
      /\ \A c \in Node \ {n2} : m.parents[c] = b.parents[c]
  BY <1>1, <1>2, AdoptedEdges
<1>7. \A p \in Node : Filled(g, n1, n2, p) \subseteq m.callees[p]
  BY <1>4, <1>5, <1>6
<1>8. \A p, q \in Node : Filled(g, n1, n2, p) = Filled(g, n1, n2, q)
                           => m.callees[p] = m.callees[q]
  <2> SUFFICES ASSUME NEW p \in Node, NEW q \in Node,
                      Filled(g, n1, n2, p) = Filled(g, n1, n2, q)
               PROVE  m.callees[p] = m.callees[q]
    OBVIOUS
  <2>1. a.callees[p] = a.callees[q]
    BY <1>4
  <2>2. b.callees[p] = b.callees[q]
    BY <1>5, <2>1
  <2> QED
    BY <1>6, <2>2
<1>9. \A p \in Node : Filled(g, n1, n2, p) = {} => m.callees[p] = {}
  BY <1>4, <1>5, <1>6
<1>10. /\ m.parents[n1] = a.parents[n1] \cup a.parents[n2]
       /\ m.parents[n2] = a.parents[n1] \cup a.parents[n2]
       /\ \A c \in Node \ {n1, n2} : m.parents[c] = a.parents[c]
  BY <1>2, <1>5, <1>6
<1>11. ASSUME NEW c \in Node, NEW d \in Node,
              g.parents[d] \subseteq g.parents[c],
              d \in {n1, n2} => \/ c \in {n1, n2}
                                \/ g.parents[n1] \cup g.parents[n2] \subseteq g.parents[c]
       PROVE  m.parents[d] \subseteq m.parents[c]
  <2>1. a.parents[d] \subseteq a.parents[c]
    BY <1>4, <1>11
  <2>2. a.parents[c] \subseteq m.parents[c]
    BY <1>10
  <2>3. CASE d \notin {n1, n2}
    BY <1>10, <2>1, <2>2, <2>3
  <2>4. CASE c \in {n1, n2} /\ d \in {n1, n2}
    BY <1>10, <2>4
  <2>5. CASE g.parents[n1] \cup g.parents[n2] \subseteq g.parents[c] /\ d \in {n1, n2}
    <3>1. a.parents[n1] \subseteq a.parents[c] /\ a.parents[n2] \subseteq a.parents[c]
      BY <1>2, <1>4, <2>5
    <3> QED
      BY <1>10, <2>2, <2>5, <3>1
  <2> QED
    BY <1>11, <2>3, <2>4, <2>5
<1> QED
  BY <1>3, <1>7, <1>8, <1>9, <1>10, <1>11 DEF Merged, m

\* A turn of the loops for a pair that is merged, once or twice.
LEMMA MergeTurn ==
  ASSUME NEW g, Good(g), NEW d \in Decl \cap g.FunctionMap, NEW e \in Decl \cap g.FunctionMap,
         Mergeable(d, e)
  PROVE  Merged(g, d, e, MergeFunctionMap(g, d, e))
<1> DEFINE m == mergeCallGraphNode(g, d, e)
           mm == mergeCallGraphNode(m, d, e)
<1>1. MergeFunctionMap(g, d, e) = m \/ MergeFunctionMap(g, d, e) = mm
  BY DEF MergeFunctionMap
<1>2. Good(m) /\ Merged(g, d, e, m)
  BY MergeParts, MergedEdges
<1>3. d \in Node /\ e \in Node
  BY DEF Node
<1> HIDE DEF m
<1>4. d \in Decl \cap m.FunctionMap /\ e \in Decl \cap m.FunctionMap
  BY <1>2 DEF Merged
<1>5. Merged(m, d, e, mm)
  BY <1>2, <1>4, MergedEdges
<1> HIDE DEF mm
<1>6. \A p \in Node : Filled(m, d, e, p) = m.callees[p]
  <2>1. m.callees[d] = {} => m.callees[e] = {}
    <3>1. m.callees[d] = {} => Filled(g, d, e, d) = {}
      BY <1>2, <1>3 DEF Merged
    <3>2. Filled(g, d, e, d) = {} => Filled(g, d, e, e) = {}
      BY DEF Filled
    <3>3. Filled(g, d, e, e) = {} => m.callees[e] = {}
      BY <1>2, <1>3 DEF Merged
    <3> QED
      BY <3>1, <3>2, <3>3
  <2>2. m.callees[e] = {} => m.callees[d] = {}
    <3>1. m.callees[e] = {} => Filled(g, d, e, e) = {}
      BY <1>2, <1>3 DEF Merged
    <3>2. Filled(g, d, e, e) = {} => Filled(g, d, e, d) = {}
      BY DEF Filled
    <3>3. Filled(g, d, e, d) = {} => m.callees[d] = {}
      BY <1>2, <1>3 DEF Merged
    <3> QED
      BY <3>1, <3>2, <3>3
  <2> QED
    BY <2>1, <2>2 DEF Filled
<1>7. Merged(g, d, e, mm)
  <2>1. mm.FunctionMap = g.FunctionMap /\ mm.parents[d] = mm.parents[e]
    BY <1>2, <1>5 DEF Merged
  <2>2. \A p \in Node : Filled(g, d, e, p) \subseteq mm.callees[p]
    BY <1>2, <1>5, <1>6 DEF Merged
  <2>3. \A p, q \in Node : Filled(g, d, e, p) = Filled(g, d, e, q)
                             => mm.callees[p] = mm.callees[q]
    BY <1>2, <1>5, <1>6 DEF Merged
  <2>4. \A p \in Node : Filled(g, d, e, p) = {} => mm.callees[p] = {}
    BY <1>2, <1>5, <1>6 DEF Merged
  <2>5. ASSUME NEW x \in Node, NEW y \in Node,
               g.parents[y] \subseteq g.parents[x],
               y \in {d, e} => \/ x \in {d, e}
                               \/ g.parents[d] \cup g.parents[e] \subseteq g.parents[x]
        PROVE  mm.parents[y] \subseteq mm.parents[x]
    <3>1. m.parents[y] \subseteq m.parents[x] /\ m.parents[d] = m.parents[e]
      BY <1>2, <2>5 DEF Merged
    <3> QED
      BY <1>5, <3>1 DEF Merged
  <2> QED
    BY <2>1, <2>2, <2>3, <2>4, <2>5 DEF Merged
<1> QED
  BY <1>1, <1>2, <1>7

-----------------------------------------------------------------------------
(***************************************************************************)
(* The induction.  TypeOK and the three properties of the graph are not    *)
(* inductive alone: a merge is only harmless between two nodes that are on *)
(* the map, which is what the order of the merge is made of.               *)
(***************************************************************************)
OrderOnMap == \A i \in 1 .. Len(order) : order[i] \in graph.FunctionMap \cap Decl

IteratorsFresh == ~Merging => it = 1 /\ it2 = 2 /\ order = <<>>

IInv == TypeOK /\ Good(graph) /\ Sound(ByName, graph) /\ OrderOnMap /\ IteratorsFresh

\* Init establishes the invariant.
LEMMA InitIInv == Init => IInv
<1> SUFFICES ASSUME Init PROVE IInv
  OBVIOUS
<1>1. TypeOK
  BY ProgramAssumption DEF Init, TypeOK, Graph, Node
<1>2. Good(graph) /\ Sound(ByName, graph)
  BY NodeAssumption DEF Init, Good, Graph, Node, Hung, Mirror, Sound
<1>3. OrderOnMap /\ IteratorsFresh
  BY DEF Init, OrderOnMap, IteratorsFresh
<1> QED
  BY <1>1, <1>2, <1>3 DEF IInv

\* A function on 1 .. n is a sequence.
LEMMA FunctionIsSeq ==
  ASSUME NEW S, NEW n \in Nat, NEW o \in [1 .. n -> S]
  PROVE  o \in Seq(S) /\ Len(o) = n
<1>1. o \in Seq(S)
  BY SeqDef
<1> QED
  BY <1>1, LenProperties

\* A state with the same program keeps the soundness of a graph.
LEMMA SoundPrime ==
  ASSUME Sound(ByName, graph'), program' = program
  PROVE  Sound(ByName, graph)'
  BY DEF Sound, CallsBy, Walked

\* Every step preserves it.
LEMMA NextIInv == IInv /\ [Next]_vars => IInv'
<1> SUFFICES ASSUME IInv, [Next]_vars PROVE IInv'
  OBVIOUS
<1> USE DEF IInv
<1>1. CASE VisitFunctionDecl
  <2> DEFINE d == program.stream[visited + 1]
  <2>1. d \in Decl /\ program' = program /\ order' = order
    BY <1>1 DEF VisitFunctionDecl, Walking, TypeOK
  <2>2. /\ Good(graph') /\ Sound(ByName, graph')
        /\ graph.FunctionMap \subseteq graph'.FunctionMap
    <3>1. CASE includeInGraph(graph, d)
      <4>1. graph' = addNodeForDecl(graph, d, program.body[d])
        BY <1>1, <3>1 DEF VisitFunctionDecl
      <4>2. program.body \in [Decl -> SUBSET CallSite]
        BY DEF TypeOK
      <4>3. d \in Definition \ Skipped
        BY <3>1 DEF includeInGraph
      <4> HIDE DEF d
      <4> QED
        BY <2>1, <4>1, <4>2, <4>3, Equivalences, AddNodeForDeclGood
    <3>2. CASE ~includeInGraph(graph, d)
      BY <1>1, <3>2 DEF VisitFunctionDecl
    <3> QED
      BY <3>1, <3>2
  <2>3. TypeOK'
    BY <1>1, <2>1, <2>2 DEF VisitFunctionDecl, Walking, TypeOK, Good
  <2>4. OrderOnMap' /\ IteratorsFresh'
    BY <1>1, <2>1, <2>2 DEF OrderOnMap, IteratorsFresh, VisitFunctionDecl, Walking, Merging, TypeOK
  <2> QED
    BY <2>1, <2>2, <2>3, <2>4, SoundPrime DEF Good, Hung, Mirror
<1>2. CASE StartMerge
  <2> DEFINE ds == graph.FunctionMap \ {Root}
  <2>1. graph' = graph /\ program' = program
    BY <1>2 DEF StartMerge
  <2>2. ds \subseteq Decl /\ IsFiniteSet(ds)
    BY NodeAssumption, FS_Subset DEF TypeOK, Graph, Node
  <2>3. order' \in [1 .. Cardinality(ds) -> ds] /\ Cardinality(ds) \in Nat
    BY <1>2, <2>2, FS_CardinalityType DEF StartMerge, Orders
  <2> HIDE DEF ds
  <2>4. order' \in [1 .. Cardinality(ds) -> Decl]
    BY <2>2, <2>3
  <2>5. order' \in Seq(Decl) /\ Len(order') = Cardinality(ds)
    BY <2>3, <2>4, FunctionIsSeq
  <2>6. OrderOnMap'
    BY <2>1, <2>2, <2>3, <2>5 DEF OrderOnMap, ds
  <2>7. it = 1 /\ it2 = 2 /\ Merging'
    BY <1>2, <2>1 DEF StartMerge, IteratorsFresh, Merging, TypeOK
  <2>8. TypeOK' /\ IteratorsFresh'
    BY <1>2, <2>1, <2>5, <2>7 DEF StartMerge, TypeOK, IteratorsFresh
  <2> QED
    BY <2>1, <2>6, <2>8, SoundPrime DEF Good, Hung, Mirror
<1>3. CASE MergePair
  <2>1. /\ it \in 1 .. Len(order) /\ it2 \in 1 .. Len(order)
        /\ program' = program /\ order' = order
        /\ graph' = MergeFunctionMap(graph, order[it], order[it2])
    BY <1>3 DEF MergePair, TypeOK
  <2>2. order[it] \in Decl \cap graph.FunctionMap /\ order[it2] \in Decl \cap graph.FunctionMap
    BY <2>1 DEF OrderOnMap
  <2>3. Good(graph') /\ Sound(ByName, graph') /\ graph'.FunctionMap = graph.FunctionMap
    <3> DEFINE d == order[it]
               e == order[it2]
    <3>1. Mergeable(d, e) => <<d, e>> \in ByName
      BY <2>2 DEF Mergeable, ByName
    <3>2. program.body \in [Decl -> SUBSET CallSite]
      BY DEF TypeOK
    <3>3. d \in Decl \cap graph.FunctionMap /\ e \in Decl \cap graph.FunctionMap
      BY <2>2
    <3> HIDE DEF d, e
    <3>4. LET m == MergeFunctionMap(graph, d, e)
          IN  Good(m) /\ Sound(ByName, m) /\ m.FunctionMap = graph.FunctionMap
      BY <3>1, <3>2, <3>3, Equivalences, MergeFunctionMapGood
    <3> QED
      BY <2>1, <3>4 DEF d, e
  <2>4. TypeOK'
    BY <1>3, <2>1, <2>3 DEF MergePair, Merging, TypeOK, Good
  <2>5. OrderOnMap' /\ IteratorsFresh'
    BY <1>3, <2>1, <2>3 DEF OrderOnMap, IteratorsFresh, MergePair, Merging
  <2> QED
    BY <2>1, <2>3, <2>4, <2>5, SoundPrime DEF Good, Hung, Mirror
<1>4. CASE UNCHANGED vars
  BY <1>4 DEF vars, TypeOK, Good, Hung, Mirror, Sound, CallsBy, Walked,
              OrderOnMap, IteratorsFresh, Merging
<1> QED
  BY <1>1, <1>2, <1>3, <1>4 DEF Next

\* The invariant holds in every state the tool reaches.
LEMMA SpecIInv == Spec => []IInv
  BY InitIInv, NextIInv, PTL DEF Spec

\* An edge is a call of a walked body, so a call site of the program.
LEMMA EdgeIsCall ==
  ASSUME IInv, NEW p \in Decl, NEW c \in graph.callees[p]
  PROVE  CallsByName(p, c)
<1>1. PICK d \in Walked(graph) : \E b \in VisitCallExpr(program.body[d]) :
              <<d, p>> \in ByName /\ <<b, c>> \in ByName
  BY DEF IInv, Sound, CallsBy
<1>2. d \in Decl
  BY SourceAssumption DEF Walked
<1>3. PICK s \in program.body[d] :
              s.callee \in Decl /\ SameName(d, p) /\ SameName(s.callee, c)
  BY <1>1, <1>2 DEF VisitCallExpr, ByName
<1> QED
  BY <1>2, <1>3 DEF CallsByName
-----------------------------------------------------------------------------
(***************************************************************************)
(* The theorems.                                                           *)
(***************************************************************************)

\* Type correctness: whatever the program and the order of the merge, the
\* edges of the graph join nodes and the iterators of MergeFunctionMap stay
\* within the map.
THEOREM TypeCorrect == Spec => []TypeOK
<1>1. IInv => TypeOK
  BY DEF IInv
<1> QED
  BY <1>1, SpecIInv, PTL

\* Every function of FunctionMap hangs below the root and nothing calls the
\* root: print's traversal from the root (CallGraph.cpp:266) reaches every
\* function, and its assertion that no callee is the root cannot fail.
THEOREM AlwaysRooted == Spec => []Rooted
<1>1. IInv => Rooted
  BY DEF IInv, Good, Hung, Rooted
<1> QED
  BY <1>1, SpecIInv, PTL

\* The lists of callees and of parents always describe the same graph, which
\* addCallee and the four loops of mergeCallGraphNode keep up by hand.
THEOREM AlwaysEdgesMirror == Spec => []EdgesMirror
<1>1. IInv => EdgesMirror
  BY DEF IInv, Good, Mirror, EdgesMirror
<1> QED
  BY <1>1, SpecIInv, PTL

\* The walk and the merge invent no call: every edge between two functions
\* stands for a call that some body of the program makes between functions
\* of these names.
THEOREM AlwaysEdgesSound == Spec => []EdgesSound
<1>1. IInv => EdgesSound
  <2> SUFFICES ASSUME IInv, NEW p \in Decl, NEW c \in graph.callees[p]
               PROVE  CallsByName(p, c)
    BY DEF EdgesSound
  <2> QED
    BY EdgeIsCall
<1> QED
  BY <1>1, SpecIInv, PTL
-----------------------------------------------------------------------------
(***************************************************************************)
(* Nothing is lost.  Two findings say when something is: a call inside     *)
(* another call, and a definition that is called before it is visited.     *)
(* Programs without either lose nothing.                                   *)
(***************************************************************************)

\* The steps, as far as the following invariants look at them.
LEMMA VisitGraph ==
  ASSUME IInv, VisitFunctionDecl, NEW d, d = program.stream[visited + 1]
  PROVE  /\ d \in Decl /\ VisitCallExpr(program.body[d]) \subseteq Decl
         /\ \/ graph' = graph /\ ~includeInGraph(graph, d)
            \/ /\ includeInGraph(graph, d)
               /\ graph'.FunctionMap =
                    graph.FunctionMap \cup {d} \cup VisitCallExpr(program.body[d])
               /\ \A n \in Decl : graph'.callees[n] =
                    graph.callees[n] \cup IF n = d THEN VisitCallExpr(program.body[d]) ELSE {}
<1>1. d \in Decl /\ program.body \in [Decl -> SUBSET CallSite]
  BY DEF IInv, TypeOK, VisitFunctionDecl, Walking
<1>2. VisitCallExpr(program.body[d]) \subseteq Decl
  BY <1>1 DEF VisitCallExpr, CallSite
<1>3. CASE includeInGraph(graph, d)
  <2>1. graph' = addNodeForDecl(graph, d, program.body[d]) /\ d \in Definition \ Skipped
    BY <1>3 DEF VisitFunctionDecl, includeInGraph
  <2> QED
    BY <1>1, <1>2, <1>3, <2>1, Equivalences, AddNodeForDeclGood DEF IInv
<1>4. CASE ~includeInGraph(graph, d)
  BY <1>1, <1>2, <1>4 DEF VisitFunctionDecl
<1> QED
  BY <1>3, <1>4

\* A step of the merge looks at two nodes and merges them if the test passes.
LEMMA MergePairGraph ==
  ASSUME IInv, MergePair, NEW d, NEW e, d = order[it], e = order[it2]
  PROVE  /\ d \in Decl \cap graph.FunctionMap /\ e \in Decl \cap graph.FunctionMap
         /\ it \in 1 .. Len(order) /\ it2 \in 1 .. Len(order)
         /\ IF Mergeable(d, e) THEN Merged(graph, d, e, graph') ELSE graph' = graph
<1>1. /\ it \in 1 .. Len(order) /\ it2 \in 1 .. Len(order)
      /\ graph' = MergeFunctionMap(graph, d, e)
  BY DEF IInv, MergePair, TypeOK
<1>2. d \in Decl \cap graph.FunctionMap /\ e \in Decl \cap graph.FunctionMap
  BY <1>1 DEF IInv, OrderOnMap
<1>3. CASE Mergeable(d, e)
  BY <1>1, <1>2, <1>3, MergeTurn DEF IInv
<1>4. CASE ~Mergeable(d, e)
  BY <1>1, <1>2, <1>4 DEF MergeFunctionMap
<1> QED
  BY <1>1, <1>2, <1>3, <1>4

\* A merge takes no callee from a node.
LEMMA MergedGrows ==
  ASSUME NEW g, NEW m, NEW n1, NEW n2, Merged(g, n1, n2, m), NEW n \in Node
  PROVE  g.callees[n] \subseteq m.callees[n]
<1>1. g.callees[n] \subseteq Filled(g, n1, n2, n)
  BY DEF Filled
<1> QED
  BY <1>1 DEF Merged

\* What was visited is walked, and what is walked was visited.
WalkInv ==
  /\ program \in Program
  /\ \A i \in 1 .. Len(program.stream) :
       i <= visited /\ program.stream[i] \in Definition \ Skipped =>
         VisitCallExpr(program.body[program.stream[i]])
           \subseteq graph.callees[program.stream[i]]
  /\ \A d \in Walked(graph) : \E i \in 1 .. Len(program.stream) :
       i <= visited /\ program.stream[i] = d

\* Init establishes it.
LEMMA InitWalk == Init => WalkInv
<1>1. Root \notin Definition
  BY NodeAssumption, SourceAssumption
<1> QED
  BY <1>1, ProgramAssumption DEF Init, WalkInv, Walked

\* Every step preserves it.
LEMMA NextWalk ==
  ASSUME DefinedBeforeCalled
  PROVE  IInv /\ WalkInv /\ Next => WalkInv'
<1> SUFFICES ASSUME IInv, WalkInv, Next PROVE WalkInv'
  OBVIOUS
<1>1. /\ program.stream \in Seq(Decl) /\ visited \in 0 .. Len(program.stream) + 1
      /\ program' = program /\ program \in Program /\ Len(program.stream) \in Nat
  BY DEF IInv, TypeOK, WalkInv, Next, VisitFunctionDecl, StartMerge, MergePair
<1>2. CASE VisitFunctionDecl
  <2> DEFINE d == program.stream[visited + 1]
             called == VisitCallExpr(program.body[d])
  <2>1. visited' = visited + 1 /\ visited + 1 \in 1 .. Len(program.stream)
    BY <1>1, <1>2 DEF VisitFunctionDecl, Walking
  <2>2. /\ d \in Decl /\ called \subseteq Decl
        /\ \/ graph' = graph /\ ~includeInGraph(graph, d)
           \/ /\ includeInGraph(graph, d)
              /\ graph'.FunctionMap = graph.FunctionMap \cup {d} \cup called
              /\ \A n \in Decl : graph'.callees[n] =
                   graph.callees[n] \cup IF n = d THEN called ELSE {}
    BY <1>2, VisitGraph
  <2>3. \A c \in called \cap (Definition \ Skipped) :
          \E j \in 1 .. visited + 1 : program.stream[j] = c
    BY <1>1, <2>1 DEF DefinedBeforeCalled
  <2>4. ASSUME NEW x \in Walked(graph')
        PROVE  \E i \in 1 .. Len(program.stream) : i <= visited + 1 /\ program.stream[i] = x
    <3>1. CASE x \in Walked(graph)
      BY <1>1, <3>1 DEF WalkInv
    <3>2. CASE x = d
      BY <2>1, <3>2, <1>1
    <3>3. CASE x \in called /\ x \in Definition \ Skipped
      BY <1>1, <2>1, <2>3, <3>3
    <3> QED
      BY <2>2, <3>1, <3>2, <3>3 DEF Walked
  <2>5. ASSUME NEW i \in 1 .. Len(program.stream), i <= visited + 1,
               program.stream[i] \in Definition \ Skipped
        PROVE  VisitCallExpr(program.body[program.stream[i]])
                 \subseteq graph'.callees[program.stream[i]]
    <3>1. program.stream[i] \in Decl
      BY <1>1
    <3>2. CASE i <= visited
      BY <2>2, <2>5, <3>1, <3>2 DEF WalkInv
    <3>3. CASE i = visited + 1 /\ includeInGraph(graph, d)
      BY <2>2, <3>3
    <3>4. CASE i = visited + 1 /\ ~includeInGraph(graph, d)
      <4>1. d \in Walked(graph) /\ graph' = graph
        BY <2>2, <2>5, <3>4 DEF includeInGraph, Walked
      <4> QED
        BY <2>5, <3>4, <4>1 DEF WalkInv
    <3> QED
      BY <1>1, <2>5, <3>2, <3>3, <3>4
  <2> HIDE DEF d, called
  <2> QED
    BY <1>1, <2>1, <2>4, <2>5 DEF WalkInv, Walked
<1>3. CASE StartMerge
  BY <1>1, <1>3 DEF StartMerge, WalkInv, Walked
<1>4. CASE MergePair
  <2>1. \/ graph' = graph
        \/ \E d, e \in Node : Merged(graph, d, e, graph')
    BY <1>4, MergePairGraph DEF Node
  <2>2. graph'.FunctionMap = graph.FunctionMap /\ visited' = visited
    BY <1>4, <2>1 DEF Merged, MergePair
  <2>3. \A n \in Node : graph.callees[n] \subseteq graph'.callees[n]
    BY <2>1, MergedGrows
  <2>4. \A i \in 1 .. Len(program.stream) : program.stream[i] \in Node
    BY <1>1 DEF Node
  <2> QED
    BY <1>1, <2>2, <2>3, <2>4 DEF WalkInv, Walked
<1> QED
  BY <1>2, <1>3, <1>4 DEF Next

\* It holds in every state.
LEMMA SpecWalk ==
  ASSUME DefinedBeforeCalled
  PROVE  Spec => []WalkInv
<1>1. IInv /\ WalkInv /\ UNCHANGED vars => WalkInv'
  BY DEF vars, WalkInv, Walked
<1> QED
  BY <1>1, InitWalk, NextWalk, SpecIInv, PTL DEF Spec

\* The walk processes the calls of every definition it visits
\* (CallGraph.cpp:242), and no merge takes a call from it again.
THEOREM AlwaysBodiesWalked ==
  ASSUME DefinedBeforeCalled
  PROVE  Spec => []BodiesWalked
<1>1. IInv /\ WalkInv => BodiesWalked
  BY DEF IInv, TypeOK, WalkInv, BodiesWalked, Walking
<1> QED
  BY <1>1, SpecIInv, SpecWalk, PTL

\* Every call site of a definition that has a node is an edge, once the walk is
\* over and through the whole merge (CallGraph.cpp:29).
THEOREM AlwaysAllCallSites ==
  ASSUME DefinedBeforeCalled, CallsNotNested
  PROVE  Spec => []AllCallSites
<1>1. ASSUME IInv, WalkInv, ~Walking, NEW d \in Walked(graph),
             NEW s \in program.body[d], s.callee \in Decl
      PROVE  s.callee \in graph.callees[d]
  <2>1. PICK i \in 1 .. Len(program.stream) : i <= visited /\ program.stream[i] = d
    BY <1>1 DEF WalkInv
  <2>2. d \in Definition \ Skipped /\ d \in Decl
    BY <1>1, SourceAssumption DEF Walked
  <2>3. s.callee \in VisitCallExpr(program.body[d])
    BY <1>1, <2>2, NodeAssumption DEF WalkInv, CallsNotNested, VisitCallExpr, Node
  <2> QED
    BY <1>1, <2>1, <2>2, <2>3 DEF WalkInv
<1>2. IInv /\ WalkInv => AllCallSites
  BY <1>1 DEF AllCallSites, Walked
<1> QED
  BY <1>2, SpecIInv, SpecWalk, PTL
-----------------------------------------------------------------------------
(***************************************************************************)
(* The merge and the names.  The test of MergeFunctionMap lets a plain     *)
(* function pass with a method of any class that has its name, and joins   *)
(* what the classes keep apart.  In programs where no plain function has   *)
(* the name of a method the test finds the declarations of one function.   *)
(***************************************************************************)

\* The nodes are those of declarations the walk has seen.
MapInv == program \in Program /\ graph.FunctionMap \ {Root} \subseteq Appears(program)

\* At the start there is no node but the root.
LEMMA InitMap == Init => MapInv
  BY DEF Init, MapInv

\* A step adds nodes only for the declaration it visits and for what that calls.
LEMMA NextMap == IInv /\ MapInv /\ [Next]_vars => MapInv'
<1> SUFFICES ASSUME IInv, MapInv, [Next]_vars PROVE MapInv'
  OBVIOUS
<1>1. program' = program
  BY DEF Next, VisitFunctionDecl, StartMerge, MergePair, vars
<1>2. CASE VisitFunctionDecl
  <2> DEFINE d == program.stream[visited + 1]
             called == VisitCallExpr(program.body[d])
  <2>1. visited + 1 \in 1 .. Len(program.stream)
    BY <1>2 DEF VisitFunctionDecl, Walking, IInv, TypeOK
  <2>2. d \in Appears(program) /\ called \subseteq Appears(program)
    BY <2>1 DEF Appears
  <2>3. graph' = graph \/ graph'.FunctionMap = graph.FunctionMap \cup {d} \cup called
    BY <1>2, VisitGraph
  <2> HIDE DEF d, called
  <2> QED
    BY <1>1, <2>2, <2>3 DEF MapInv
<1>3. CASE StartMerge \/ UNCHANGED vars
  BY <1>1, <1>3 DEF StartMerge, vars, MapInv
<1>4. CASE MergePair
  <2>1. graph'.FunctionMap = graph.FunctionMap
    BY <1>4, MergePairGraph DEF Merged
  <2> QED
    BY <1>1, <2>1 DEF MapInv
<1> QED
  BY <1>2, <1>3, <1>4 DEF Next

\* So the nodes are what appears in the program, throughout.
LEMMA SpecMap == Spec => []MapInv
  BY InitMap, NextMap, SpecIInv, PTL DEF Spec

\* The declarations the merge takes for one are those of one function.
LEMMA MergeableIsOneFunction ==
  ASSUME NamesApart, MapInv, NEW d \in graph.FunctionMap \ {Root},
         NEW e \in graph.FunctionMap \ {Root}
  PROVE  Mergeable(d, e) <=> OneFunction(d, e)
<1>1. SameName(d, e) => (ClassOf[d] = NoClass <=> ClassOf[e] = NoClass)
  BY DEF MapInv, NamesApart
<1> QED
  BY <1>1 DEF Mergeable, OneFunction

\* Every edge is a call of a walked body up to the functions, not only up to
\* the names.
LEMMA NextByFunction ==
  ASSUME NamesApart
  PROVE  IInv /\ MapInv /\ Sound(ByFunction, graph) /\ [Next]_vars => Sound(ByFunction, graph)'
<1> SUFFICES ASSUME IInv, MapInv, Sound(ByFunction, graph), [Next]_vars
             PROVE  Sound(ByFunction, graph)'
  OBVIOUS
<1>1. program' = program /\ program.body \in [Decl -> SUBSET CallSite]
  BY DEF Next, VisitFunctionDecl, StartMerge, MergePair, vars, IInv, TypeOK
<1>2. SUFFICES Sound(ByFunction, graph')
  BY <1>1 DEF Sound, CallsBy, Walked
<1>3. CASE VisitFunctionDecl
  <2> DEFINE d == program.stream[visited + 1]
  <2>1. d \in Decl
    BY <1>3, VisitGraph
  <2>2. CASE includeInGraph(graph, d)
    <3>1. graph' = addNodeForDecl(graph, d, program.body[d]) /\ d \in Definition \ Skipped
      BY <1>3, <2>2 DEF VisitFunctionDecl, includeInGraph
    <3> HIDE DEF d
    <3> QED
      BY <1>1, <2>1, <3>1, Equivalences, AddNodeForDeclGood DEF IInv
  <2>3. CASE ~includeInGraph(graph, d)
    BY <1>3, <2>3 DEF VisitFunctionDecl
  <2> QED
    BY <2>2, <2>3
<1>4. CASE StartMerge \/ UNCHANGED vars
  BY <1>4 DEF StartMerge, vars
<1>5. CASE MergePair
  <2> DEFINE d == order[it]
             e == order[it2]
  <2>1. /\ d \in Decl \cap graph.FunctionMap /\ e \in Decl \cap graph.FunctionMap
        /\ graph' = MergeFunctionMap(graph, d, e)
    BY <1>5, MergePairGraph DEF MergePair
  <2>2. d # Root /\ e # Root
    BY <2>1, NodeAssumption
  <2> HIDE DEF d, e
  <2>3. Mergeable(d, e) => <<d, e>> \in ByFunction
    BY <2>1, <2>2, MergeableIsOneFunction DEF ByFunction
  <2> QED
    BY <1>1, <2>1, <2>3, Equivalences, MergeFunctionMapGood DEF IInv
<1> QED
  BY <1>3, <1>4, <1>5 DEF Next

\* Up to the functions merged, every edge is a call of the program.
LEMMA SpecByFunction ==
  ASSUME NamesApart
  PROVE  Spec => []Sound(ByFunction, graph)
<1>1. Init => Sound(ByFunction, graph)
  BY NodeAssumption DEF Init, Sound, Node
<1> QED
  BY <1>1, NextByFunction, SpecIInv, SpecMap, PTL DEF Spec

\* Methods of different classes are kept apart (CallGraph.cpp:184): what calls
\* a method calls the method of that class.
THEOREM AlwaysClassesApart ==
  ASSUME NamesApart
  PROVE  Spec => []ClassesApart
<1>1. ASSUME IInv, Sound(ByFunction, graph), NEW p \in Decl, NEW c \in graph.callees[p]
      PROVE  \E d \in Decl : \E s \in program.body[d] :
               s.callee \in Decl /\ SameName(d, p) /\ OneFunction(s.callee, c)
  <2>1. PICK d \in Walked(graph) : \E b \in VisitCallExpr(program.body[d]) :
                <<d, p>> \in ByFunction /\ <<b, c>> \in ByFunction
    BY <1>1 DEF Sound, CallsBy
  <2>2. d \in Decl
    BY SourceAssumption DEF Walked
  <2>3. PICK s \in program.body[d] :
                s.callee \in Decl /\ OneFunction(d, p) /\ OneFunction(s.callee, c)
    BY <2>1, <2>2 DEF VisitCallExpr, ByFunction
  <2> QED
    BY <2>2, <2>3 DEF OneFunction
<1>2. IInv /\ Sound(ByFunction, graph) => ClassesApart
  BY <1>1 DEF ClassesApart
<1> QED
  BY <1>2, SpecIInv, SpecByFunction, PTL
-----------------------------------------------------------------------------
(***************************************************************************)
(* What the merge is for.  MergeFunctionMap goes once over the pairs of    *)
(* nodes, and a pair merged early does not see what its nodes get later.   *)
(* That all declarations of a function agree in the end rests on the order *)
(* of the pairs.  The first node of a function has, after each pair, the   *)
(* parents of all nodes it was paired with; when it has been paired with   *)
(* the last node of the function, the last one has the parents of all; and *)
(* every later node gets them when it is paired with the last.             *)
(***************************************************************************)
Index == 1 .. Len(order)

\* The loops have come past the pair of the nodes at a and b.
Passed(a, b) == a < b /\ (a < it \/ (a = it /\ b < it2))

Together(a, b) == OneFunction(order[a], order[b])

\* The node at a has the parents of the node at b, and of all of its function.
Has(a, b) == graph.parents[order[b]] \subseteq graph.parents[order[a]]
Full(a) == \A c \in Index : Together(a, c) => Has(a, c)

IsFirst(a) == \A c \in Index : Together(c, a) => a <= c
IsLast(b) == \A c \in Index : Together(c, b) => c <= b

\* The nodes of the map are the ones the merge goes over.
OrderIsMap ==
  Merging => \A d \in graph.FunctionMap \ {Root} : \E a \in Index : order[a] = d

ParentsInv ==
  /\ \A a, b \in Index : Together(a, b) /\ Passed(a, b) /\ IsFirst(a) => Has(a, b)
  /\ \A a, b \in Index : Together(a, b) /\ Passed(a, b) /\ IsLast(b) => Full(a) /\ Full(b)

\* A step of the merge passes one pair.
LEMMA PassedNext ==
  ASSUME IInv, MergePair, NEW a \in Index, NEW b \in Index
  PROVE  Passed(a, b)' <=> Passed(a, b) \/ (a = it /\ b = it2)
  BY DEF IInv, TypeOK, MergePair, Passed, Index

\* The order holds every node of the map (that it holds them once each and has
\* as many places says so).
LEMMA OrderCovers ==
  ASSUME IInv, StartMerge, NEW d \in graph.FunctionMap \ {Root}
  PROVE  \E a \in 1 .. Len(order') : order'[a] = d
<1> DEFINE ds == graph.FunctionMap \ {Root}
           n == Cardinality(ds)
<1>1. ds \subseteq Decl /\ IsFiniteSet(ds)
  BY NodeAssumption, FS_Subset DEF IInv, TypeOK, Graph, Node
<1>2. n \in Nat
  BY <1>1, FS_CardinalityType
<1>3. order' \in [1 .. n -> ds] /\ \A i, j \in DOMAIN order' : i # j => order'[i] # order'[j]
  BY DEF StartMerge, Orders
<1>4. d \in ds
  OBVIOUS
<1> HIDE DEF ds
<1>5. order' \in Injection(1 .. n, ds)
  BY <1>3 DEF Injection, IsInjective
<1>6. Cardinality(1 .. n) = n
  BY <1>2, FS_Interval
<1>7. order' \in Surjection(1 .. n, ds)
  BY <1>1, <1>5, <1>6, FS_Injection
<1>8. Len(order') = n
  BY <1>2, <1>3, FunctionIsSeq
<1> QED
  BY <1>4, <1>7, <1>8 DEF Surjection

\* A set of numbers that is not empty has a least one.
LEMMA LeastNumber ==
  ASSUME NEW S \in SUBSET Nat, NEW a \in S
  PROVE  \E m \in S : \A c \in S : m <= c
<1> DEFINE less == {ss \in Nat \X Nat : ss[1] < ss[2]}
<1>1. IsWellFoundedOn(less, Nat)
  BY NatLessThanWellFounded, Zenon DEF OpToRel
<1>2. \A x, y \in Nat : x < y => <<x, y>> \in less
  OBVIOUS
<1> HIDE DEF less
<1>3. PICK m \in S : \A c \in S : <<c, m>> \notin less
  BY <1>1, WFMin
<1>4. ASSUME NEW c \in S PROVE m <= c
  <2>1. c \in Nat /\ m \in Nat /\ ~(c < m)
    BY <1>2, <1>3
  <2> QED
    BY <2>1
<1> QED
  BY <1>4

\* A set of places that is not empty has a last one.
LEMMA LastPlace ==
  ASSUME NEW n \in Nat, NEW S \in SUBSET (1 .. n), NEW a \in S
  PROVE  \E m \in S : \A c \in S : c <= m
<1> DEFINE U == {u \in Nat : \A c \in S : c <= u}
<1>1. n \in U
  OBVIOUS
<1>2. PICK m \in U : \A u \in U : m <= u
  <2>1. U \in SUBSET Nat
    OBVIOUS
  <2> HIDE DEF U
  <2> QED
    BY <1>1, <2>1, LeastNumber
<1>3. m \in S
  <2> SUFFICES ASSUME m \notin S PROVE FALSE
    OBVIOUS
  <2>1. \A c \in S : c <= m - 1
    BY <1>2
  <2>2. m - 1 \in Nat
    BY <1>2
  <2>3. m - 1 \in U
    BY <2>1, <2>2
  <2> QED
    BY <1>2, <2>3
<1> QED
  BY <1>2, <1>3

\* Being declarations of one function is an equivalence.
LEMMA TogetherEquivalence ==
  ASSUME NEW a, NEW b, Together(a, b)
  PROVE  /\ Together(b, a)
         /\ \A c : Together(b, c) => Together(a, c)
  BY DEF Together, OneFunction, SameName

\* What a step of the merge does, seen from the places of the two nodes.
TurnAt(i, j) ==
  /\ order' = order /\ i < j
  /\ \A a, b \in Index :
       /\ Has(a, b)
       /\ Together(i, j) /\ Together(b, i) => a = i \/ (Has(a, i) /\ Has(a, j))
       => Has(a, b)'
  /\ \A a \in Index : Full(a) => Full(a)'
  /\ Together(i, j) => graph'.parents[order[i]] = graph'.parents[order[j]]

\* Each step of the merge is such a turn for the places of its iterators.
LEMMA TurnPlaces ==
  ASSUME NamesApart, IInv, MapInv, MergePair
  PROVE  it \in Index /\ it2 \in Index /\ TurnAt(it, it2)
<1> DEFINE d == order[it]
           e == order[it2]
<1>1. /\ d \in Decl \cap graph.FunctionMap /\ e \in Decl \cap graph.FunctionMap
      /\ it \in Index /\ it2 \in Index
      /\ IF Mergeable(d, e) THEN Merged(graph, d, e, graph') ELSE graph' = graph
  BY MergePairGraph DEF Index
<1>2. order' = order /\ it < it2 /\ \A a \in Index : order[a] \in Node
  BY DEF MergePair, IInv, TypeOK, Index, Node
<1>3. d # Root /\ e # Root
  BY <1>1, NodeAssumption
<1>4. Mergeable(d, e) <=> Together(it, it2)
  BY <1>1, <1>3, MergeableIsOneFunction DEF Together
<1>5. CASE ~Mergeable(d, e)
  BY <1>1, <1>2, <1>4, <1>5 DEF TurnAt, Has, Full, Together, Index
<1>6. CASE Mergeable(d, e)
  <2>1. Merged(graph, d, e, graph')
    BY <1>1, <1>6
  <2>2. graph'.parents[d] = graph'.parents[e]
    BY <2>1 DEF Merged
  <2>3. ASSUME NEW a \in Index, NEW b \in Index, Has(a, b),
               order[b] \in {d, e} => \/ order[a] \in {d, e}
                                      \/ Has(a, it) /\ Has(a, it2)
        PROVE  Has(a, b)'
    <3>1. order[a] \in Node /\ order[b] \in Node
      BY <1>2
    <3>2. graph.parents[order[b]] \subseteq graph.parents[order[a]]
      BY <2>3 DEF Has
    <3>3. order[b] \in {d, e} => \/ order[a] \in {d, e}
                                 \/ graph.parents[d] \cup graph.parents[e]
                                      \subseteq graph.parents[order[a]]
      BY <2>3 DEF Has
    <3>4. graph'.parents[order[b]] \subseteq graph'.parents[order[a]]
      BY <2>1, <3>1, <3>2, <3>3 DEF Merged
    <3> QED
      BY <1>2, <3>4 DEF Has
  <2>4. \A b \in Index : order[b] \in {d, e} => Together(b, it) /\ Together(b, it2)
    BY <1>4, <1>6 DEF Together, OneFunction, SameName
  <2>5. \A a, b \in Index :
          /\ Has(a, b)
          /\ Together(it, it2) /\ Together(b, it) => a = it \/ (Has(a, it) /\ Has(a, it2))
          => Has(a, b)'
    BY <1>4, <1>6, <2>3, <2>4
  <2>6. ASSUME NEW a \in Index, Full(a)
        PROVE  Full(a)'
    <3>1. ASSUME NEW b \in Index, Together(a, b)
          PROVE  Has(a, b)'
      <4>1. Has(a, b)
        BY <2>6, <3>1 DEF Full
      <4>2. order[b] \in {d, e} => Together(a, it) /\ Together(a, it2)
        BY <2>4, <3>1 DEF Together, OneFunction, SameName
      <4>3. order[b] \in {d, e} => Has(a, it) /\ Has(a, it2)
        BY <1>1, <2>6, <4>2 DEF Full
      <4> QED
        BY <2>3, <4>1, <4>3
    <3> QED
      BY <1>2, <3>1 DEF Full, Index, Together
  <2> QED
    BY <1>1, <1>2, <2>2, <2>5, <2>6 DEF TurnAt
<1> QED
  BY <1>5, <1>6

\* Every step preserves what the pairs passed have brought together.
LEMMA NextParents ==
  ASSUME NamesApart
  PROVE  IInv /\ MapInv /\ ParentsInv /\ [Next]_vars => ParentsInv'
<1> SUFFICES ASSUME IInv, MapInv, ParentsInv, [Next]_vars
             PROVE  ParentsInv'
  OBVIOUS
<1>1. CASE VisitFunctionDecl \/ StartMerge
  <2>1. it' = 1 /\ it2' = 2 /\ Len(order') \in Nat
    <3>1. ~Merging /\ it' = it /\ it2' = it2
      BY <1>1 DEF VisitFunctionDecl, StartMerge, Walking, Merging, IInv, TypeOK
    <3>2. order' \in Seq(Decl)
      BY <1>1, NextIInv DEF Next, IInv, TypeOK
    <3> QED
      BY <3>1, <3>2 DEF IInv, IteratorsFresh
  <2>2. \A a, b \in Index' : ~Passed(a, b)'
    BY <2>1 DEF Passed, Index
  <2> QED
    BY <2>2 DEF ParentsInv
<1>2. CASE UNCHANGED vars
  BY <1>2 DEF vars, ParentsInv, Index, Together, Passed, IsFirst, IsLast, Has, Full
<1>3. CASE MergePair
  <2> DEFINE i == it
             j == it2
  <2>1. i \in Index /\ j \in Index /\ TurnAt(i, j)
    BY <1>3, TurnPlaces
  <2>2. \A a, b \in Index : Passed(a, b)' <=> Passed(a, b) \/ (a = i /\ b = j)
    BY <1>3, PassedNext
  <2>3. /\ \A a \in Index : a < i => Passed(a, j) /\ (\A c \in Index : a < c => Passed(a, c))
        /\ \A c \in Index : i < c /\ c < j => Passed(i, c)
        /\ i < j /\ \A a \in Index : a \in Nat
    BY <2>1 DEF Passed, Index, TurnAt, IInv, TypeOK
  <2> HIDE DEF i, j
  <2>4. /\ order' = order /\ Index' = Index
        /\ \A a, b : Together(a, b)' <=> Together(a, b)
        /\ \A a : IsFirst(a)' <=> IsFirst(a)
        /\ \A a : IsLast(a)' <=> IsLast(a)
    BY <2>1 DEF TurnAt, Index, Together, IsFirst, IsLast
  <2>5. ASSUME NEW a \in Index, NEW b \in Index, Together(a, b), Passed(a, b)', IsFirst(a)
        PROVE  Has(a, b)'
    <3>1. CASE a = i /\ b = j
      BY <2>1, <2>4, <2>5, <3>1 DEF TurnAt, Has
    <3>2. CASE Passed(a, b)
      <4>1. Has(a, b)
        BY <2>5, <3>2 DEF ParentsInv
      <4>2. ASSUME Together(i, j), Together(b, i), a # i
            PROVE  Has(a, i) /\ Has(a, j)
        <5>1. Together(i, a) /\ Together(a, i) /\ Together(a, j)
          BY <2>5, <4>2, TogetherEquivalence
        <5>2. a < i
          BY <2>1, <2>3, <2>5, <4>2, <5>1 DEF IsFirst
        <5>3. Passed(a, i) /\ Passed(a, j)
          BY <2>1, <2>3, <5>2
        <5> QED
          BY <2>1, <2>5, <5>1, <5>3 DEF ParentsInv
      <4> QED
        BY <2>1, <4>1, <4>2 DEF TurnAt
    <3> QED
      BY <2>2, <2>5, <3>1, <3>2
  <2>6. ASSUME NEW a \in Index, NEW b \in Index, Together(a, b), Passed(a, b)', IsLast(b)
        PROVE  Full(a)' /\ Full(b)'
    <3>1. CASE Passed(a, b)
      <4>1. Full(a) /\ Full(b)
        BY <2>6, <3>1 DEF ParentsInv
      <4> QED
        BY <2>1, <4>1 DEF TurnAt
    <3>2. CASE a = i /\ b = j
      <4>1. graph'.parents[order[a]] = graph'.parents[order[b]]
        BY <2>1, <2>6, <3>2 DEF TurnAt
      <4>2. \A c : Together(a, c) <=> Together(b, c)
        BY <2>6, TogetherEquivalence
      <4>3. Full(a)' <=> Full(b)'
        BY <2>4, <4>1, <4>2 DEF Full, Has
      <4>4. CASE IsFirst(a)
        <5>1. ASSUME NEW c \in Index, Together(a, c)
              PROVE  Has(a, c)'
          <6>1. a <= c /\ c <= b
            BY <2>6, <4>2, <4>4, <5>1, TogetherEquivalence DEF IsFirst, IsLast
          <6>2. CASE c = a
            BY <6>2 DEF Has
          <6>3. CASE c = b
            BY <2>4, <4>1, <6>3 DEF Has
          <6>4. CASE a < c /\ c < b
            <7>1. Has(a, c)
              BY <2>3, <3>2, <4>4, <5>1, <6>4 DEF ParentsInv
            <7> QED
              BY <2>1, <3>2, <7>1 DEF TurnAt
          <6> QED
            BY <2>3, <6>1, <6>2, <6>3, <6>4
        <5>2. Full(a)'
          BY <2>4, <5>1 DEF Full
        <5> QED
          BY <4>3, <5>2
      <4>5. CASE ~IsFirst(a)
        <5>1. PICK c \in Index : Together(c, a) /\ c < a
          BY <2>3, <4>5 DEF IsFirst
        <5>2. Together(c, b) /\ Passed(c, b)
          BY <2>3, <2>6, <3>2, <5>1, TogetherEquivalence
        <5>3. Full(b)
          BY <2>6, <5>2 DEF ParentsInv
        <5>4. Full(b)'
          BY <2>1, <5>3 DEF TurnAt
        <5> QED
          BY <4>3, <5>4
      <4> QED
        BY <4>4, <4>5
    <3> QED
      BY <2>2, <2>6, <3>1, <3>2
  <2> QED
    BY <2>4, <2>5, <2>6 DEF ParentsInv
<1> QED
  BY <1>1, <1>2, <1>3 DEF Next

\* The merge goes over the map as it was when the merge began, which is as it
\* is: a merge inserts no node.
LEMMA NextOrderIsMap == IInv /\ OrderIsMap /\ [Next]_vars => OrderIsMap'
<1> SUFFICES ASSUME IInv, OrderIsMap, [Next]_vars PROVE OrderIsMap'
  OBVIOUS
<1>1. CASE VisitFunctionDecl
  BY <1>1 DEF VisitFunctionDecl, Walking, OrderIsMap, Merging, IInv, TypeOK
<1>2. CASE StartMerge
  <2>1. graph' = graph
    BY <1>2 DEF StartMerge
  <2> QED
    BY <1>2, <2>1, OrderCovers DEF OrderIsMap, Index
<1>3. CASE MergePair
  <2>1. graph'.FunctionMap = graph.FunctionMap
    BY <1>3, MergePairGraph DEF Merged
  <2>2. order' = order /\ (Merging' <=> Merging)
    BY <1>3 DEF MergePair, Merging
  <2> QED
    BY <2>1, <2>2 DEF OrderIsMap, Index
<1>4. CASE UNCHANGED vars
  BY <1>4 DEF vars, OrderIsMap, Merging, Index
<1> QED
  BY <1>1, <1>2, <1>3, <1>4 DEF Next

\* Before the walk there is no order.
LEMMA InitParents == Init => OrderIsMap /\ ParentsInv
  BY ProgramAssumption DEF Init, OrderIsMap, Merging, ParentsInv, Index

\* The places joined so far are joined, whatever the order of the map.
LEMMA SpecParents ==
  ASSUME NamesApart
  PROVE  Spec => [](OrderIsMap /\ ParentsInv)
  BY InitParents, NextOrderIsMap, NextParents, SpecIInv, SpecMap, PTL DEF Spec

\* At the end every node has been paired with the last one of its function.
LEMMA JoinedAtEnd ==
  ASSUME IInv, OrderIsMap, ParentsInv, Done,
         NEW d \in graph.FunctionMap \ {Root}, NEW e \in graph.FunctionMap \ {Root},
         OneFunction(d, e)
  PROVE  graph.parents[d] = graph.parents[e]
<1>1. PICK a \in Index, b \in Index : order[a] = d /\ order[b] = e
  BY DEF Done, OrderIsMap
<1>2. Together(a, b)
  BY <1>1 DEF Together
<1>3. Len(order) \in Nat /\ it >= Len(order) /\ it \in Nat
  BY DEF IInv, TypeOK, Done
<1>4. PICK m \in {c \in Index : Together(a, c)} : \A c \in {x \in Index : Together(a, x)} : c <= m
  <2> DEFINE S == {c \in Index : Together(a, c)}
  <2>1. S \in SUBSET (1 .. Len(order)) /\ b \in S
    BY <1>2 DEF Index
  <2> HIDE DEF S
  <2>2. \E m \in S : \A c \in S : c <= m
    BY <1>3, <2>1, LastPlace
  <2> QED
    BY <2>2 DEF S
<1>5. /\ IsLast(m) /\ Together(a, m) /\ Together(b, m)
      /\ a <= m /\ b <= m /\ m \in Index
  <2>1. \A c : Together(c, m) => Together(a, c)
    BY <1>4, TogetherEquivalence
  <2>2. Together(b, m)
    BY <1>2, <1>4, TogetherEquivalence
  <2>3. Together(a, a)
    BY DEF Together, OneFunction, SameName
  <2> QED
    BY <1>2, <1>4, <2>1, <2>2, <2>3 DEF IsLast
<1>6. \A c \in Index : c < m => Passed(c, m)
  BY <1>3, <1>5 DEF Passed, Index
<1>7. CASE a # b
  <2>1. a \in Nat /\ b \in Nat /\ m \in Nat
    BY DEF Index
  <2>2. (a < m => Full(a) /\ Full(m)) /\ (b < m => Full(b) /\ Full(m))
    BY <1>5, <1>6 DEF ParentsInv
  <2>3. Full(a) /\ Full(b)
    BY <1>5, <1>7, <2>1, <2>2
  <2>4. Together(b, a)
    BY <1>2, TogetherEquivalence
  <2>5. Has(a, b) /\ Has(b, a)
    BY <1>2, <2>3, <2>4 DEF Full
  <2>6. /\ graph.parents[order[b]] \subseteq graph.parents[order[a]]
        /\ graph.parents[order[a]] \subseteq graph.parents[order[b]]
    BY <2>5 DEF Has
  <2>7. graph.parents[order[a]] = graph.parents[order[b]]
    BY <2>6
  <2> QED
    BY <1>1, <2>7
<1> QED
  BY <1>1, <1>7

\* After the merge all declarations of a function have the same callers,
\* whatever the order in which the map was gone over (CallGraph.cpp:171).
THEOREM AlwaysMergeJoinsCallers ==
  ASSUME NamesApart
  PROVE  Spec => []MergeJoinsCallers
<1>1. IInv /\ OrderIsMap /\ ParentsInv => MergeJoinsCallers
  BY JoinedAtEnd DEF MergeJoinsCallers
<1> QED
  BY <1>1, SpecIInv, SpecParents, PTL
-----------------------------------------------------------------------------
(***************************************************************************)
(* The callees.  A declaration without a body starts with none and takes   *)
(* those of the first node it is paired with that has some.  If its        *)
(* function has one definition, these are the definition's, directly or    *)
(* by another declaration; and nodes with the same callees keep the same.  *)
(***************************************************************************)

\* d is a declaration of the function that e alone defines.
Declares(d, e) ==
  /\ d \in graph.FunctionMap \ ({Root} \cup Definition)
  /\ e \in (graph.FunctionMap \ {Root}) \cap Definition
  /\ OneFunction(d, e)
  /\ \A f \in graph.FunctionMap \cap Definition : OneFunction(e, f) => f = e

CalleesInv ==
  /\ ~Merging => \A d \in Decl \ Definition : graph.callees[d] = {}
  /\ \A d, e : Declares(d, e) => graph.callees[d] \in {{}, graph.callees[e]}
  /\ Merging => \A a, b \in Index : Passed(a, b) =>
       /\ Declares(order[a], order[b]) => graph.callees[order[a]] = graph.callees[order[b]]
       /\ Declares(order[b], order[a]) => graph.callees[order[a]] = graph.callees[order[b]]

\* What a merge of two nodes of one function makes of a declaration and its
\* definition.
LEMMA MergedCallees ==
  ASSUME NEW n1 \in graph.FunctionMap \ {Root}, NEW n2 \in graph.FunctionMap \ {Root},
         OneFunction(n1, n2), Merged(graph, n1, n2, graph'), graph.FunctionMap \subseteq Node,
         CalleesInv, NEW d, NEW e, Declares(d, e)
  PROVE  /\ graph'.callees[d] \in {{}, graph'.callees[e]}
         /\ graph.callees[d] = graph.callees[e] => graph'.callees[d] = graph'.callees[e]
         /\ {n1, n2} = {d, e} => graph'.callees[d] = graph'.callees[e]
<1> DEFINE F(p) == Filled(graph, n1, n2, p)
<1>1. d \in Node /\ e \in Node /\ d # e
  BY DEF Declares
<1>2. graph.callees[d] \in {{}, graph.callees[e]}
  BY DEF CalleesInv
<1>3. CASE ~OneFunction(n1, e)
  <2>1. d \notin {n1, n2} /\ e \notin {n1, n2}
    BY <1>3 DEF Declares, OneFunction, SameName
  <2>2. F(d) = graph.callees[d] /\ F(e) = graph.callees[e]
    BY <2>1 DEF Filled
  <2>3. {n1, n2} # {d, e}
    BY <2>1
  <2> HIDE DEF F
  <2>4. F(d) = F(e) => graph'.callees[d] = graph'.callees[e]
    BY <1>1 DEF Merged, F
  <2>5. F(d) = {} => graph'.callees[d] = {}
    BY <1>1 DEF Merged, F
  <2> QED
    BY <1>2, <2>2, <2>3, <2>4, <2>5
<1>4. CASE OneFunction(n1, e)
  <2>1. ASSUME NEW n \in {n1, n2}
        PROVE  graph.callees[n] \in {{}, graph.callees[e]}
    <3>1. n \in graph.FunctionMap \ {Root} /\ OneFunction(n, e) /\ OneFunction(e, n)
      BY <1>4 DEF OneFunction, SameName
    <3>2. CASE n \in Definition
      BY <3>1, <3>2 DEF Declares
    <3>3. CASE n \notin Definition
      <4>1. Declares(n, e)
        BY <3>1, <3>3 DEF Declares
      <4> QED
        BY <4>1 DEF CalleesInv
    <3> QED
      BY <3>2, <3>3
  <2>2. F(e) = graph.callees[e]
    BY <2>1 DEF Filled
  <2>3. F(d) \in {{}, graph.callees[e]}
    BY <1>2, <2>1 DEF Filled
  <2>4. graph.callees[d] = graph.callees[e] => F(d) = graph.callees[e]
    BY <2>1 DEF Filled
  <2>5. {n1, n2} = {d, e} => F(d) = graph.callees[e]
    <3>1. CASE n1 = d /\ n2 = e
      BY <1>2, <3>1 DEF Filled
    <3>2. CASE n1 = e /\ n2 = d
      BY <1>1, <1>2, <3>2 DEF Filled
    <3> QED
      BY <1>1, <3>1, <3>2
  <2> HIDE DEF F
  <2>6. F(d) = F(e) => graph'.callees[d] = graph'.callees[e]
    BY <1>1 DEF Merged, F
  <2>7. F(d) = {} => graph'.callees[d] = {}
    BY <1>1 DEF Merged, F
  <2> QED
    BY <2>2, <2>3, <2>4, <2>5, <2>6, <2>7
<1> QED
  BY <1>3, <1>4

\* The walk gives no callees to a declaration without a body.
LEMMA InitCallees == Init => CalleesInv
<1> SUFFICES ASSUME Init PROVE CalleesInv
  OBVIOUS
<1>1. ~Merging /\ \A d \in Node : graph.callees[d] = {}
  BY ProgramAssumption DEF Init, Merging
<1>2. \A d, e : Declares(d, e) => FALSE
  BY DEF Init, Declares
<1> QED
  BY <1>1, <1>2 DEF CalleesInv, Node

\* Every step preserves it.
LEMMA NextCallees ==
  ASSUME NamesApart
  PROVE  IInv /\ MapInv /\ CalleesInv /\ [Next]_vars => CalleesInv'
<1> SUFFICES ASSUME IInv, MapInv, CalleesInv, [Next]_vars
             PROVE  CalleesInv'
  OBVIOUS
<1>1. graph.FunctionMap \subseteq Node /\ graph'.FunctionMap \subseteq Node
  BY NextIInv DEF IInv, TypeOK, Graph
<1>2. CASE VisitFunctionDecl
  <2>1. ~Merging /\ ~Merging'
    BY <1>2 DEF VisitFunctionDecl, Walking, Merging, IInv, TypeOK
  <2>2. ASSUME NEW d \in Decl \ Definition
        PROVE  graph'.callees[d] = {}
    <3>1. graph.callees[d] = {}
      BY <2>1 DEF CalleesInv
    <3>2. graph'.callees[d] = graph.callees[d]
      <4> DEFINE x == program.stream[visited + 1]
      <4>1. \/ graph' = graph
            \/ /\ includeInGraph(graph, x)
               /\ \A n \in Decl : graph'.callees[n] =
                    graph.callees[n] \cup IF n = x THEN VisitCallExpr(program.body[x]) ELSE {}
        BY <1>2, VisitGraph
      <4>2. includeInGraph(graph, x) => x # d
        BY DEF includeInGraph
      <4> HIDE DEF x
      <4> QED
        BY <4>1, <4>2
    <3> QED
      BY <3>1, <3>2
  <2>3. \A d, e : Declares(d, e)' => d \in Decl \ Definition
    BY <1>1 DEF Declares, Node
  <2> QED
    BY <2>1, <2>2, <2>3 DEF CalleesInv
<1>3. CASE StartMerge
  <2>1. graph' = graph /\ it' = 1 /\ it2' = 2 /\ Len(order') \in Nat
    <3>1. ~Merging /\ it' = it /\ it2' = it2 /\ graph' = graph
      BY <1>3 DEF StartMerge, Merging, IInv, TypeOK
    <3>2. order' \in Seq(Decl)
      BY <1>3, NextIInv DEF Next, IInv, TypeOK
    <3> QED
      BY <3>1, <3>2 DEF IInv, IteratorsFresh
  <2>2. Merging' /\ \A a, b \in Index' : ~Passed(a, b)'
    BY <1>3, <2>1 DEF Passed, Index, StartMerge, Merging
  <2>3. \A d, e : Declares(d, e)' <=> Declares(d, e)
    BY <2>1 DEF Declares
  <2> QED
    BY <2>1, <2>2, <2>3 DEF CalleesInv
<1>4. CASE UNCHANGED vars
  BY <1>4 DEF vars, CalleesInv, Merging, Declares, Index, Passed
<1>5. CASE MergePair
  <2> DEFINE n1 == order[it]
             n2 == order[it2]
  <2>1. /\ n1 \in Decl \cap graph.FunctionMap /\ n2 \in Decl \cap graph.FunctionMap
        /\ IF Mergeable(n1, n2) THEN Merged(graph, n1, n2, graph') ELSE graph' = graph
    BY <1>5, MergePairGraph
  <2>2. n1 # Root /\ n2 # Root
    BY <2>1, NodeAssumption
  <2>3. Merging /\ Merging' /\ order' = order /\ Index' = Index
    BY <1>5 DEF MergePair, Merging, Index
  <2>4. \A a, b \in Index : Passed(a, b)' <=> Passed(a, b) \/ (a = it /\ b = it2)
    BY <1>5, PassedNext
  <2>5. graph'.FunctionMap = graph.FunctionMap
    BY <2>1 DEF Merged
  <2>6. \A d, e : Declares(d, e)' <=> Declares(d, e)
    BY <2>5 DEF Declares
  <2>7. Mergeable(n1, n2) <=> OneFunction(n1, n2)
    BY <2>1, <2>2, MergeableIsOneFunction
  <2>8. ASSUME NEW d, NEW e, Declares(d, e)
        PROVE  /\ graph'.callees[d] \in {{}, graph'.callees[e]}
               /\ graph.callees[d] = graph.callees[e] => graph'.callees[d] = graph'.callees[e]
               /\ {n1, n2} = {d, e} => graph'.callees[d] = graph'.callees[e]
    <3>1. CASE OneFunction(n1, n2)
      <4> HIDE DEF n1, n2
      <4> QED
        BY <1>1, <2>1, <2>2, <2>7, <2>8, <3>1, MergedCallees
    <3>2. CASE ~OneFunction(n1, n2)
      <4>1. graph' = graph
        BY <2>1, <2>7, <3>2
      <4>2. {n1, n2} # {d, e}
        BY <2>8, <3>2 DEF Declares, OneFunction, SameName
      <4> QED
        BY <2>8, <4>1, <4>2 DEF CalleesInv
    <3> QED
      BY <3>1, <3>2
  <2>9. ASSUME NEW a \in Index, NEW b \in Index, Passed(a, b)'
        PROVE  /\ Declares(order[a], order[b]) =>
                    graph'.callees[order[a]] = graph'.callees[order[b]]
               /\ Declares(order[b], order[a]) =>
                    graph'.callees[order[a]] = graph'.callees[order[b]]
    <3>1. CASE Passed(a, b)
      BY <2>3, <2>8, <3>1 DEF CalleesInv
    <3>2. CASE a = it /\ b = it2
      BY <2>8, <3>2
    <3> QED
      BY <2>4, <2>9, <3>1, <3>2
  <2> HIDE DEF n1, n2
  <2> QED
    BY <2>3, <2>6, <2>8, <2>9 DEF CalleesInv
<1> QED
  BY <1>2, <1>3, <1>4, <1>5 DEF Next

\* A declaration has no callees or those of its only definition, throughout the merge.
LEMMA SpecCallees ==
  ASSUME NamesApart
  PROVE  Spec => []CalleesInv
  BY InitCallees, NextCallees, SpecIInv, SpecMap, PTL DEF Spec

\* After the merge a declaration without a body has the callees of the one
\* definition of its function, whatever it was merged with on the way
\* (CallGraph.cpp:115).
THEOREM AlwaysMergeSharesCallees ==
  ASSUME NamesApart
  PROVE  Spec => []MergeSharesCallees
<1>1. ASSUME IInv, OrderIsMap, CalleesInv, Done, NEW d, NEW e, Declares(d, e)
      PROVE  graph.callees[d] = graph.callees[e]
  <2>1. PICK a \in Index, b \in Index : order[a] = d /\ order[b] = e
    BY <1>1 DEF Done, OrderIsMap, Declares
  <2>2. a # b
    BY <1>1, <2>1 DEF Declares
  <2>3. Passed(a, b) \/ Passed(b, a)
    BY <1>1, <2>2 DEF Passed, Index, IInv, TypeOK, Done
  <2> QED
    BY <1>1, <2>1, <2>3 DEF CalleesInv, Done
<1>2. IInv /\ OrderIsMap /\ CalleesInv => MergeSharesCallees
  BY <1>1 DEF MergeSharesCallees, Declares
<1> QED
  BY <1>2, SpecIInv, SpecParents, SpecCallees, PTL
=============================================================================
