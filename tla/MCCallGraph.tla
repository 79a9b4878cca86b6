---------------------------- MODULE MCCallGraph ----------------------------
(***************************************************************************)
(* Instances of CallGraph for TLC.                                         *)
(*                                                                         *)
(* Functions: main and f, g with a declaration (f0, g0) and a definition   *)
(* (f1, g1): the usual case of files that see each other's headers.        *)
(* Methods: C::h declared and defined (ch0, ch1), D::h (dh1) and C::g      *)
(* (cg1), the last in one program only.                                    *)
(***************************************************************************)
EXTENDS CallGraph, SequencesExt, TLC

CONSTANTS main, f0, f1, g0, g1, ch0, ch1, dh1, cg1, C, D

Functions == {main, f0, f1, g0, g1}
Methods == {ch0, ch1, dh1}
MCDecl == Functions \cup Methods \cup {cg1}
MCDefinition == {main, f1, g1, ch1, dh1, cg1}
MCName == (main :> "main") @@ (f0 :> "f") @@ (f1 :> "f") @@ (g0 :> "g") @@ (g1 :> "g")
          @@ (cg1 :> "g") @@ [d \in Methods |-> "h"]
MCClass == [d \in Functions |-> NoClass] @@ (ch0 :> C) @@ (ch1 :> C) @@ (dh1 :> D)
           @@ (cg1 :> C)

Site(c) == [callee |-> c, nested |-> FALSE]
NestedSite(c) == [callee |-> c, nested |-> TRUE]

\* The program with the bodies b and no others.
With(stream, b) ==
  [stream |-> stream, body |-> [d \in MCDecl |-> IF d \in DOMAIN b THEN b[d] ELSE {}]]

\* What a body may call where it stands: what was declared before it, itself.
Earlier(stream, d) ==
  LET at(x) == CHOOSE i \in DOMAIN stream : stream[i] = x
  IN  {x \in ToSet(stream) : at(x) <= at(d)}

\* The programs over a stream in which each definition calls at most "most"
\* of the declarations before it.
Programs(streams, most) ==
  UNION {LET defs == ToSet(st) \cap MCDefinition
             called == {b \in [defs -> {T \in SUBSET ToSet(st) : Cardinality(T) <= most}] :
                          \A d \in defs : b[d] \subseteq Earlier(st, d)}
         IN  {With(st, [d \in defs |-> {Site(x) : x \in b[d]}]) : b \in called} :
         st \in streams}

\* Plain functions spread over files, in several orders of the command line,
\* and two functions that call each other.
CPrograms ==
  Programs({<<f0, main, g0, f1, g1>>, <<g1, g0, f1, f0, main>>, <<f0, f1, g0, main, g1>>}, 1)
  \cup {With(st, (main :> {Site(f0), Site(main)}) @@ (f1 :> {Site(g0), Site(f0)})
                 @@ (g1 :> {Site(g0), Site(f1), Site(main)})) :
          st \in {<<main, f0, g0, f1, g1>>, <<f0, g0, main, f1, g1>>}}

\* Methods of two classes with one name.
CxxPrograms ==
  Programs({<<ch0, dh1, ch1, main>>, <<dh1, main, ch0, ch1>>, <<ch0, main, ch1, dh1>>}, 2)

MCProgram == CPrograms \cup CxxPrograms

\* Calls through pointers and calls inside the arguments of calls.
NestedProgram ==
  {With(<<f0, g0, main>>, main :> B) : B \in SUBSET {Site(NoDecl), Site(f0), NestedSite(g0)}}

\* Two methods defined in their class, where each may call the other.
InClassProgram ==
  {With(<<f0, ch1, cg1, main>>, (ch1 :> B) @@ (cg1 :> {Site(f0)}) @@ (main :> {Site(ch1)})) :
     B \in SUBSET {Site(ch1), Site(cg1)}}

\* In the first programs nothing is lost or confused.
ASSUME MCHypotheses ==
  Program = MCProgram => DefinedBeforeCalled /\ CallsNotNested /\ NamesApart
=============================================================================
