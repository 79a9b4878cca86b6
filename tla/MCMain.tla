-------------------------------- MODULE MCMain -------------------------------
(***************************************************************************)
(* An instance of Main for TLC: two source files; main in the package      *)
(* "kernel", f and g declared in headers (f0, g0) and defined elsewhere    *)
(* (f1, g1), and a static function of the name of g in a file of no        *)
(* package (g2).                                                           *)
(***************************************************************************)
EXTENDS Main, TLC

CONSTANTS main, f0, f1, g0, g1, g2

MCDecl == {main, f0, f1, g0, g1, g2}
MCDefinition == {main, f1, g1, g2}
MCName == (main :> "main") @@ (f0 :> "f") @@ (f1 :> "f")
          @@ [d \in {g0, g1, g2} |-> "g"]
MCClass == [d \in MCDecl |-> NoClass]

MCKeys == <<"infra", "isoinfra", "kernel", "language", "services">>

\* The header of f and the file of g have special names.
MCPatterns == (main :> {"kernel"}) @@ (f0 :> {"infra"}) @@ (f1 :> {"infra"})
              @@ (g0 :> {"math.h"}) @@ (g1 :> {"mathincl", "language"}) @@ (g2 :> {})

With(units, b) ==
  [stream |-> units[1] \o units[2],
   units |-> units,
   body |-> [d \in MCDecl |-> IF d \in DOMAIN b
                                THEN {[callee |-> c, nested |-> FALSE] : c \in b[d]}
                                ELSE {}]]

\* main calls f and g, they call themselves, each other, or main.
MCProgram ==
  {With(<<<<f0, g0, main>>, <<f1, g1>>>>, (main :> M) @@ (f1 :> F) @@ (g1 :> G)) :
     M \in {{}, {f0}, {f0, g0}}, F \in {{}, {f0}, {g0}, {f0, g0}}, G \in {{}, {g0}, {f0}}}
  \cup {With(<<<<g1>>, <<f0, f1, main>>>>, (main :> {f0, g1}) @@ (f1 :> F) @@ (g1 :> {g1})) :
          F \in {{g1}, {f1}}}
  \cup {With(<<<<g2, g0>>, <<f0, main, f1>>>>, (main :> M) @@ (f1 :> F)) :
          M \in {{}, {f0}, {g2}}, F \in {{}, {g0}}}

MCTroubled == {With(<<<<f0, g0, main>>, <<f1, g1>>>>, (main :> {f0, g0}) @@ (f1 :> {g0}))}

\* The programs are ones in which nothing is lost or confused.
ASSUME MCHypotheses == DefinedBeforeCalled /\ CallsNotNested /\ UniqueNames
=============================================================================
