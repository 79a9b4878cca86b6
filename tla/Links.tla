------------------------------- MODULE Links -------------------------------
(***************************************************************************)
(* What a loop along the links of objects meets: the list of DSRs and the  *)
(* chains of intr.cxx, and the housekeeping list of thread.cxx.            *)
(***************************************************************************)
EXTENDS Naturals, Sequences, FiniteSets

\* The objects from first on, along link, up to the link that is none.  The
\* loop is left after as many objects as there are.
Linked(link, none, first) ==
  LET From[n \in 0 .. Cardinality(DOMAIN link)] ==
        [i \in DOMAIN link \cup {none} |->
           IF n = 0 \/ i = none THEN <<>> ELSE <<i>> \o From[n - 1][link[i]]]
  IN  From[Cardinality(DOMAIN link)][first]
=============================================================================
