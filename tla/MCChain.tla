------------------------------ MODULE MCChain ------------------------------
(***************************************************************************)
(* Chain with three interrupt objects on one chain, two of them of one     *)
(* vector.                                                                 *)
(***************************************************************************)
EXTENDS Chain, TLC

CONSTANTS i1, i2, i3, v, w

MCIndex == (v :> 1) @@ (w :> 1)
MCVector == (i1 :> v) @@ (i2 :> v) @@ (i3 :> w)
MCPriority == (i1 :> 1) @@ (i2 :> 1) @@ (i3 :> 2)
=============================================================================
