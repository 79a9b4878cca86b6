---------------------------- MODULE MCThreadList ----------------------------
(***************************************************************************)
(* ThreadList with the idle thread, two thread objects and two callers.    *)
(***************************************************************************)
EXTENDS ThreadList, TLC

CONSTANT idle

Symmetry == Permutations(Thread \ {Idle}) \cup Permutations(Caller)
=============================================================================
