----------------------------- MODULE MCInherit -----------------------------
(***************************************************************************)
(* Inherit with threads of low, middle and high priority, one mutex of     *)
(* each protocol.                                                          *)
(***************************************************************************)
EXTENDS Inherit, TLC

CONSTANTS low, middle, high, idle, inheriting, ceiling

Threads == {low, middle, high, idle}
ThreadPri == (low :> 2) @@ (middle :> 1) @@ (high :> 0) @@ (idle :> MinPri)
Priorities == (low :> {0, 2}) @@ (middle :> {1, 2}) @@ (high :> {})
Ceilings == ceiling :> 0
=============================================================================
