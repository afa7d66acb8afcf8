---------------------------- MODULE MCAgentTurn ----------------------------
(* Instances of AgentTurn for TLC. *)
EXTENDS AgentTurn, TLC

CONSTANTS c1, c2

TwoActions == {1, 2}
TwoChildren == {c1, c2}
BothFirst == (c1 :> 1) @@ (c2 :> 1)
=============================================================================
