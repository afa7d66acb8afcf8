------------------------ MODULE MCSubAgentRuntime ------------------------
(* Instances of SubAgentRuntime for TLC. *)
EXTENDS SubAgentRuntime, TLC

CONSTANTS p1, c1, c2

OneParent == {p1}
TwoChildren == {c1, c2}

TwoOfOne == [c \in {c1, c2} |-> p1]
Siblings == Permutations({c1, c2})
=============================================================================
