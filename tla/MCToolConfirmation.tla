------------------------- MODULE MCToolConfirmation -------------------------
(* Instances of ToolConfirmation for TLC. *)
EXTENDS ToolConfirmation, TLC

CONSTANTS c1, c2, t1, t2, r1, r2

TwoCalls == {c1, c2}
OneTurn  == {t1}
TwoTurns == {t1, t2}
TwoConfirms == {r1, r2}

Symmetry == Permutations(TwoCalls) \cup Permutations(TwoTurns) \cup Permutations(TwoConfirms)
=============================================================================
