------------------------- MODULE MCDisposableParent -------------------------
(* Instances of DisposableParent for TLC. *)
EXTENDS DisposableParent

CONSTANTS r1, r2

TwoRuns == {r1, r2}
=============================================================================
