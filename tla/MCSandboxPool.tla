--------------------------- MODULE MCSandboxPool ---------------------------
(* Instances of SandboxPool for TLC. *)
EXTENDS SandboxPool

CONSTANTS a, b, h, c1, c2, c3

TwoClients == {a, b}
OneCheck == {h}
Ids == {c1, c2, c3}
Interchangeable == Permutations(Ids) \cup Permutations(TwoClients)
=============================================================================
