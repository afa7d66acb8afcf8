----------------------- MODULE MCCapabilityAuthority -----------------------
(* Instances of CapabilityAuthority for TLC. *)
EXTENDS CapabilityAuthority, TLC

CONSTANTS p1, c1, c2

OneParent == {p1}
TwoClients == {c1, c2}
AllOfOne == (c1 :> p1) @@ (c2 :> p1)
=============================================================================
