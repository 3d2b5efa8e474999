------------------------ MODULE MCGatewayCoordinator ------------------------
(* GatewayCoordinator on a small instance: three calls, one binding and a    *)
(* second request key whose row can be offered to a foreign lease.           *)
EXTENDS GatewayRefinement, TLC

CONSTANTS c1, c2, c3, b1, k1, k2, v1, v2

MCRequestOf == [b \in {b1} |-> k1]
MCTime == 0..2
MCWindow == {[observed |-> 0, until |-> 2]}
MCSymmetry == Permutations({c1, c2, c3}) \cup Permutations({v1, v2})
=============================================================================
