------------------------- MODULE MCTrunkSegments -------------------------
(* TrunkSegments on small instances: two cursors, one or two publishers. *)
EXTENDS TrunkSegments

CONSTANTS c1, c2, p1, p2
=============================================================================
