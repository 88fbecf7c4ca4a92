--------------------------- MODULE MCTrunkEvents ---------------------------
(* TrunkEvents on a clock of a few ticks, so that an addition saturates and *)
(* a wall-clock time can fall before the origin and beyond the end.         *)
EXTENDS TrunkEvents

CONSTANTS r1

TwoAnchors == {[pts_90k |-> 0, utc_epoch_ms |-> 1], [pts_90k |-> 4, utc_epoch_ms |-> 1]}
=============================================================================
