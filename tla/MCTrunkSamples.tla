-------------------------- MODULE MCTrunkSamples --------------------------
(* TrunkSamples with one cursor: cursors share nothing but the rings. *)
EXTENDS TrunkSamples

CONSTANTS c1
=============================================================================
