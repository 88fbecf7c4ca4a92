---------------------------- MODULE MCTrunkParts ----------------------------
(* TrunkParts with three segment numbers in a ring of three parts. *)
EXTENDS TrunkParts
=============================================================================
