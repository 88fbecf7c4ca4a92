-------------------------- MODULE MCBlockingReload --------------------------
(* BlockingReload with two or three clients competing for one or two slots. *)
EXTENDS BlockingReload

CONSTANTS r1, r2, p1, p2
=============================================================================
