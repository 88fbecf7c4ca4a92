------------------------ MODULE MCProgramSegmenter ------------------------
(* ProgramSegmenter with one recorder pinning a ring of one or two segments. *)
EXTENDS ProgramSegmenter

CONSTANTS c1, p1
=============================================================================
