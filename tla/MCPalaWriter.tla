--------------------------- MODULE MCPalaWriter ---------------------------
(***************************************************************************)
(* Two processes and one span id, as model values.  The passing run of the *)
(* same writer is MCChainAndSlots.                                         *)
(***************************************************************************)
EXTENDS SegmentSet

CONSTANTS p1, p2, s1
=============================================================================
