---------------------------- MODULE MCAuditKey ----------------------------
(***************************************************************************)
(* Two processes on their first run.                                       *)
(***************************************************************************)
EXTENDS AuditKey

CONSTANTS p1, p2
=============================================================================
