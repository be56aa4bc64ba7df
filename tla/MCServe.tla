------------------------------ MODULE MCServe ------------------------------
(***************************************************************************)
(* Two threads of a serve with one reported call, as model values.  The    *)
(* passing run of the same routes is MCServing.                            *)
(***************************************************************************)
EXTENDS Serve

CONSTANTS t1, t2, e1, claude
=============================================================================
