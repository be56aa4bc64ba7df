--------------------------- MODULE MCNativeEngine ---------------------------
(***************************************************************************)
(* Model values for the native engine.                                     *)
(***************************************************************************)
EXTENDS NativeEngine, TLC

CONSTANTS c1, c2, r1, k1, i1
=============================================================================
