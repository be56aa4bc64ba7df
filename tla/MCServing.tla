----------------------------- MODULE MCServing -----------------------------
(***************************************************************************)
(* The endpoint's calls, and the audit log of palimpsest-core.  The two    *)
(* are checked in one run and have nothing else in common: `part' says     *)
(* which of them a behaviour is of, and the other stays as it begins.      *)
(*                                                                         *)
(* t1 and t2 are the threads of the one and the processes of the other.    *)
(***************************************************************************)
EXTENDS Serve, AuditLog, TLC

CONSTANTS t1, t2, w1, w2, e1, h1, h2, s1, s2, claude

VARIABLE part

MCInit == part \in {"calls", "log"} /\ ServeInit /\ Init

MCNext == \/ part = "calls" /\ ServeNext /\ UNCHANGED <<part, vars>>
          \/ part = "log" /\ Next /\ UNCHANGED <<part, serveVars>>

MCSpec == MCInit /\ [][MCNext]_<<part, serveVars, vars>>

Symmetry == Permutations({t1, t2}) \cup Permutations({h1, h2})
=============================================================================
