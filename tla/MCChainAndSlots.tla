-------------------------- MODULE MCChainAndSlots --------------------------
(***************************************************************************)
(* The chain of segments that writers keep, and the sequences that the     *)
(* scheduler hands out.  The two are checked in one run and have nothing   *)
(* else in common: `part' says which of them a behaviour is of, and the    *)
(* other stays as it begins.                                               *)
(*                                                                         *)
(* p1 and p2 are the processes that write and, with p3, the jobs.          *)
(***************************************************************************)
EXTENDS SegmentSet, Scheduler

CONSTANTS p1, p2, p3, s1

VARIABLE part

MCInit == part \in {"chain", "slots"} /\ PalaInit /\ Init

MCNext == \/ part = "chain" /\ PalaNext /\ UNCHANGED <<part, vars>>
          \/ part = "slots" /\ Next /\ UNCHANGED <<part, palaVars>>

MCSpec == MCInit /\ [][MCNext]_<<part, palaVars, vars>>

Symmetry == Permutations({p1, p2})
=============================================================================
