----------------------------- MODULE MCReaders -----------------------------
(***************************************************************************)
(* What is read of a container: by the tailing reader, and by whoever      *)
(* judges a statement about its chain.  The two are checked in one run and *)
(* have nothing else in common: `part' says which of them a behaviour is   *)
(* of, and the other stays as it begins.                                   *)
(***************************************************************************)
EXTENDS Tailing, StatementRuns

VARIABLE part

statementVars == <<evidenceVars, draft>>

MCInit == part \in {"tail", "statements"} /\ TailInit /\ StatementInit

\* A chain may grow no more; the tailing reader polls for ever.
MCNext == \/ part = "tail" /\ TailNext /\ UNCHANGED <<part, statementVars>>
          \/ /\ part = "statements"
             /\ StatementNext \/ UNCHANGED statementVars
             /\ UNCHANGED <<part, tailingVars>>

\* TailFairness, where the tailing reader is the part that moves.
MCSpec == /\ MCInit /\ [][MCNext]_<<part, tailingVars, statementVars>>
          /\ WF_tailingVars(part = "tail" /\ TakeSize)
          /\ WF_tailingVars(part = "tail" /\ DrainReplaced)
          /\ WF_tailingVars(part = "tail" /\ Drain)
          /\ WF_tailingVars(part = "tail" /\ Tick)
=============================================================================
