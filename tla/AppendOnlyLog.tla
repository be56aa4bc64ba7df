--------------------------- MODULE AppendOnlyLog ---------------------------
(***************************************************************************)
(* What palimpsests.audit.log promises about its table of events, without  *)
(* processes, locks, transactions or a keychain: one log that only grows,  *)
(* whose rows are chained by hash, and a mark (the anchored row) that only *)
(* moves forward over rows that are already in the log.                    *)
(***************************************************************************)
EXTENDS HashChain

VARIABLES log,        \* the rows every reader agrees on
          mark        \* how many of them the anchor covers

Init == log = <<>> /\ mark = 0

\* Rows are added at the end and never changed; one commit may add several.
Extend == /\ Len(log') > Len(log)
          /\ SubSeq(log', 1, Len(log)) = log
          /\ Linear(log')
          /\ UNCHANGED mark

\* The anchor moves forward, to a row that is there.
Advance == /\ mark' \in (mark + 1)..Len(log)
           /\ UNCHANGED log

Next == Extend \/ Advance

Spec == Init /\ [][Next]_<<log, mark>>
=============================================================================
