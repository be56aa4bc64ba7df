----------------------------- MODULE CallLedger -----------------------------
(***************************************************************************)
(* What a record of tool calls promises, whoever keeps it: a call is put   *)
(* down once, a result belongs to a call that was put down before it, and  *)
(* no call gets a second result.                                           *)
(***************************************************************************)
EXTENDS Naturals

VARIABLES
    calls,      \* the calls on record
    results     \* the results: where each stands, and the call it belongs to

vars == <<calls, results>>

Resolved == {r[2] : r \in results}

Init == calls = {} /\ results = {}

Call == /\ \E c \in calls' \ calls : calls' = calls \cup {c}
        /\ UNCHANGED results

Result == /\ \E r \in results' \ results :
               /\ r[2] \in calls \ Resolved
               /\ results' = results \cup {r}
          /\ UNCHANGED calls

Next == Call \/ Result

Spec == Init /\ [][Next]_vars
=============================================================================
