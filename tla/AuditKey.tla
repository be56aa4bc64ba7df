----------------------------- MODULE AuditKey -----------------------------
(***************************************************************************)
(* load_or_create_key (audit/key_manager.py): processes that need the key  *)
(* of the audit database at the same time, on a first run.  Each call into *)
(* the OS keychain is a step.                                              *)
(***************************************************************************)
CONSTANTS Proc,   \* the processes; each generates a key of its own
          None    \* no key

VARIABLES stored,  \* the keychain's entry: who generated the key in it
          pc,      \* pc[p]: what load_or_create_key does next in p
          key      \* key[p]: what it returned

vars == <<stored, pc, key>>

Init == /\ stored = None
        /\ pc = [p \in Proc |-> "get"]
        /\ key = [p \in Proc |-> None]

\* get_password: an entry is taken as it is.
Get(p) == /\ pc[p] = "get"
          /\ pc' = [pc EXCEPT ![p] = IF stored = None THEN "set" ELSE "done"]
          /\ key' = [key EXCEPT ![p] = stored]
          /\ UNCHANGED stored

\* set_password replaces whatever is there.
Set(p) == /\ pc[p] = "set"
          /\ stored' = p
          /\ pc' = [pc EXCEPT ![p] = "readback"]
          /\ UNCHANGED key

\* get_password again: "what actually won".
ReadBack(p) == /\ pc[p] = "readback"
               /\ key' = [key EXCEPT ![p] = IF stored = None THEN p ELSE stored]
               /\ pc' = [pc EXCEPT ![p] = "done"]
               /\ UNCHANGED stored

Next == \E p \in Proc : Get(p) \/ Set(p) \/ ReadBack(p)

Spec == Init /\ [][Next]_vars

-----------------------------------------------------------------------------
\* "Converging on the stored value makes the race harmless: both callers end up
\* with the same key."
CallersConverge ==
    \A p, q \in Proc : pc[p] = "done" /\ pc[q] = "done" => key[p] = key[q]
=============================================================================
