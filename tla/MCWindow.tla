------------------------------ MODULE MCWindow ------------------------------
(***************************************************************************)
(* A conversation that grows by a message at a time, as chat() does it:    *)
(* what the docstring of ContextWindowManager says of each.  (That fit()   *)
(* does what its code says is FitIsSound, in BlockMemory.)                 *)
(***************************************************************************)
EXTENDS ContextWindow

CONSTANTS MaxMessages, MaxSize

VARIABLE conversation

Init == conversation = <<>>

Says(role, size) ==
    /\ Len(conversation) < MaxMessages
    /\ conversation' =
           Append(conversation, [id |-> Len(conversation) + 1, role |-> role, size |-> size])

\* A system message, if there is one, is the first.
Next ==
    \/ conversation = <<>> /\ \E size \in 0..MaxSize : Says("system", size)
    \/ \E size \in 0..MaxSize : Says("user", size)

Spec == Init /\ [][Next]_conversation

\* The class docstring (window_manager.py:61-64): the sink is the system prompt
\* and the first sink_messages other messages, and the middle goes oldest first.
\* The code counts the system prompt among the sink_messages, and keeps every
\* message of the middle that fits, older ones beyond one that did not too.
WindowAsDocumented == FitAsDocumented(conversation)
=============================================================================
