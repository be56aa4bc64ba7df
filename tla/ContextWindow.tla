--------------------------- MODULE ContextWindow ---------------------------
(***************************************************************************)
(* ContextWindowManager (context/window_manager.py): which messages of a   *)
(* conversation are sent when it no longer fits.  The opening messages     *)
(* (the sink) and the latest ones (the window) are always sent; of those   *)
(* between, the newest that fit, and the rest is evicted.                  *)
(*                                                                         *)
(* A message is [id, role, size]: the size is what the token counter says  *)
(* of its content, 0 for an empty one; the budget is context_size with the *)
(* safety margin taken off.                                                *)
(***************************************************************************)
EXTENDS Integers, SequencesExt

CONSTANTS SinkMessages,     \* sink_messages
          WindowMessages,   \* window_messages
          Budget,           \* int(context_size * safety_margin)
          Overhead          \* tokens that each message costs besides its content

ASSUME WindowAssumption ==
    {SinkMessages, WindowMessages, Budget, Overhead} \subseteq Nat

Message == [id : Nat, role : STRING, size : Nat]

\* A conversation: the id of a message is its place.
Conversation(msgs) == msgs \in Seq(Message) /\ \A i \in 1..Len(msgs) : msgs[i].id = i

Least(a, b) == IF a <= b THEN a ELSE b
Greatest(a, b) == IF a >= b THEN a ELSE b

Cost(m) == m.size + Overhead

Tokens(msgs) ==
    LET sum[i \in 0..Len(msgs)] == IF i = 0 THEN 0 ELSE sum[i - 1] + Cost(msgs[i])
    IN  sum[Len(msgs)]

\* Those of the messages that are in a set, in their order.
Chosen(msgs, set) ==
    LET chosen[i \in 0..Len(msgs)] ==
            IF i = 0 THEN <<>>
            ELSE IF msgs[i] \in set THEN Append(chosen[i - 1], msgs[i]) ELSE chosen[i - 1]
    IN  chosen[Len(msgs)]

\* How many messages come before the first that is not a system message.
LeadSystem(msgs) ==
    LET others == {i \in 1..Len(msgs) : msgs[i].role # "system"}
    IN  IF others = {} THEN Len(msgs) ELSE (CHOOSE i \in others : \A j \in others : i <= j) - 1

SinkEnd(msgs) == Least(Greatest(SinkMessages, LeadSystem(msgs)), Len(msgs))

\* Seeded fault: a short conversation's window reaches back into its sink.
WindowStart_Overlap(msgs) == Greatest(0, Len(msgs) - WindowMessages)

\* The window yields to the sink: the two never overlap.
WindowStart(msgs) == Greatest(SinkEnd(msgs), Len(msgs) - WindowMessages)

Sink(msgs) == SubSeq(msgs, 1, SinkEnd(msgs))
Middle(msgs) == SubSeq(msgs, SinkEnd(msgs) + 1, WindowStart(msgs))
Window(msgs) == SubSeq(msgs, WindowStart(msgs) + 1, Len(msgs))

\* Seeded fault: the first message that does not fit is evicted, and kept too.
Walk_KeepsAll(m, acc) ==
    [acc EXCEPT !.kept = <<m>> \o @,
                !.running = @ + Cost(m),
                !.evicted = IF acc.running + Cost(m) <= Budget THEN @ ELSE <<m>> \o @]

\* One step of the walk over the middle, from its newest message to its oldest.
Walk(m, acc) ==
    IF acc.running + Cost(m) <= Budget
    THEN [acc EXCEPT !.kept = <<m>> \o @, !.running = @ + Cost(m)]
    ELSE [acc EXCEPT !.evicted = <<m>> \o @]

\* The sink and the window are counted before the walk begins.
NotWalked(base) == [kept |-> <<>>, evicted |-> <<>>, running |-> base]

Walked(middle, base) ==
    LET walked[k \in 0..Len(middle)] ==
            IF k = 0 THEN NotWalked(base) ELSE Walk(middle[Len(middle) - k + 1], walked[k - 1])
    IN  walked[Len(middle)]

\* FitResult: what to send, what was dropped, and the tokens of the former.
Fit(msgs) ==
    LET walked == Walked(Middle(msgs), Tokens(Sink(msgs)) + Tokens(Window(msgs)))
        final == Sink(msgs) \o walked.kept \o Window(msgs)
    IN  [messages |-> final, evicted |-> walked.evicted, tokens |-> Tokens(final)]

-----------------------------------------------------------------------------
(* What the class docstring says of fit(). *)

\* "The system prompt (if present) plus the first sink_messages non-system
\* messages": the system messages in front, and so many of the others.
DocumentedSink(msgs) ==
    LET others == SelectSeq(msgs, LAMBDA m : m.role # "system")
    IN  ToSet(SubSeq(msgs, 1, LeadSystem(msgs)))
        \cup ToSet(SubSeq(others, 1, Least(SinkMessages, Len(others))))

\* The sink is always sent, and "the middle is evicted oldest-first until it
\* fits": no message is evicted while an older one between sink and window stays.
FitAsDocumented(msgs) ==
    LET fit == Fit(msgs)
        sent == ToSet(fit.messages)
        evicted == ToSet(fit.evicted)
    IN  /\ DocumentedSink(msgs) \subseteq sent
        /\ \A m \in evicted, n \in sent \cap ToSet(Middle(msgs)) : m.id < n.id
=============================================================================
