---------------------------- MODULE MCBlockMemory ----------------------------
(***************************************************************************)
(* Two sessions on one store: an endpoint with two calls, and a command    *)
(* with one.                                                               *)
(***************************************************************************)
EXTENDS BlockMemory

CONSTANTS serve, command, s1, s2, c1

MCSession == (s1 :> serve) @@ (s2 :> serve) @@ (c1 :> command)

Msg(i, r, n) == [id |-> i, role |-> r, size |-> n]

\* One that fits; two that have one or two messages evicted; one that has an
\* empty message evicted, and asks nothing.
MCTalks ==
    {<<Msg(1, "user", 1)>>,
     <<Msg(1, "user", 2), Msg(2, "user", 2), Msg(3, "user", 2)>>,
     <<Msg(1, "user", 2), Msg(2, "user", 2), Msg(3, "user", 2), Msg(4, "user", 2)>>,
     <<Msg(1, "system", 2), Msg(2, "assistant", 0), Msg(3, "assistant", 2)>>}

\* Every conversation of up to five messages of three sizes, opened by a user or
\* by a system message; and the talks.
MCConversations ==
    UNION {{[i \in 1..n |-> Msg(i, IF i = 1 THEN first ELSE "user", size[i])] :
                size \in [1..n -> 0..2]} :
            n \in 0..5, first \in {"system", "user"}} \cup MCTalks
=============================================================================
