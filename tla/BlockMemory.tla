---------------------------- MODULE BlockMemory ----------------------------
(***************************************************************************)
(* chat() of core.py with its context memory: what the window manager      *)
(* evicts is stored in a block memory (context/block_memory.py), and what  *)
(* is relevant to the user's last message is recalled from it.             *)
(*                                                                         *)
(* The blocks are one SQLite file, in rollback-journal mode, that all      *)
(* processes of a config directory share.  A session is a process: a CLI   *)
(* command, or an endpoint that serves many calls.  A call is one of its   *)
(* threads.  The call that builds the application state opens the          *)
(* connection, which sqlite3 lends to no other thread.                     *)
(***************************************************************************)
EXTENDS ContextWindow, FiniteSets

CONSTANTS Sessions,
          Calls,
          Session,        \* [Calls -> Sessions]: the process a call runs in
          Conversations,  \* the conversations that fit() is checked on
          Talks,          \* those of them that the calls are given
          MaxBlocks,      \* bound: no chat begins when a session sees this many blocks
          None

ASSUME SessionAssumption == Session \in [Calls -> Sessions]

ASSUME TalkAssumption ==
    Talks \subseteq Conversations /\ \A conv \in Conversations : Conversation(conv)

VARIABLES
    running,    \* the sessions whose process runs
    session,    \* what a process holds in memory
    rows,       \* the committed blocks
    lock,       \* each process's write lock on the file: "none", "reserved", "pending"
    call        \* each call: how far it is, and what it holds

vars == <<running, session, rows, lock, call>>

Fresh(memory) ==
    [memory |-> memory, pending |-> <<>>, inTxn |-> FALSE, reading |-> FALSE, failed |-> FALSE]

IdleCall == [pc |-> "idle", evicted |-> <<>>, query |-> FALSE, todo |-> <<>>,
             outcome |-> "none"]

Init ==
    /\ running = {}
    /\ session = [s \in Sessions |-> Fresh(None)]
    /\ rows = <<>>
    /\ lock = [s \in Sessions |-> "none"]
    /\ call = [c \in Calls |-> IdleCall]

Here(c) == Session[c]
State(c) == session[Here(c)]
At(c, pc) == call[c].pc = pc
CallsOf(s) == {c \in Calls : Session[c] = s}
Others(s) == Sessions \ {s}
Locked(s) == lock[s] # "none"

\* A reader is turned away by a writer that waits to commit, unless it reads already.
MayRead(s) ==
    \/ session[s].reading
    \/ \A t \in Others(s) : lock[t] # "pending"

\* init_app() gives the session a block memory when the active engine can embed
\* and the table can be read; the other sessions go without.
Start(c) ==
    LET s == Here(c) IN
    /\ s \notin running
    /\ running' = running \cup {s}
    /\ \E memory \in IF MayRead(s) THEN {None, c} ELSE {None} :
        session' = [session EXCEPT ![s] = Fresh(memory)]
    /\ UNCHANGED <<rows, lock, call>>

\* The process ends, in good order or not: what it has not committed is rolled back.
Exit(s) ==
    /\ s \in running
    /\ running' = running \ {s}
    /\ session' = [session EXCEPT ![s] = Fresh(None)]
    /\ lock' = [lock EXCEPT ![s] = "none"]
    /\ call' = [c \in Calls |-> IF Session[c] = s THEN IdleCall ELSE call[c]]
    /\ UNCHANGED rows

\* BlockMemory.add() stores the messages that have content.
Storable(msgs) == Chosen(msgs, {m \in ToSet(msgs) : m.size > 0})
Ids(msgs) == [i \in 1..Len(msgs) |-> msgs[i].id]
ToStore(c) == Storable(call[c].evicted)

\* _last_user_text()
HasQuery(msgs) == \E i \in 1..Len(msgs) : msgs[i].role = "user" /\ msgs[i].size > 0

NeedsMemory(c, evicted) == State(c).memory # None /\ evicted # <<>>

\* What fit() evicts of each conversation.
Evicted == [conv \in Talks |-> Fit(conv).evicted]

\* chat(): the conversation is fitted, and what was evicted is to be stored.
Chat(c) ==
    /\ Here(c) \in running /\ At(c, "idle") /\ Len(rows \o State(c).pending) < MaxBlocks
    /\ \E conv \in Talks :
        LET evicted == Evicted[conv] IN
        call' = [call EXCEPT ![c] =
            IF NeedsMemory(c, evicted)
            THEN [@ EXCEPT !.pc = "adding", !.evicted = evicted, !.query = HasQuery(conv),
                           !.todo = Storable(evicted)]
            ELSE [@ EXCEPT !.pc = "streaming"]]
    /\ UNCHANGED <<running, session, rows, lock>>

\* The add is over, well or not; the memory is asked if there is something to ask.
Added(c, outcome) ==
    [call EXCEPT ![c].outcome = outcome, ![c].todo = <<>>,
                 ![c].pc = IF call[c].query THEN "recalling" ELSE "streaming"]

\* sqlite3 lends the connection to the thread that opened it alone.
Lent(c) == State(c).memory = c

\* One message is embedded and inserted; the first insert opens a transaction.
Insert(c) ==
    LET s == Here(c) IN
    /\ At(c, "adding") /\ call[c].todo # <<>> /\ Lent(c)
    /\ \A t \in Others(s) : ~ Locked(t)
    /\ session' = [session EXCEPT ![s].pending = Append(@, Head(call[c].todo).id),
                                  ![s].inTxn = TRUE, ![s].reading = TRUE]
    /\ lock' = [lock EXCEPT ![s] = IF @ = "none" THEN "reserved" ELSE @]
    /\ call' = [call EXCEPT ![c].todo = Tail(@)]
    /\ UNCHANGED <<running, rows>>

\* Seeded fault: an insert that finds the store locked waits for it.
CannotInsert_Waits(c) == ~ Lent(c)

CannotInsert(c) == ~ Lent(c) \/ \E t \in Others(Here(c)) : Locked(t)

\* The store stays locked for longer than sqlite3 waits, or the connection is
\* another thread's.  The transaction that sqlite3 opened for the insert stays open.
InsertFails(c) ==
    LET s == Here(c) IN
    /\ At(c, "adding") /\ call[c].todo # <<>> /\ CannotInsert(c)
    /\ session' = [session EXCEPT ![s].inTxn = @ \/ Lent(c), ![s].failed = @ \/ Lent(c)]
    /\ call' = Added(c, "failed")
    /\ UNCHANGED <<running, rows, lock>>

\* The engine does not embed the message; what was inserted before it stays pending.
EmbedFails(c) ==
    LET s == Here(c) IN
    /\ At(c, "adding") /\ call[c].todo # <<>>
    /\ session' = [session EXCEPT ![s].failed = @ \/ Lent(c)]
    /\ call' = Added(c, "failed")
    /\ UNCHANGED <<running, rows, lock>>

\* Seeded fault: add() commits only when it stored more than one message.
Stored_Several(c) == Len(ToStore(c)) > 1

Stored(c) == ToStore(c) # <<>>

\* There was nothing to store: no commit, and a transaction left open stays so.
NothingStored(c) ==
    /\ At(c, "adding") /\ call[c].todo = <<>> /\ ~ Stored(c)
    /\ call' = Added(c, "stored")
    /\ UNCHANGED <<running, session, rows, lock>>

\* Everything is inserted: commit it, with what an add that failed left pending.
Commit(c) ==
    LET s == Here(c) IN
    /\ At(c, "adding") /\ call[c].todo = <<>> /\ Stored(c)
    /\ \A t \in Others(s) : ~ session[t].reading
    /\ rows' = rows \o session[s].pending
    /\ lock' = [lock EXCEPT ![s] = "none"]
    /\ session' = [session EXCEPT ![s].pending = <<>>, ![s].inTxn = FALSE,
                                  ![s].reading = FALSE, ![s].failed = FALSE]
    /\ call' = Added(c, "stored")
    /\ UNCHANGED running

\* Another session reads for longer than sqlite3 waits: the transaction stays
\* open, and from now on no new reader gets in.
CommitFails(c) ==
    LET s == Here(c) IN
    /\ At(c, "adding") /\ call[c].todo = <<>> /\ Stored(c)
    /\ \E t \in Others(s) : session[t].reading
    /\ lock' = [lock EXCEPT ![s] = "pending"]
    /\ session' = [session EXCEPT ![s].failed = TRUE]
    /\ call' = Added(c, "failed")
    /\ UNCHANGED <<running, rows>>

\* retrieve() reads the committed blocks and the session's own pending ones; which
\* of them are near to the query is up to the embeddings, and told apart by nothing
\* here.  A read in an open transaction keeps the file locked.
Retrieve(c) ==
    LET s == Here(c) IN
    /\ At(c, "recalling") /\ Lent(c) /\ MayRead(s)
    /\ call' = [call EXCEPT ![c].pc = "streaming"]
    /\ session' = [session EXCEPT ![s].reading = @ \/ session[s].inTxn]
    /\ UNCHANGED <<running, rows, lock>>

\* _recall_block() takes any failure for nothing to recall.
RecallsNothing(c) ==
    /\ At(c, "recalling")
    /\ call' = [call EXCEPT ![c].pc = "streaming"]
    /\ UNCHANGED <<running, session, rows, lock>>

\* The engine's stream ends, whole or with an error.
StreamEnd(c) ==
    /\ At(c, "streaming")
    /\ call' = [call EXCEPT ![c] = IdleCall]
    /\ UNCHANGED <<running, session, rows, lock>>

-----------------------------------------------------------------------------
Step(c) ==
    \/ Insert(c) \/ InsertFails(c) \/ NothingStored(c) \/ Commit(c) \/ CommitFails(c)
    \/ Retrieve(c) \/ RecallsNothing(c) \/ StreamEnd(c)

Next ==
    \/ \E c \in Calls : Start(c) \/ Chat(c) \/ EmbedFails(c) \/ Step(c)
    \/ \E s \in Sessions : Exit(s)

\* A thread goes on: sqlite3 waits for a lock for a bounded time only, and the
\* engine's stream ends.  That an embedding fails is nothing to count on.
Fairness == \A c \in Calls : WF_vars(Step(c))

Spec == Init /\ [][Next]_vars /\ Fairness

-----------------------------------------------------------------------------
(* Properties *)

\* fit() splits the conversation: what is sent and what is evicted are together
\* the conversation, each in its order.  The sink (the first sink_messages, or the
\* leading system messages when they are more) and the latest messages are sent
\* whatever they cost, so only they can exceed the budget; and what was evicted
\* would not have fitted beside the newer messages that are sent.  That is what
\* the code does; WindowAsDocumented is what its class docstring says.  (No
\* session has a part in this: it is evaluated where none has run.)
FitIsSound ==
    running = {} /\ rows = <<>> => \A conv \in Conversations :
        LET fit == Fit(conv)
            sent == ToSet(fit.messages)
            evicted == ToSet(fit.evicted)
            protected == ToSet(Sink(conv)) \cup ToSet(Window(conv))
            Beside(m) == Chosen(fit.messages, protected \cup {n \in sent : n.id > m.id})
        IN  /\ sent \cup evicted = ToSet(conv) /\ sent \cap evicted = {}
            /\ fit.messages = Chosen(conv, sent) /\ fit.evicted = Chosen(conv, evicted)
            /\ protected \subseteq sent
            /\ fit.tokens = Tokens(fit.messages)
            /\ fit.tokens > Budget => sent = protected
            /\ \A m \in evicted : Tokens(Beside(m)) + Cost(m) > Budget

\* An add that reports its messages stored has stored them: all those with
\* content, together and in order, whatever the other sessions do to the file.
\* What was stored is there for good: no crash, no failure takes a block away.
StoredIsThere ==
    \A c \in Calls :
        call[c].outcome = "stored" =>
            \E i \in 0..Len(rows) : IsPrefix(Ids(ToStore(c)), SubSeq(rows, i + 1, Len(rows)))

\* The file has one writer at most.  A session that is not adding has it locked, or
\* a transaction open, only when an add of its own has failed, so that nothing but
\* a fault makes it stand in the others' way; and when it has ended, never.
LockOnlyFromFault ==
    /\ \A s, t \in Sessions : Locked(s) /\ Locked(t) => s = t
    /\ \A s \in Sessions :
        Locked(s) \/ session[s].reading \/ session[s].inTxn \/ session[s].pending # <<>> =>
            /\ s \in running
            /\ session[s].failed \/ \E c \in CallsOf(s) : Lent(c) /\ At(c, "adding")

\* The memory never keeps a call from its engine: whatever locks the others hold,
\* and however they failed, a chat that was begun comes to its end.
CallsEnd == \A c \in Calls : ~ At(c, "idle") ~> At(c, "idle")
=============================================================================
