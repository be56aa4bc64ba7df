------------------------------- MODULE Serve -------------------------------
(***************************************************************************)
(* The serve endpoint and the tool calls it puts on its chain.  Four       *)
(* routes write: chat requests (calls parsed from the model's reply,       *)
(* results in the messages of a later request), batches of reported        *)
(* events, hooks of an agent, and exported traces.  Requests run on a      *)
(* thread pool.  The calls that wait for a result are in one dictionary    *)
(* without a lock; a hook ingest and the trace ingest have a lock and a    *)
(* bounded memory of their own.                                            *)
(*                                                                         *)
(* A record is on the chain in one step, because the writer has a lock.    *)
(* Names, digests, outcomes and HTTP are left out.  A batch is its items   *)
(* one after the other; MaxItems bounds them over all requests.            *)
(***************************************************************************)
EXTENDS Naturals, Sequences, FiniteSets, SequencesExt

CONSTANTS
    Thread,         \* request threads
    WireId,         \* ids of parsed calls, fresh for each of them
    EventId,        \* ids an event client makes up
    Client,         \* the agents that send hooks, one ingest each
    HookId,         \* their tool_use_id
    Span,           \* (trace_id, span_id)
    None,
    ClosedMemory,   \* CLOSED_MEMORY
    SeenMemory,     \* SEEN_MEMORY
    MaxItems,       \* bound: messages, events, hooks, spans and parsed calls
    MaxFailures,    \* bound: records that cannot be written
    Careless        \* what the disk may do that the passing run leaves out

HookKey == Client \X HookId
Key == WireId \cup EventId \cup HookKey

ASSUME ServeAssumption ==
    /\ {ClosedMemory, SeenMemory, MaxItems, MaxFailures} \subseteq Nat
    /\ Careless \subseteq {"cancel_fails"}
\* Ids of different routes differ: a wire id is random, a hook's has a prefix,
\* and event clients do not make up either.
ASSUME IdAssumption ==
    /\ WireId \cap EventId = {} /\ (WireId \cup EventId) \cap HookKey = {}
    /\ Span \cap Key = {} /\ None \notin Key \cup Span \cup Thread

VARIABLES
    chain,      \* the tool records of the container
    pending,    \* pending: the calls that wait, by id
    closed,     \* HookIngest._closed of each client, oldest first
    lock,       \* HookIngest._lock of each client
    seen,       \* TraceIngest._seen, oldest first
    tlock,      \* TraceIngest._lock
    req,        \* what each thread is in the middle of
    phase,      \* serving, stopping, first and second cancellation, closed
    todo,       \* the calls _cancel_pending has yet to write
    items, failures,    \* used up of the bounds
    forgotten,  \* history: keys and spans that a memory has dropped
    spoiled     \* history: calls whose result was told with a bad digest

state == <<chain, pending, closed, lock, seen, tlock>>
serveVars == <<state, req, phase, todo, items, failures, forgotten, spoiled>>

NoRef == [call |-> 0, source |-> "none"]
Idle == [at |-> "idle", key |-> None, ref |-> NoRef]

CallRecord(k, src) == [kind |-> "call", id |-> k, source |-> src, of |-> 0]
\* A result holds the position and the hash of its call; the id is history.
ResultRecord(k, ref) == [kind |-> "result", id |-> k, source |-> ref.source, of |-> ref.call]
OfferedRecord == [kind |-> "offered", id |-> None, source |-> "none", of |-> 0]

Called == {i \in DOMAIN chain : chain[i].kind = "call"}
Results == {i \in DOMAIN chain : chain[i].kind = "result"}
Answered == {chain[i].of : i \in Results}

ServeInit ==
    /\ chain = <<>> /\ pending = <<>>
    /\ closed = [c \in Client |-> <<>>] /\ lock = [c \in Client |-> None]
    /\ seen = <<>> /\ tlock = None
    /\ req = [t \in Thread |-> Idle]
    /\ phase = "serving" /\ todo = {}
    /\ items = 0 /\ failures = 0 /\ forgotten = {} /\ spoiled = {}

-----------------------------------------------------------------------------
\* pending.pop(k) and pending[k] = ref.
\* (Seeded fault of Without: the entry is read and stays.)
Without_Get(k) == pending
Without(k) == [x \in DOMAIN pending \ {k} |-> pending[x]]
With(k, ref) == [x \in DOMAIN pending \cup {k} |-> IF x = k THEN ref ELSE pending[x]]

\* A bounded memory after a new entry: the oldest goes when it was full.
Remembered(m, x, max) == IF Len(m) < max THEN Append(m, x) ELSE Tail(Append(m, x))

Enter(t, at, k, ref) == req' = [req EXCEPT ![t] = [at |-> at, key |-> k, ref |-> ref]]
Goto(t, at) == Enter(t, at, None, NoRef)
Begin(t) == phase = "serving" /\ req[t] = Idle
Item == items < MaxItems /\ items' = items + 1

\* Where a thread is about to write a record: the name says of which route.
WritesCall == {"chat_call", "event_call", "hook_call", "hook_post_call", "span_call"}
WritesResult == {"chat_result", "event_result", "hook_result", "span_result"}

-----------------------------------------------------------------------------
(* Chat requests *)

ChatRequest(t) ==
    /\ Begin(t) /\ Goto(t, "chat")
    /\ UNCHANGED <<state, phase, todo, items, failures, forgotten, spoiled>>

\* _record_tool_results, one message: an id nobody waits for is passed over.
ToolMessage(t, k) ==
    /\ req[t].at \in {"chat", "loop"} /\ Item
    /\ IF k \in DOMAIN pending
       THEN Enter(t, "chat_result", k, pending[k]) /\ pending' = Without(k)
       ELSE Goto(t, "loop") /\ UNCHANGED pending
    /\ UNCHANGED <<chain, closed, lock, seen, tlock, phase, todo, failures,
                   forgotten, spoiled>>

\* The engine raises, there are no tools, or there is nothing more to record.
ChatOver(t) ==
    /\ req[t].at \in {"chat", "loop", "calls"} /\ Goto(t, "idle")
    /\ UNCHANGED <<state, phase, todo, items, failures, forgotten, spoiled>>

\* parse_tool_calls found a call, under a new id.
ReplyHasCall(t) ==
    /\ req[t].at \in {"chat", "loop", "calls"} /\ Item
    /\ \E k \in WireId :
        /\ \A i \in DOMAIN chain : chain[i].id # k
        /\ \A u \in Thread : req[u].key # k
        /\ Enter(t, "chat_call", k, NoRef)
    /\ UNCHANGED <<state, phase, todo, failures, forgotten, spoiled>>

\* Tools were offered, no call came back, and no tool traffic is in sight.
NoCall(t) ==
    /\ req[t].at = "chat" /\ Item
    /\ chain' = Append(chain, OfferedRecord)
    /\ Goto(t, "idle")
    /\ UNCHANGED <<pending, closed, lock, seen, tlock, phase, todo, failures,
                   forgotten, spoiled>>

-----------------------------------------------------------------------------
(* Reported events *)

\* Any id is taken, one that is pending as well.
EventCall(t, k) ==
    /\ Begin(t) /\ Item
    /\ Enter(t, "event_call", k, NoRef)
    /\ UNCHANGED <<state, phase, todo, failures, forgotten, spoiled>>

\* The entry is popped before outcome and digest are looked at.
EventResult(t, k) ==
    /\ Begin(t) /\ Item /\ k \in DOMAIN pending
    /\ pending' = Without(k)
    /\ \E at \in {"event_result", "put_back", "bad_digest"} : Enter(t, at, k, pending[k])
    /\ UNCHANGED <<chain, closed, lock, seen, tlock, phase, todo, failures,
                   forgotten, spoiled>>

\* An unknown outcome puts the entry back; a digest that is no hexadecimal
\* text is answered with an error, and the entry stays gone.
EventRejected(t) ==
    /\ req[t].at \in {"put_back", "bad_digest"}
    /\ IF req[t].at = "put_back"
       THEN pending' = With(req[t].key, req[t].ref) /\ UNCHANGED spoiled
       ELSE spoiled' = spoiled \cup {req[t].ref.call} /\ UNCHANGED pending
    /\ Goto(t, "idle")
    /\ UNCHANGED <<chain, closed, lock, seen, tlock, phase, todo, items, failures,
                   forgotten>>

-----------------------------------------------------------------------------
(* Hooks of an agent.  Post stands for PostToolUse and PostToolUseFailure. *)

\* Seeded fault: a pair that is closed is not recognised.
Known_Never(k) == FALSE
Known(k) == k \in ToSet(closed[k[1]])

Hook(t, k, event) ==
    /\ Begin(t) /\ Item
    /\ lock[k[1]] = None /\ ~Known(k)
    /\ event = "Pre" => k \notin DOMAIN pending
    /\ lock' = [lock EXCEPT ![k[1]] = t]
    /\ Enter(t, CASE event = "Pre" -> "hook_call"
               [] event = "Post" /\ k \notin DOMAIN pending -> "hook_post_call"
               [] OTHER -> "hook_pop", k, NoRef)
    /\ UNCHANGED <<chain, pending, closed, seen, tlock, phase, todo, failures,
                   forgotten, spoiled>>

\* pop() without a default raises when the entry is gone.
HookPop(t) ==
    /\ req[t].at = "hook_pop"
    /\ LET k == req[t].key IN
       IF k \in DOMAIN pending
       THEN Enter(t, "hook_result", k, pending[k]) /\ pending' = Without(k) /\ UNCHANGED lock
       ELSE Goto(t, "idle") /\ lock' = [lock EXCEPT ![k[1]] = None] /\ UNCHANGED pending
    /\ UNCHANGED <<chain, closed, seen, tlock, phase, todo, items, failures,
                   forgotten, spoiled>>

-----------------------------------------------------------------------------
(* Exported traces *)

TraceBatch(t) ==
    /\ Begin(t) /\ tlock = None
    /\ tlock' = t /\ Goto(t, "batch")
    /\ UNCHANGED <<chain, pending, closed, lock, seen, phase, todo, items, failures,
                   forgotten, spoiled>>

ToolSpan(t, s) ==
    /\ req[t].at = "batch" /\ Item
    /\ s \notin ToSet(seen)
    /\ Enter(t, "span_call", s, NoRef)
    /\ UNCHANGED <<state, phase, todo, failures, forgotten, spoiled>>

BatchOver(t) ==
    /\ req[t].at = "batch" /\ Goto(t, "idle") /\ tlock' = None
    /\ UNCHANGED <<chain, pending, closed, lock, seen, phase, todo, items, failures,
                   forgotten, spoiled>>

-----------------------------------------------------------------------------
(* Records *)

\* audit.tool_called: the writer returns the record's own position.
RefOf(c, src) == [call |-> Len(c), source |-> src]

WriteCall(t) ==
    LET r == req[t]
        src == IF r.at = "chat_call" THEN "wire" ELSE "client"
    IN
    /\ r.at \in WritesCall
    /\ chain' = Append(chain, CallRecord(r.key, src))
    /\ Enter(t, CASE r.at = "chat_call" -> "chat_bind" [] r.at = "event_call" -> "event_bind"
               [] r.at = "hook_call" -> "hook_bind" [] r.at = "hook_post_call" -> "hook_post_bind"
               [] OTHER -> "span_result", r.key, RefOf(chain', src))
    /\ UNCHANGED <<pending, closed, lock, seen, tlock, phase, todo, items, failures,
                   forgotten, spoiled>>

\* Seeded fault: the position is read from the writer after the call was recorded.
Bound_LastRecord(t) == With(req[t].key, [req[t].ref EXCEPT !.call = Len(chain)])
\* Seeded fault: a reported call is kept as one parsed from the wire.
Bound_Wire(t) == With(req[t].key, [req[t].ref EXCEPT !.source = "wire"])
\* pending[id] = (seq, hash, source)
Bound(t) == With(req[t].key, req[t].ref)

Bind(t) ==
    LET r == req[t] IN
    /\ r.at \in {"chat_bind", "event_bind", "hook_bind", "hook_post_bind"}
    /\ pending' = Bound(t)
    /\ CASE r.at = "chat_bind" -> Goto(t, "calls")
         [] r.at = "hook_post_bind" -> Enter(t, "hook_pop", r.key, NoRef)
         [] OTHER -> Goto(t, "idle")
    /\ lock' = IF r.at = "hook_bind" THEN [lock EXCEPT ![r.key[1]] = None] ELSE lock
    /\ UNCHANGED <<chain, closed, seen, tlock, phase, todo, items, failures,
                   forgotten, spoiled>>

\* audit.tool_result of a message or an event.
WriteResult(t) ==
    /\ req[t].at \in {"chat_result", "event_result"}
    /\ chain' = Append(chain, ResultRecord(req[t].key, req[t].ref))
    /\ Goto(t, IF req[t].at = "chat_result" THEN "loop" ELSE "idle")
    /\ UNCHANGED <<pending, closed, lock, seen, tlock, phase, todo, items, failures,
                   forgotten, spoiled>>

\* Of a hook: the pair is closed, and remembered.
HookResult(t) ==
    LET k == req[t].key
        m == Remembered(closed[k[1]], k, ClosedMemory)
    IN
    /\ req[t].at = "hook_result"
    /\ chain' = Append(chain, ResultRecord(k, req[t].ref))
    /\ closed' = [closed EXCEPT ![k[1]] = m]
    /\ forgotten' = forgotten \cup ((ToSet(closed[k[1]]) \cup {k}) \ ToSet(m))
    /\ lock' = [lock EXCEPT ![k[1]] = None]
    /\ Goto(t, "idle")
    /\ UNCHANGED <<pending, seen, tlock, phase, todo, items, failures, spoiled>>

\* Of a span, right after its call; the batch goes on.
SpanResult(t) ==
    LET m == Remembered(seen, req[t].key, SeenMemory) IN
    /\ req[t].at = "span_result"
    /\ chain' = Append(chain, ResultRecord(req[t].key, req[t].ref))
    /\ seen' = m
    /\ forgotten' = forgotten \cup ((ToSet(seen) \cup {req[t].key}) \ ToSet(m))
    /\ Goto(t, "batch")
    /\ UNCHANGED <<pending, closed, lock, tlock, phase, todo, items, failures, spoiled>>

\* The end of `with self._lock`.
Released(t) == [c \in Client |-> IF lock[c] = t THEN None ELSE lock[c]]

\* The record cannot be written: the request ends with an error, its locks
\* are released, and an entry it had popped is not put back.
WriteFails(t) ==
    /\ failures < MaxFailures /\ failures' = failures + 1
    /\ req[t].at \in WritesCall \cup WritesResult
    /\ lock' = Released(t)
    /\ tlock' = IF tlock = t THEN None ELSE tlock
    /\ Goto(t, "idle")
    /\ UNCHANGED <<chain, pending, closed, seen, phase, todo, items,
                   forgotten, spoiled>>

-----------------------------------------------------------------------------
(* Shutdown: the server waits for its requests, then the pending calls are *)
(* cancelled by a shutdown handler, and once more by run_serve.            *)

Stop ==
    /\ phase = "serving" /\ phase' = "stopping"
    /\ UNCHANGED <<state, req, todo, items, failures, forgotten, spoiled>>

\* Seeded fault: only the calls of the wire are cancelled.
Waiting_Wire == {k \in DOMAIN pending : pending[k].source = "wire"}
\* _cancel_pending goes over pending.values().
Waiting == DOMAIN pending

CancelPending ==
    /\ phase = "stopping" /\ \A t \in Thread : req[t] = Idle
    /\ phase' = "cancel" /\ todo' = Waiting
    /\ UNCHANGED <<state, req, items, failures, forgotten, spoiled>>

Cancel(k) ==
    /\ phase \in {"cancel", "again"} /\ k \in todo
    /\ chain' = Append(chain, ResultRecord(k, pending[k]))
    /\ todo' = todo \ {k}
    /\ UNCHANGED <<pending, closed, lock, seen, tlock, req, phase, items, failures,
                   forgotten, spoiled>>

\* A record that cannot be written ends the pass before the entries are gone.
\* The second pass begins with all of them; its failure is the process's.
CancelFails ==
    /\ failures < MaxFailures /\ failures' = failures + 1
    /\ phase \in {"cancel", "again"} /\ todo # {}
    /\ todo = DOMAIN pending \/ "cancel_fails" \in Careless
    /\ IF phase = "cancel" THEN phase' = "again" /\ todo' = Waiting
                           ELSE phase' = "aborted" /\ todo' = {}
    /\ UNCHANGED <<state, req, items, forgotten, spoiled>>

\* pending.clear(); a second pass over nothing does nothing, and the writer
\* is closed.
Closed ==
    /\ phase \in {"cancel", "again"} /\ todo = {}
    /\ phase' = "closed" /\ pending' = <<>>
    /\ UNCHANGED <<chain, closed, lock, seen, tlock, req, todo, items, failures,
                   forgotten, spoiled>>

-----------------------------------------------------------------------------
Work(t) ==
    \/ ChatOver(t) \/ NoCall(t) \/ ReplyHasCall(t)
    \/ EventRejected(t) \/ HookPop(t) \/ BatchOver(t)
    \/ WriteCall(t) \/ Bind(t) \/ WriteResult(t) \/ HookResult(t) \/ SpanResult(t)

Requests(t) ==
    \/ ChatRequest(t) \/ TraceBatch(t)
    \/ \E k \in WireId \cup EventId : ToolMessage(t, k) \/ EventResult(t, k)
    \/ \E k \in EventId : EventCall(t, k)
    \/ \E k \in HookKey, e \in {"Pre", "Post"} : Hook(t, k, e)
    \/ \E s \in Span : ToolSpan(t, s)

Shutdown == CancelPending \/ Closed \/ \E k \in Key : Cancel(k)

ServeNext ==
    \/ \E t \in Thread : Work(t) \/ Requests(t) \/ WriteFails(t)
    \/ Stop \/ Shutdown \/ CancelFails

ServeSpec == ServeInit /\ [][ServeNext]_serveVars

-----------------------------------------------------------------------------
Source == {"none", "wire", "client"}
Ref == [call : Nat, source : Source]
Record == [kind : {"call", "result", "offered"}, id : Key \cup Span \cup {None},
           source : Source, of : Nat]

\* Where a thread has no key, where it has the position of a call in its
\* hands, and where it is inside an ingest.
AtRest == {"idle", "chat", "loop", "calls", "batch"}
Holding == WritesResult \cup
    {"chat_bind", "event_bind", "hook_bind", "hook_post_bind", "put_back", "bad_digest"}
InHook == {"hook_call", "hook_post_call", "hook_bind", "hook_post_bind", "hook_pop",
           "hook_result"}
InBatch == {"batch", "span_call", "span_result"}
Steps == AtRest \cup WritesCall \cup Holding \cup {"hook_pop"}

Running == phase \in {"serving", "stopping"}
Cancelling == phase \in {"cancel", "again"}

ServeTypeOK ==
    /\ chain \in Seq(Record)
    /\ DOMAIN pending \subseteq Key /\ pending \in [DOMAIN pending -> Ref]
    /\ closed \in [Client -> Seq(HookKey)]
    /\ \A c \in Client : Len(closed[c]) <= ClosedMemory
    /\ seen \in Seq(Span) /\ Len(seen) <= SeenMemory
    /\ lock \in [Client -> Thread \cup {None}] /\ tlock \in Thread \cup {None}
    /\ req \in [Thread -> [at : Steps, key : Key \cup Span \cup {None}, ref : Ref]]
    /\ phase \in {"serving", "stopping", "cancel", "again", "aborted", "closed"}
    /\ todo \subseteq DOMAIN pending
    /\ failures \in 0..MaxFailures
    /\ forgotten \subseteq HookKey \cup Span /\ spoiled \subseteq Nat

\* A thread's key is one of its route's, and it holds a call where it should.
Fits(r) ==
    /\ r.at \in AtRest => r.key = None
    /\ r.at \in {"chat_call", "chat_bind"} => r.key \in WireId
    /\ r.at \in {"event_call", "event_bind"} => r.key \in EventId
    /\ r.at \in {"chat_result", "event_result", "put_back", "bad_digest"}
          => r.key \in WireId \cup EventId
    /\ r.at \in InHook => r.key \in HookKey
    /\ r.at \in {"span_call", "span_result"} => r.key \in Span
    /\ r.ref # NoRef <=> r.at \in Holding
StepInv == \A t \in Thread : Fits(req[t])

\* When the calls are cancelled, no request is under way, and in the end none
\* of them waits.
PhaseInv ==
    /\ ~Running => \A t \in Thread : req[t] = Idle
    /\ ~Cancelling => todo = {}
    /\ phase = "closed" => DOMAIN pending = {}

\* Whoever holds an ingest's lock is inside that ingest, and the reverse.
IngestLockInv ==
    /\ \A c \in Client, t \in Thread :
        lock[c] = t <=> req[t].at \in InHook /\ req[t].key[1] = c
    /\ \A t \in Thread : tlock = t <=> req[t].at \in InBatch

\* A reference is to the call it was given for: it was recorded under this id
\* and has the provenance the record has.
IsTrue(k, ref) == /\ ref.call \in Called
                  /\ chain[ref.call].id = k /\ chain[ref.call].source = ref.source

\* A call is in one place only: it waits in the dictionary, or it is in the
\* hands of one request.
HeldInv ==
    /\ \A k \in DOMAIN pending : IsTrue(k, pending[k])
    /\ \A t \in Thread : req[t].ref # NoRef =>
        /\ IsTrue(req[t].key, req[t].ref)
        /\ \A k \in DOMAIN pending : pending[k].call # req[t].ref.call
        /\ \A u \in Thread \ {t} : req[u].ref.call # req[t].ref.call

\* While it is there it has no result; of those the shutdown goes over, none
\* that it has yet to write, and all others.
Held == {pending[k].call : k \in DOMAIN pending}
        \cup {req[t].ref.call : t \in {u \in Thread : req[u].ref # NoRef}}
OpenInv ==
    /\ Running => Held \cap Answered = {}
    /\ Cancelling => \A k \in DOMAIN pending \ todo : pending[k].call \in Answered
    /\ Cancelling /\ "cancel_fails" \notin Careless =>
        \A k \in todo : pending[k].call \notin Answered

\* But for the ids that event clients make up, no entry is in the way of a call
\* that is about to be kept under its id.
OwnKey(k) == k # None /\ k \notin EventId
OneKeyInv == \A t \in Thread :
    OwnKey(req[t].key) =>
        /\ req[t].key \in DOMAIN pending <=> req[t].at = "hook_pop"
        /\ \A u \in Thread \ {t} : req[u].key # req[t].key

\* Called of an event client that has used their id for another one as well.
SharesItsId == {i \in Called : chain[i].id \in EventId /\
                              \E j \in Called \ {i} : chain[j].id = chain[i].id}

\* The calls without a result that nobody will ever give one.
Orphans == Called \ (Answered \cup Held \cup spoiled \cup SharesItsId)
OrphanInv == Cardinality(Orphans) <= failures

\* What was delivered is known: it waits, is at work, remembered or forgotten.
Accounted(k) ==
    \/ k \in forgotten \/ k \in DOMAIN pending \/ k \in ToSet(seen)
    \/ k \in HookKey /\ k \in ToSet(closed[k[1]])
    \/ \E t \in Thread : req[t].key = k /\ req[t].at \in Holding \cup {"hook_pop"}
DeliveryInv == Running /\ failures = 0 =>
    \A i \in Called : chain[i].id \in HookKey \cup Span =>
        /\ Accounted(chain[i].id)
        /\ \A t \in Thread : req[t].key = chain[i].id /\ req[t].at \in WritesCall
              => chain[i].id \in forgotten

\* A result is bound to a call before it, of the id it was told for, and both
\* halves of the pair have the same provenance (whatever another route wrote
\* meanwhile); so will those be that are still to come.
BoundToItsCall ==
    /\ \A k \in DOMAIN pending : IsTrue(k, pending[k])
    /\ \A i \in Results :
          /\ chain[i].of < i
          /\ IsTrue(chain[i].id, [call |-> chain[i].of, source |-> chain[i].source])

\* When the serve has closed, a call has its result: the one that was reported
\* or the cancellation.  A record that could not be written costs at most the
\* one call it was about.  Two kinds of reported calls may be without: those
\* whose result came with a digest that is no hexadecimal text, and those whose
\* id the client has used for another call too (ReportedCallsCancelled).
EveryCallClosed ==
    phase = "closed" =>
        Cardinality(Called \ (Answered \cup spoiled \cup SharesItsId)) <= failures

\* What the docstring of ingest_events says: "a reported call left unresolved at
\* shutdown is cancelled like a wire one".  The code does not keep it: a bad
\* digest is noticed when the entry is popped, and an id that is reported again
\* takes the entry over.
ReportedCallsCancelled ==
    phase = "closed" /\ failures = 0 =>
        \A i \in Called : chain[i].id \in EventId => i \in Answered

\* An agent that delivers a hook again, or an exporter a batch, does not get a
\* second pair, unless the bounded memory has let the id go or a record failed.
OnePairPerDelivery ==
    \A i, j \in Called :
        i < j /\ chain[i].id = chain[j].id /\ chain[i].id \in HookKey \cup Span
        => failures > 0 \/ chain[i].id \in forgotten

\* The chain keeps the promise of a record of calls: a result after its call,
\* and one only.
Ledger == INSTANCE CallLedger WITH
    calls <- Called, results <- {<<i, chain[i].of>> : i \in Results}
ImplementsCallLedger == Ledger!Spec

\* The inductive invariant.
ServeInv ==
    /\ ServeTypeOK /\ StepInv /\ PhaseInv /\ IngestLockInv
    /\ HeldInv /\ OpenInv /\ OneKeyInv /\ OrphanInv
    /\ BoundToItsCall
    /\ DeliveryInv /\ OnePairPerDelivery
=============================================================================
