# Palimpsests in TLA+

Palimpsests runs language models behind one interface and keeps evidence of
what it did.  It keeps two logs: an encrypted SQLite table whose head is
anchored in the OS keychain, and a PALA-1 container, a file of hash-chained
binary records that is cut into segments.  Around them are a batched decode
loop with shared KV prefixes, an OpenAI-compatible server that pairs tool calls
with their results, and readers and verifiers of finished files.

This directory holds TLA+ modules of the parts whose correctness depends on
order: who holds which lock, what is on disk when a process dies, what a
process remembers when it comes back, what a reader sees of a file that is
being written.  The audit log and the container writer came first, because
everything else in the program reports through them and an error there is one
no later check can repair.

Paths below are relative to `src/palimpsests/` of the repository.

## 1. Inventory

### 1.1 Encrypted audit log: `audit/log.py`, `audit/_oslock.py`, `audit/key_manager.py`

*State.* On disk: table `audit_events` (rows with `prev_hash` and `row_hash`),
the lock file `<db>.lock`, one keychain entry for the database key and one for
the head anchor.  In an `AuditLog`: connection, thread lock, `_xlock`,
`_last_written`, `_since_anchor`, `_anchor_every`.

*Operations.* `__init__`, `record`, `verify`, `recent`, `close`; the decorator
`audited`; `load_or_create_key`, `store_head_anchor`, `load_head_anchor`.

*Hard.* Several processes on one database; a transaction SQLite keeps open when
`commit()` raises; a death between commit and anchor; a keychain that refuses;
`verify()` reading rows and anchor in two steps with no lock across processes.

*Correct when* the rows are one linear chain; the anchor names a committed row
and only moves forward; the unanchored tail is bounded; a verdict says what
happened; callers of `load_or_create_key` agree.

### 1.2 PALA container writer: `audit/pala_writer.py`

*State.* On disk: the base file, the segments `base.00001`, ..., the manifest
`base.segments.json`, one lock file per chain.  In a `PalaWriter`: `_seq`,
`_head`, `_started`, `_resume_boot_pending`, `_open_spans`, the rotation fields
(`_seg_*`, `_rotation_due`, `_manifest_entries`), the Merkle frontier with its
deferred form.

*Operations.* `__init__`, `open_existing`, one method per record kind (all of
them through `_emit`), automatic cut (`_maybe_rotate_locked`, `_rotate_core`),
`rotate`, `chain_root`, `anchor`, `close`.

*Hard.* A death inside a record and inside each step of a cut; a resume that
has to tell an unfinished cut from a finished one; names and roots after a
retention policy removed old segments; a cut that must wait for open spans; the
frontier built late; writes that fail while the process lives.

*Correct when* what is on disk is the end of one chain with one GENESIS; only a
torn last record is ever cut off; the manifest is true; a root covers the chain
from record 0; a resumed writer begins with BOOT.

### 1.3 Native audit: `providers/native/audit.py`

*State.* The window of recent guard refusals, the count of anchor failures,
session numbers; beneath it the container and the store of its anchored head.

*Operations.* One method per engine event, `self_check`, `anchor`,
`anchor_store_failed`, `anchor_stored`; the constructor's GENESIS, BOOT and
RECOVERY.

*Hard.* Records written and windows counted under different locks; a head read
outside the writer's lock; `self_check` reads a file that is being written;
writes that raise, and writes that end early without saying so.

*Correct when* an escalation refers to a refusal and each refusal is counted
once; a stored anchor is never answered with "replaced" while nobody changed
the file; a check that accuses is right; what is lost shows.

### 1.4 Scheduler, engine, session: `providers/native/`

*State.* Slots, free sequence ids, the queue, prefix holders and their
consumers (`scheduler.py`); the registry of prefix holders (`__init__.py`); the
sequence, span and pending tool calls of a session (`session.py`).

*Operations.* `submit`, `open_slot`, `feed`, `step`, `close_slot`, `run`,
`run_turn`, `run_batch`, `reserve_prefix_holder`, `warm_prefix`,
`copy_prefix_to_slot`, `release_prefix_holder`; `open_session`, `chat_stream`,
`send`, `run_sessions`, `note_tool_call`, `fail_tool_call`,
`append_tool_result`, `save_state`, `load_state`, `close`.

*Hard.* Two schedulers over one backend; sequence ids that are recycled; a
decode that raises within a batch; `open_session` failing half way; generators
that a caller abandons.  *Correct when* a sequence id has one owner, a slot's
position is what its KV holds, no holder goes before its consumers, every span
ends.

### 1.5 Serve: `server/openai_api.py`, `server/agent_hooks.py`, `server/otel_traces.py`

*State.* `pending`, the calls that wait for a result, a dictionary without a
lock that four routes share; per agent a `HookIngest` with a lock and a bounded
memory of closed pairs; a `TraceIngest` with a lock and a bounded memory of
spans.

*Operations.* Chat requests (results among the messages, then calls parsed from
the reply), batches of reported events, hooks, exported traces; at shutdown the
cancellation of what still waits.

*Hard.* The same result told twice, or over two routes; a record that fails
after the entry was popped; an entry that is popped before the request is
looked at; memories that forget; a shutdown that is tried twice.

*Correct when* a result is bound to one call of its id, each call has at most
one, deliveries repeated do not make a second pair, no call is left open.

### 1.6 Readers and verifiers: `audit/tailing.py`, `audit/pala/`, `audit/segment_set.py`, `audit/reader.py`

*State.* The tailing reader's cursor, last size and diagnoses; the Merkle
frontier; what an `AuditReader` keeps of its answers (the verification, the
structure, the decoded records, its indices), under one lock; otherwise none.

*Operations.* `poll`/`_drain`, `snapshot`; the walk over records, the chain
rules, the answer to an anchor; `verify`, `structure`, `records`, `safety_records`,
`acknowledged_candidates`, `shredded_targets`, `origin_at`; `merkle_root`,
`merkle_proof`, `verify_proof`, the frontier, `consistency_proof` and its
verification, checkpoints, `chain_root`; the verdict over a segment set,
`segment_chain`; the report's verdict, `pala verify`, and the anchor sources
(`audit/anchors.py`) that an auditor brings.

*Hard.* Polling a file that is being appended, torn, truncated and cut;
several implementations of one walk, of the chain rules and of one root; answers
given from raw bytes before the records are decoded and from the decoded records
after; proofs that must fail for everything they are not about.

*Correct when* the tailing reader yields each record once, in order, and tells
why the end moved; the three ways to a root agree; a proof verifies for its
record alone; a set with removed segments is incomplete and one with missing
records is inconsistent; whichever verifier one asks says the same; a reader's
answer does not depend on what it was asked before; what is called sound is the
log that was written, and what a writer left is never taken for tampering.

### 1.7 Context window and block memory: `context/`, `chat()` of `core.py`

*State.* A SQLite file of blocks that all processes of a config directory share;
in a process, the connection with its open transaction, which belongs to the
thread that made it.

*Operations.* `fit`; `add` and `retrieve`; `chat`, which fits, stores what was
evicted, recalls what is near and calls the engine; `_build_block_memory`.

*Hard.* An insert or a commit that raises leaves a transaction open, and every
error is swallowed; a read within it keeps others out; threads that may not use
the connection; the boundaries of sink, window and budget.

*Correct when* what is sent and what is evicted make up the conversation; what
was reported stored is stored; nobody who has not failed keeps others out; a
chat never waits for its memory.

### 1.8 Core, registry and managed engines: `core.py`, `registry.py`, `providers/`

*State.* `registry.json`, one line; in a process the active engine, the engines
known and installed, and for llama.cpp the process and the client.

*Operations.* `init_app`, `active_engine`, `select_engine`, `set_active`;
`_ensure_started`, the server's `start`, `_wait_until_ready`, `stop`.

*Hard.* The file is emptied, then written, under a lock that other processes do
not know; a process goes by what it read when it began; two threads start a
server each; a server that fails or dies.

*Correct when* an undisturbed choice is the one that later processes go by, and
a server that runs is known to its engine.

### 1.9 The rest

Statements about a chain for those who do not hold it (`audit/pala/scitt.py`): a
COSE_Sign1 message commits to the head and a range of the chain and, in v3, to the
root over all records; bundles (`audit/pala/bundle.py`) carry records with their
proofs.  Three programs that read statements were written from the specification
alone and are kept with it (`docs/specs/pala-1/independent-runs/turak`).  *Hard:* a
map with a repeated key, keys out of order or a longer head reads differently in
different programs; a root must be that of the history that is stated, and of no
other.  *Correct when* all readers take the same statements, and roots and proofs
hold for exactly the history they are about.

Not modelled: writing to anchor stores and hardware tokens, exports, the layout of
reports, the command line except `pala verify`.

### 1.10 How they interact

```
 openai_api / hooks / otel ──tool_called, tool_result──▶ NativeAudit ──▶ PalaWriter ──▶ segments, manifest
            │ chat                                          ▲                              │ files
            ▼                                               │ guard refusals               ▼
 core ──▶ NativeEngine / Session ──slots, prefixes──▶ Scheduler ──▶ backend         TailingReader, verifiers
   ├─audited()──▶ AuditLog ──▶ SQLite + keychain
   ├─fit, add, retrieve──▶ BlockMemory ──▶ SQLite
   └─active_engine──▶ registry.json, LlamaCppEngine ──▶ llama-server
```

Writers of one container meet only through its lock file, writers of one
database through `<db>.lock`, SQLite's own lock and the keychain.  Readers take
no lock.  The scheduler reports a refused prefix release to `NativeAudit`
before it raises; everything else flows downward.

`PROJECT.json` lists the components with their status and every hazard with its
line and the properties that cover it.

## 2. Modules

| Module | Models | Used by |
|---|---|---|
| `HashChain` | rows chained by hash: head, linearity | both logs |
| `AppendOnlyLog` | the abstract promise: a log that only grows, chained, and a mark that only moves forward over it | refinement of both logs |
| `AuditLog` | 1.1: handles of several processes, each failure point a step | `MCServing`, `AuditLogProofs` |
| `AuditLogProofs` | theorems of `AuditLog` for all constants | |
| `AuditKey` | `load_or_create_key` in several processes | `MCAuditKey` |
| `PalaWriter` | 1.2: processes that start, resume, write, cut and lose one chain | `SegmentSet` |
| `PalaWriterProofs` | theorems of `PalaWriter` and `SegmentSet` for all constants | |
| `SegmentSet` | 1.6: the verdict over the set that those writers leave on disk, and `segment_chain` | `MCChainAndSlots`, `MCPalaWriter`, `PalaWriterProofs` |
| `Container` | what one file's bytes mean to its readers: the walk, the chain rules, the answer to an anchor | `NativeAudit`, `Tailing` |
| `NativeAudit` | 1.3: threads of one process over the writer, with faults | `MCEngines`, `NativeAuditProofs` |
| `NativeAuditProofs` | theorems of `NativeAudit` for all constants | |
| `Tailing` | 1.6: the tailing reader against a writer that tears and truncates | `MCReaders`, `TailingProofs` |
| `TailingProofs` | theorems of `Tailing` for all constants | |
| `Merkle` | roots, frontier and proofs as operators | `Evidence` |
| `Evidence` | a chain that is cut, checkpointed, resumed and thinned out, and what can be proved of it | `Statements` |
| `Cbor` | what decoders make of a map: repeated keys, order, heads | `Statements` |
| `Statements` | 1.9: statements about that chain, signed by the product and by others, and what the product and run B3's reader make of them | `StatementRuns` |
| `StatementRuns` | 1.9: the runs B1 and B2 as lists of checks | `MCReaders` |
| `Verifiers` | 1.6: the chain rules of the incremental verifier, the reference and two independent ones | `Reader` |
| `Reader` | 1.6: what a finished file holds, read in place and from decoded records | `Verdict` |
| `Verdict` | 1.6: anchor sources, the diagnosis, the report's verdict, `pala verify` | `Reading` |
| `Reading` | 1.6: a file from its writer to its reader, and what was done to it in between | `MCReading` |
| `Scheduler` | 1.4: sequences, slots, holders, the decode step, over an external backend | `MCChainAndSlots`, `NativeEngine`, `SchedulerProofs` |
| `SchedulerProofs` | theorems of `Scheduler` for all constants | |
| `NativeEngine` | 1.4: the engine and its sessions, composed of two instances of `Scheduler` | `MCNativeEngine`, `EngineProofs` |
| `EngineProofs` | theorems of `NativeEngine`, composed of those of `Scheduler`, and of `EngineRegistry`, for all constants | |
| `CallLedger` | the abstract promise: a call once, a result after it, one only | refinement of `Serve` |
| `Serve` | 1.5: request threads of four routes, the pending map, the shutdown | `MCServing`, `MCServe`, `ServeProofs` |
| `ServeProofs` | theorems of `Serve` for all constants | |
| `ContextWindow` | 1.7: `fit()` as operators, and what its docstring says of it | `BlockMemory`, `MCWindow` |
| `BlockMemory` | 1.7: calls of several processes over one store, with SQLite's locks | `MCBlockMemory`, `BlockMemoryProofs` |
| `BlockMemoryProofs` | theorems of `BlockMemory` and of `fit()` for all constants | |
| `EngineRegistry` | 1.8: the choice of an engine across processes, and its server | `MCEngines`, `EngineProofs` |

The `MC*` modules add model values and symmetry sets for TLC.  Four of them,
`MCEngines`, `MCServing`, `MCChainAndSlots` and `MCReaders`, put two specifications
that share no variable into one run: the first state says which part of the system
a behaviour is of (`part`), that one moves by its own next-state relation, and the
other stays as it begins.  Their states are the sum of the two, not the product, and
what is found of each is what a run of its own would find.  `MCWindow` has a
behaviour of its own: a conversation that grows.

### 2.1 AuditLog

`db`, `txn`, `anchor` and `xlock` are what processes share; `pc`, `prev`,
`last`, `since` are a handle's fields and where its writing thread is; `vpc`,
`snap`, `verdict` belong to a `verify()` that another thread of the same handle
may run.

`record()` is `Acquire`, `ReadHead`, `Insert` or `InsertBusy`, `Commit` or
`CommitFails`, and when an anchor is due `StoreAnchor` or `AnchorFails`.  A row
is the pair of its hashes; `row_hash` is a fresh number, which says of SHA-256
that it does not collide.  `CommitFails` keeps or drops the transaction: SQLite
does the first when the database is busy and the second when the disk is full;
in the first case the next successful commit takes the row with it.  `Crash`
drops the lock and the open transaction.  `verify()` is `VerifyRead` and
`VerifyJudge`, because the code holds nothing across processes between them.

The bounds `MaxRows`, `MaxOpens`, `MaxCrashes`, `MaxOutages` and
`MaxCommitFailures` are in the guards; the theorems hold for any value of them.

### 2.2 PalaWriter

`files[i]` is the content of segment `i` (0 is the base, `i` is `base.0000i`);
`manifest` the list in `base.segments.json`; `lock[i]` the lock named after
segment `i`, although a rotated chain uses only the base's.  The other
variables are a writer's fields, by process; `chain` is a history variable, the
records in the order in which they were completed.  `pc` says how far the
thread that holds the writer's lock has come: `fresh` and `scan` while a writer
is opened, `cut` and `successor` within a cut.

* Starting is `CheckFresh` (is the file empty?) and `Start` or `StartRefused`
  (the lock), two steps as in the code.
* Resuming is `TakeLock`, then `Truncate` for a torn tail, then `Adopt`,
  `ClosedRefused` or `ResumeRefused`.  `Adopt` does everything
  `_open_existing_locked` does after the scan: head and seq, the frontier
  (deferred for a whole chain, taken from the manifest for a later segment),
  the ordinal, which manifest is this chain's, the fold-back of a cut that did
  not finish.
* `Emit` is `_emit` of any record kind: the encoded record goes to the file, the
  fields advance, the frontier takes the hash (and is built when it was deferred
  for too long), the rotation policy is asked.  Writes succeed here; those that
  do not are in `NativeAudit`.
* A cut is `CutManifest` and `CutSuccessor`, with a crash possible before,
  between and after.  The successor appears whole, by rename, with its
  continuation record in it.
* `Crash` anywhere; while a record may be on its way it may leave a torn one.
* `Retire` is external: a retention policy that removes the oldest closed
  segment while no writer has it open.

The kinds of record are the ones the control depends on: GENESIS, BOOT, span
start and end, continuation, and EVENT for every other.  Which record crosses a
threshold of the rotation policy is a choice of the environment, which covers
thresholds on records, bytes and age alike.  A Merkle root is the sequence of
hashes it covers; that the frontier computes that root is the subject of
`Evidence`.

Taken as given: all writers of the chain have a rotation policy; the frontier
and the ordinal of a resumed segment are known (manifests written by this
version); leftover temporary files are ignored, as the code ignores them.  Two
constants open doors that the passing run keeps shut.  `ResumeAny` lets a resume
name any segment (otherwise the newest or the last closed one), and the chain
forks: the run `resume_closed` opens it, because a document says that the code
refuses that.  `FreshAnyTime` lets `PalaWriter(path)` meet a chain that came to be
after its check for an empty file, which a comment at that check takes for enough;
`OneChain` breaks then as well (see *Observations*).

### 2.3 AppendOnlyLog

One action adds rows at the end, one moves the mark.  For `AuditLog` the log is
the committed table and the mark the position of the anchored row; for
`PalaWriter` the log is the history and the mark the number of records that
went with retired segments.  One promise with two implementations: in the first
the mark protects what has been anchored from ever being un-anchored, in the
second what retention takes is a beginning and nothing else.  That the history is
what the segments hold is `SegmentsHoldTheChain`, a part of `OneChain`, which says
so segment by segment.

### 2.4 Scheduler

Tokens are counted, not named.  The backend is external and holds for each
sequence the positions of its cells (`kv`) and whose cells it shares
(`shared`); that is enough to say that a decode begins where the KV ends and
that nobody's cells are recycled.  `slot[j]` is a `_Slot` without its sequence,
`slots[s]` says whose slot has sequence `s`, `free` is `_free_seq_ids` in its
order, `queue`, `holders` and `consumers` are the fields of those names.

The actions are the methods.  `Step` is `step()` as a whole: `_admit`, the
decode of all that is pending, one token for each, the release of stateless
slots that are finished, whose sequences go back in any order; which of them
draw a stop token is a choice.  `StepFails` is a `decode` that raises after the
requests were admitted.  A slot that is gone is reset, because nothing reads it
any more.  `Next` calls the methods as the engine does (a holder is warmed once,
a prefix goes into a new slot), but in any order.

### 2.5 NativeEngine

`S` is the session scheduler, an instance of `Scheduler` over the module's own
variables, `C` the scheduler that a `chat_stream` makes for itself, over the
same backend: the two instances share `slot`, `kv` and `shared` and have their
own free list, queue and slots.  That sharing is what the code does.

There is one thread.  `op` and `who` say what it is in the middle of:
`open_session` is `OpenSession`, `ReserveHolder`, `WarmHolder`, `TakeSlot`,
`CopyHolder`, and `OpenFails` wherever the code can raise, leaving behind what
was done.  A turn is fed and stepped in one go until its stream has a token
(`Send` or `AppendResult`, then `TurnStep`); then the stream is suspended
(`streams`) and anything else may happen before the next token, another
session's turn included.  `RunSessions`, `BatchStep` and `BatchEnds` are
`run_sessions`.  `calls` is history: the tool calls that went on record and the
number of results each got; `stray` is history as well.

Left out: the records of spans, loading the backend, the frame of a state blob,
and tokens of an inline system prompt (part of an input's length).  `hops` stops
at the cap, where the code goes on counting refusals.

`Careless` opens doors that the passing run keeps shut, because the code does
not guard them: chatting while sessions or holders exist ("overlap"), dropping a
chat stream in the middle ("abandon"), going on with the stream of a closed session
("stale"), noting a tool call under an id that is pending ("reuse").  Each breaks a
property of the passing run, which therefore speaks of callers who do none of them,
as do the comments of its properties.  For the first the code promises otherwise:
the run `chat_overlap` opens that door and checks the promise (`NeverContends`).
Of the other three no document says anything; what each leads to is in
*Observations* and in the list of hazards.  Behind the door too, one chat runs at a
time (`chat = None`): two chats are two schedulers that begin with sequence 0, the
case of a chat and a session over again.

### 2.6 Serve and CallLedger

`pending` is the dictionary, from ids to references (position of the call,
provenance); `closed`, `lock`, `seen`, `tlock` are the ingests'; `req[t]` is what
thread `t` is in the middle of: `at` names the next step of its route, `key` and
`ref` what it has in its hands.  `chain` holds the tool records only, and a
record is one step, because the writer has a lock; everything between two
records, between a record and the dictionary, and between the dictionary and
the checks of the request is a step of its own.

* Chat: `ChatRequest`, `ToolMessage` and `WriteResult` for each tool message,
  then `ReplyHasCall`, `WriteCall`, `Bind` for each call of the reply, or
  `NoCall`; `ChatOver` wherever the request may end.
* Events: `EventCall`, `WriteCall`, `Bind`; `EventResult`, which pops, and then
  `WriteResult` or `EventRejected`.
* Hooks: `Hook` takes the ingest's lock and picks the branch, `HookPop` and
  `HookResult`, which closes the pair and remembers it.
* Traces: `TraceBatch` takes the lock for all of `ToolSpan`, `WriteCall`,
  `SpanResult`; `BatchOver`.
* `WriteFails` is a record that raises on any of them.
* `Stop`, `CancelPending`, `Cancel`, `CancelFails`, `Closed` are the shutdown,
  whose cancellation runs in a handler and once more in `run_serve`.

`IdAssumption` says that ids of different routes differ: a wire id is random, a
hook's has a prefix.  An event client may report any id, one that is open as well,
and any digest.  Two kinds of calls get no result for that: `spoiled` remembers
those whose result came with a digest that is no hexadecimal text, `SharesItsId` are
those whose id stands for another call too.  `EveryCallClosed` excepts the two and no
others; that the docstring of the route does not is what the run `reported_call`
shows.  `Careless` has one door, "cancel_fails": a pass of the cancellation fails
half way, and the second pass writes some results again.  It stays shut in the runs;
open, a call has two results, and no document says how often a cancellation may be
recorded.  Left out: authentication, how replies are streamed, names and outcomes, a
process that is killed before its shutdown.

`CallLedger` is the promise: a call is put down once, a result belongs to a call
before it, no call has two.

### 2.7 Container and NativeAudit

A file is a sequence of cells: a record is a header and, for most types, a body.
A write that ends early leaves a cut header or a header without its body.  The
walk believes length fields, as the code does: behind a header without body it
takes the next record's bytes for the body (`Swallows`), and the result is one
record with a body that belies its digest; a header cut behind its length fields
fares the same.  The hash of a record is its `(boot, seq)`, and another one when
a byte of it has rotted.

`NativeAudit` writes each record in two steps, with the writer's lock held in
between, so what other threads, a self-check or a crash find in the middle is a
state of the model.  Faults share a budget: the process dies; `write()` raises
with nothing on disk; it ends early unnoticed; a byte of the newest header
rots; the anchor store refuses.  `Construct` is the constructor, `Refuse`,
`ReadClock`, `NoteGuard` a refusal with its escalation, `Anchor` and `Store` an
anchor and its caller's report, `SelfCheck` the check, `Emit` and `EmitEnds` any
thread's record.  One thread anchors at a time, because the owner of the audit
does; `MaxStall` bounds how long a thread is held up between reading the clock
and taking the trigger lock.

### 2.8 Tailing

Here a record is `Units` units and the writer puts down one at a time, so a poll
may find any part of it.  A poll is `TakeSize`, then `Drain` or `DrainReplaced`:
the file may be another by then.  The writer is seen from outside: it opens
(truncating a torn tail, then BOOT and RECOVERY), writes, dies; `Rollback` is
somebody who rewrites history, once.  `age` is how long ago the pending bytes
were first seen, `verified` the emitted records, the other variables are the
fields of their names.  Whether the tailing reader's `snapshot()` says what the
batch verifier says is `ChainOk(verified)`.

### 2.9 Merkle and Evidence

SHA-256 is a constructor: equal values have equal preimages.  `Merkle` holds the
code's layered root, the frontier (peaks, byte form, deferred rebuild) and both
proofs with their verifications, and `TreeHash`, RFC 6962's definition, as the
reference.  `Evidence` drives them: one thread writes, as `merkle_checkpoint`
asks for, and the chain is cut, checkpointed, closed, resumed from what the
manifest recorded and thinned out, in every way.  The properties quantify over
all positions and over all altered chains.

`Statements` drafts a statement over such a chain: the product's (`Publish`), or
another program's (`Sign`) with keys of a map repeated, missing or out of order,
another type, root or range; and then something may happen to it on its way
(`Carry`).  A digest and a signature hold what they were made of.  `VerifyStatement`
is the product, `ReadStatement` the reader of run B3, and `ReadersAgree` says that
they take the same statements but for the differences that `ProductOnly` and
`B3Only` list.  `StatementRuns` has the checks of the runs B1 and B2, which rebuild
a statement from its inputs and damage it in their own ways.

### 2.10 SegmentSet

`Consistent` and `Complete` are `verify_segment_set` over the files and the
manifest; they are evaluated in every state of `PalaWriter`, in the middle of a
cut and after a crash in it included, and over the same sets with any one record
taken out.  `Pieces` and what follows is `segment_chain` of the whole chain.

### 2.11 ContextWindow and BlockMemory

`Fit` is `fit()`: the partition, and the walk over the middle from its newest
message to its oldest as a recursive function.  A message has a role and a size;
token counting and the texts are not modelled, an empty text is a size of 0.  Its
id is its place in the conversation (`TalkAssumption`), which tells equal messages
apart as the code's list does; `Chosen` is a list comprehension.  `FitIsSound`, in
`BlockMemory`, says what the code does; `FitAsDocumented` what the docstring of the
class says, with the sink as it is described there (`DocumentedSink`), and the run
`window_claims` is the place where the two part.

A session is a process, a call one of its threads.  `chat()` is `Chat`, then
`Insert` for each message (or `InsertFails`, `EmbedFails`), `Commit` or
`CommitFails` or `NothingStored`, `Retrieve` or `RecallsNothing`, `StreamEnd`.
`memory` is the thread that made the connection: sqlite3 raises in any other,
which `chat()` swallows (`Lent`).  SQLite's rollback-journal locks are what they
do to others: `lock` is a process's "reserved" or "pending" lock, `reading` its
shared one, `inTxn` the transaction that Python's sqlite3 opens before an
insert, and that nothing closes when `add()` raises.  That a failed insert has
no shared lock, that a read in the open transaction keeps one, and that a failed
commit leaves a pending one was seen by running the code's calls.  Which blocks
are near to the query is up to the embeddings and told apart by no property.
`failed` is history: whether an add of the session has failed since its last
commit.

### 2.12 EngineRegistry

`text` is the engine that the text of `registry.json` begins with and the text's
length: `write_text` empties the file and then writes at its start, so two
writers may leave the end of the longer text behind the shorter, which
`_load_active` takes for no choice.  A process reads the file and probes the
engines when it begins (`Start`) and goes by that (`Configured`,
`ActiveEngine`).  `SelectBegin` and `SelectEnd` or `SelectFails` are
`set_active`; `Use` and `UseAndStart` a call, `ServerReady` and `ServerFails` the
end of a server's start, `process` and `client` the fields of the engine.
`settled`, `heard` and `crossed` are history: the last choice that no other
writer disturbed, the one that a process began with, and where two threads
started servers at once.

### 2.13 Verifiers, Reader, Verdict and Reading

A record is its header's fields, the fields of its body that a question is
about, and `bound`, whether the body is the one whose digest the header has.  A
hash is the name of a record as it was written and what has been changed in its
header since, so equal headers have equal hashes and no others.  Where a record
ends was settled by the walk (`Container` is about that), so `header_len` and the
magic cannot be wrong here, and the code's halt on them is not modelled.  The
MUSTs about a header's own bytes (times, zero fields, TLVs) are one field,
`flaw`: each looks at one header only and all verifiers word them alike.

`Verifiers` has the incremental verifier as a step over its state, and the three
others as what they report of the whole sequence, as their loops look back no
further than one record.  `Reader` has each question that the code answers in two
ways, in place (cold) and from decoded records (warm), with `warm` as a parameter
of the helpers that differ; references, key shreds, continuations, spans, boots
and the origin index.  `Verdict` has the anchor sources, `_derive_diagnosis` in
the order of its tests, the report's rule and `pala verify`, which walks and
judges by itself.

`Reading` is a life of a file.  A writer puts down one of `Scripts`, or dies in
it (`Write`, `Tear`).  Somebody who knows the format changes it: records are
dropped, duplicated and swapped, headers and bodies edited, all links and, if
they think of it, all seqs made anew (`Relink`); nothing stops them, because the
chain has no key.  Then one `AuditReader` opens it and is asked, in any order,
decoding all records at some moment or never.  `kept` is what it has answered;
its lock makes each answer one step.

Left out: wall clocks and time trust (treated like `mono`, which is modelled),
several TLVs of one tag, the texts of diagnoses, and questions about evidence
that one record answers alone.

## 3. Runs

| Run | Expected | Shows |
|---|---|---|
| `serving` | pass | calls: two request threads of four routes, with a failing record and a shutdown: a result is bound to its call, repeated deliveries make one pair, no call stays open but two kinds of reported ones, refinement; audit log: every interleaving of two handles with one crash, one keychain failure and one failed commit: linear chain, committed anchor, durable verdicts, bounded unanchored tail, refinement |
| `chain_and_slots` | pass | chain: two processes start, resume, cut, close and lose a chain of which segments are retired: one chain, on disk whole, true manifest, sets judged rightly at every moment, no span severed, roots over everything, refinement; slots: three jobs on three sequences and two slots: one owner per sequence, positions that are what the KV holds, holders that outlive their consumers |
| `engines` | pass | audit: two threads of the native engine refuse, escalate, anchor and check over a writer that crashes, raises, writes short and rots: acknowledged records are on disk, escalations and accusations true, anchors never "replaced", what is lost shows; choice: an endpoint with two calls and a command that choose engines, die and start servers that fail: an undisturbed choice holds, a server that runs is known |
| `readers` | pass | tail: a reader polls a file that is torn, truncated, resumed and rolled back: it emits what was written, once and in order, accuses nobody falsely and is never silent for good; statements: nine records, three segments, every order of cuts, checkpoints, resumes and removals: three ways to the root agree, proofs of inclusion and of consistency and bundles hold for what they are about and nothing else; statements over up to five records: all readers take the same ones, and a root is that of the history |
| `native_engine` | pass | two sessions and a chat with careful callers (2.5): one owner per sequence and true positions for whole calls, holders accounted for, one fate per tool call, streams without strangers' tokens; under fairness, loops that end |
| `block_memory` | pass | an endpoint with two calls and a command on one store, with failing embeddings, inserts, commits and processes that end: stored is stored, only a failed add keeps others out, every chat comes to its end; and the window does what its code says, over every conversation of up to five messages |
| `reading` | pass | six logs, torn or whole, changed up to three times and relinked or not, then read: four verifiers, the report and `pala verify` agree, a reader answers the same cold and warm, sound means genuine, what was acknowledged and shredded is what no advisory doubts |
| `audit_key_race` | violation | 1 below |
| `chat_overlap` | violation | 2 below |
| `reported_call` | violation | 3 below |
| `window_claims` | violation | 4 below |
| `resume_closed` | violation | 5 below |

*Bounds* of the passing runs, part by part.

* The audit log (`serving`): two processes and three opened handles, so one process
  closes or dies and returns while the other works; four rows with an anchor every
  second one, so there is a row before, at and after an anchor, of either process;
  each fault once, and all of them in one behaviour. Forks, lost anchors and stale
  verdicts need two actors and two rows; a second fault of a kind repeats the first.
  None of the safety results rests on the bounds, they are proved.
* The chain (`chain_and_slots`): six records and three writers opened: enough for
  GENESIS, a cut, a crash in the second cut, a resume, and a third segment; a pending
  limit of two, so that the deferred frontier is built both by the limit and by a cut;
  one span, opened before and closed after a cut falls due.
* The native audit (`engines`): six records (the opening ones, then refusals, an
  escalation and an anchor among them), two faults, so that a crash may follow a short
  write; rot weighs as much as two, so it is seen alone. Thresholds of two, a window
  of no tick, a stall of one: refusals of both threads fall into one window, and out
  of it.
* The tail (`readers`): three units, so a torn record may be so in two ways and grow
  while torn; four records and three writers, so a tail is truncated twice; a grace of
  one tick, so that a diagnosis is given, held and taken back.
* Evidence and statements (`readers`): nine records, so the tree takes every shape up
  to one past a power of two and a proof's path has up to four steps; three segments,
  so one is removed, one closed and one written; statements are drafted over chains of
  up to five events (`MaxStated`), a prefix of a power of two and one past it among
  them.
* The scheduler (`chain_and_slots`): one sequence more than slots, so a holder stands
  beside two consumers, or two holders take what slots need; two tokens to an input
  and two to a turn, so a turn ends by its cap or earlier, and requests wait. A
  sequence holds two positions (`NCtx`): an input of two fills it at once, one of one
  token fills it with the next step or turn, so positions are seen at the beginning,
  in the middle and at the end of the KV. More positions repeat the middle, where a
  step moves every slot by what it has pending; `PositionsTrue` is proved for any.
* The engine (`native_engine`): as many sequences, for two sessions that share one
  prefix; a KV of three positions, so a session has a second turn or a tool result
  after a short first turn; one tool call, one failing prefix. Nothing but these
  bounds makes the positions finite.
* The calls (`serving`): two threads, two wire ids, an event id, two hook ids of one
  agent, two spans, memories of one entry (so they forget), four messages, hooks or
  spans in all, one failing record. Two threads and one id reach every race on the
  map; what needs more threads or longer memories is covered by the proofs.
* The memory (`block_memory`): two processes, one with two threads, so that there is a
  thread that has the connection, one that has not, and another process; talks that
  evict nothing, one, two and an empty message; no chat begins when two blocks are
  there, which is enough for an add that fails half way and one that commits what it
  left. A window and a sink of one message and a budget of two messages: conversations
  of five cross every boundary.
* The registry (`engines`): the same processes; the three engines, whose names have
  three lengths; two sets of engines that a process may find.
* Files (`reading`): six logs of four or five records, one for each thing a reader is
  asked about (tool calls, oversight, origins, boots and spans, shreds, segments);
  changes and questions share a budget of three: two changes (or a change and a
  relink) and one question, one change and two questions in either order, all three
  questions of an untouched file. A rule looks at one record, at two neighbours or at
  a record and its target, so a record and its target can both be changed. The anchor
  is the last record, an earlier one behind a broken source, a stranger's, or none;
  the manifest agrees, disagrees, is short or absent.

The runs that are to be violated are as small as their traces: one session without a
prefix and one chat (`chat_overlap`), one id and no failing record (`reported_call`),
messages of up to two tokens of content (`window_claims`), two openings of a chain of
up to five records (`resume_closed`), two processes (`audit_key_race`).

Processes, threads and ids that are interchangeable are so in all invariants and
abstract specifications; runs without liveness use that as symmetry: two threads and
two hook ids in `serving`, two processes in `chain_and_slots` (the third job stays what
it is), two threads in `engines`.

*Deadlock* is checked in `readers` for the reader, which polls for ever, in `engines`
for the registry, where a process can always begin, and in `block_memory`; the other
part of the first two may come to its end and stutters then.  Elsewhere it is not
checked: all handles may be closed for good, and the bounds stop the rest.

*Fairness.* In `native_engine` weak fairness of `Loop`, and nothing else: it is
the `while` of `run_batch` and that of `run`, which goes on as long as its caller
takes tokens.  A caller who stops, or a decode that raises, ends the call without
fairness.  In `readers`, where the tail is the part that moves, weak fairness of the
reader's steps and of the clock: the consumer goes on polling, which is what the
class is for, and time passes; the writer need not do anything.  In `block_memory` weak fairness of a call's steps:
sqlite3 waits for a lock for a bounded time and then raises, and an engine's
stream ends.  That an embedding fails is not counted on.  Nothing else has to happen: a
caller may always stop calling.

Every property of a passing run has a mutant in `PROJECT.json`, a changed
definition (marked "Seeded fault" in the module) under which TLC finds that
property violated.  Some modules keep a second seeded fault that TLC finds as
well: `HoldersAccounted` (`Remembered_Lost`), `OwnTokens` (`Taken_Kept`), `OneChain`
(`Allowed_NoBoot`), `ManifestIsTrue` (`NextSegment_FirstFree`), `UnanchoredTail`
(`MayAnchorOnClose_FullBatch`, `Insert_AnchorsFirst`), `LossShows` (`Opening_RecoveryFirst`), `RootsAgree`
(`Layer_Duplicated`), `SetIsJudged` (`Pieces_Full`), `ChainSound`
(`Complete_HeaderOnly`), `BoundToItsCall` (`Bound_LastRecord`), `ProofsSound`
(`Joined_OneSide`, `Arrived_Second`), `PositionIsKV` (`Releasable_Any`), `OneChain`
(`Leave_LockKept`, `Clean_Torn`), `RootCoversChain` (`CutNow_AnySpan`), `SequencesSound`
(`Emptied_NotCleared`), `EscalationTrue` (`AfterEscalation_Kept`),
`EmittedIsWritten` (`StillTorn_Sticky`), `FitIsSound` (`WindowStart_Overlap`),
`ServerIsOwned` (`MustStart_Always`), `LoopsAgree` (`Resolves_BySeq`).

### Findings

1. `audit_key_race`: two first runs both find no key; the first sets and reads
   back its own, then the second sets its own.  The comment says that both
   callers end up with the same key (`audit/key_manager.py:133`).
2. `chat_overlap`: `chat_stream` has a scheduler of its own, but sequence ids are the
   backend's, and both schedulers begin with 0 (`providers/native/__init__.py:274`).  A
   session is open; a chat decodes its prompt into the sequence that is the session's,
   and will drop it at the end.  The docstring says that stateless work "never
   contends with session slots" (`:267`).
3. `reported_call`: the events route pops the waiting call before it reads the digest
   (`server/openai_api.py:571`); one that is no hexadecimal text raises (`:584`) and is
   answered with an error (`:595`), the entry is not put back as it is for an unknown
   outcome (`:580`), and the shutdown does not cancel the call.  A call under an id
   that is open takes the entry of the other over, to the same end (`:565`).  The
   docstring says that a reported call left unresolved "is cancelled like a wire one"
   (`:505`).
4. `window_claims`: a system message and one that follows it, with a sink of one
   message: the code counts the system prompt among the messages of the sink
   (`context/window_manager.py:150`) and evicts the other.  The docstring has the sink
   as the system prompt and the first `sink_messages` other messages (`:61`).  It also
   has the middle evicted oldest-first until it fits (`:64`); the code goes from the
   newest to the oldest and keeps whatever still fits (`:119`), so a small old message
   may be kept where a newer, large one is evicted.  The run stops at the sink; the
   second half of `FitAsDocumented` is violated alone as well.
5. `resume_closed`: a resume compares the file only with the last entry of the manifest
   (`audit/pala_writer.py:559`), so an older closed segment is accepted and written on,
   beside the chain that goes on in its successors.  With one process: start, cut, cut
   again or crash in the second cut, resume on the base.
   `docs/specs/pala-1/profiles/retention-continuation.md:153` says that resuming on a
   segment whose successor exists is refused.

### Observations

What else the models show and no run asserts; the passing properties are stated
around it.  Where a document or a comment of the repository says otherwise, the item
names it.

* `verify()` of the audit log reads the rows, then loads the anchor; when another
  process appends and anchors in between, the verdict is "replaced or rolled
  back" although nothing was (`audit/log.py:514`, `:570`, `:587`).
* The check for an empty file precedes the lock: a writer that came and went in
  between leaves a file to which this one adds a second GENESIS
  (`audit/pala_writer.py:484`; `FreshAnyTime` in `PalaWriter`).  The comment there
  says that a fresh writer on such a file is refused.
* A tool call noted under an id that is pending replaces the first one, which then
  never gets a result (`providers/native/session.py:269`; "reuse" in `NativeEngine`).
* A cancellation that raises at its second record or later leaves the calls before it
  in the dictionary, and the second pass writes their results again
  (`server/openai_api.py:229`; "cancel_fails" in `Serve`).
* `run_turn` picks its tokens by sequence id: the stream of a session that was
  closed in the middle of a turn goes on with the tokens of the session that got
  the sequence (`providers/native/scheduler.py:511`; "stale" in `NativeEngine`).
* `write()` may write less than it was given and says so in its result only,
  which is dropped (`audit/pala_writer.py:807`).  With one record behind it, the
  walk takes that record's bytes for the missing ones; a resume may then truncate
  an acknowledged record.  `LossShows` says how far this is visible.
* A crash between the truncation of a torn tail and the recovery record loses the
  record of the truncation: the next resume finds a whole file.
* `self_check()` raises on an unfinished or damaged record, instead of recording
  SELF_CHECK_FAILED (`docs/guides/inference.md:292`).
* An escalation whose record cannot be written is gone: the window was cleared
  before (`providers/native/audit.py:180`).
* The tailing reader's diagnosis of a torn tail is not given a second time
  unless a poll has found the file whole in between, and a file rewritten at the
  same length is not noticed until it grows (`audit/tailing.py:225`).
* `verify_statement` answers a message that is cut off, or whose protected header is
  no map, with an error of the decoder and not with its own `ValueError`
  (`audit/pala/scitt.py:399`; `Raised` in `Statements`).  A v2 statement's head is not
  bound to its range: nothing but the holder of the chain can tell that the head is
  that of its last record.
* Who holds only a later segment cannot recompute the root of a true statement, and
  is told that the chain has too few records or that the root is another.
* Run B2's check that the payload's keys are in order re-encodes them in the order
  that it read, so it cannot fail (`scitt-statement-b2/verifier/scitt_verify.py:174`).
* `assemble_bundle` reads the file twice: records from the first reading, head and
  proofs from the second (`audit/pala/bundle.py:87`).  A range need not hold the
  MERKLE record whose root its proofs end in.
* In a segment set the segment being written is recognised by its first record:
  without it the set is called consistent and complete.  A torn tail raises
  `MalformedRecord`.
* The blocks are one store for all conversations and runs, but what is recalled
  is introduced as "recalled from this conversation" (`core.py:347`).  Every call
  of a long conversation evicts and stores the same messages again, and the copies
  fill the hits.  The recalled text is put in front after fitting, so a prompt may
  exceed the budget.
* The endpoint builds its state in the thread of the first request, and sqlite3
  lends the connection to that thread: calls on other threads have no memory,
  silently (`Lent` in `BlockMemory`).
* After a commit that failed under another's read, the file stays pending: no new
  session gets a memory (`CREATE TABLE IF NOT EXISTS` fails), until the one ends
  or commits.  Two sessions may hold each other up so; their chats go on.
* A config that names llamacpp, in a run without a model for it, is a `KeyError`
  and not the fallback that `active_engine` describes, because the engine is not
  registered (`core.py:129`).
* Two threads may start a llama-server each; one of them is then known to nobody,
  and the client may be made for the other's, which is not ready yet
  (`providers/llamacpp.py:158`, `:165`).  A server that died is not restarted, and
  one that runs when the process ends is left running: nobody calls `close()`.
* A cold reader takes the kind of an EVENT from the first TLV of its body even
  where the rest of the body, or the header's TLVs, cannot be decoded; a warm one
  has no kind for such a record.  So a LOAD, UNLOAD or RECOVERY with a malformed
  rest counts only for a reader that has not decoded, and a malformed continuation
  is reported only by one (`audit/reader.py:1815`; `Misread` in `Reading`).
* `acknowledged_candidates` looks at SAFETY records only, the advisories at every
  record of the kind; and where a seq is there twice, the first resolves a reference
  in one place and the last in another (`audit/reader.py:2080`, `:989`, `:1609`;
  `Orderly` in `Reading`).
* A body that is not the one its header binds makes the verdict "violation", and
  there is no diagnosis of it (`audit/report.py:37`).
* The two independent verifiers flag a GENESIS that is not first also in a record of
  an unknown version, which the code skips; one of them reports a missing prefix at
  the first record's seq instead of 0, and a first record that names a predecessor
  as a break.
* A segment verified alone, from the head before it, tells of no gap at the seam, nor
  of a GENESIS there.
* Two processes that choose at once may leave a text that neither wrote; it is
  taken for no choice (`registry.py:156`).
* A checkpoint aggregates what its segment holds, so the records behind the last
  checkpoint of a closed segment are never covered by one.

## 4. Proofs

### 4.1 AuditLogProofs

For any set of processes and any bounds:

| Theorem | Says |
|---|---|
| `TypeCorrect` | `Spec => []TypeOK` |
| `InductiveInvariant` | `Spec => []IInv` |
| `ChainIsLinear` | `Spec => []ChainLinear` |
| `AnchorIsCommitted` | `Spec => []AnchorCommitted` |
| `Refinement` | `Spec` implements `AppendOnlyLog` |
| `VerdictIsDurable` | `Spec => []OkIsDurable` |
| `TailInvariant` | `Spec => []TailInv` |
| `TailIsBounded` | `Spec => []UnanchoredTail` |

`AnchorCommitted` is checked as a part of `UnanchoredTail`; `IInv`, `SnapInv` and
`TailInv` are proved, and were model-checked before.

Assumed are the module's named assumptions only: `Nobody` is not a process, and
`AnchorEvery` is a positive number.

*Argument.* `ChainLinear` is about what every connection sees, its open
transaction included.  It is not inductive: that the row being inserted names
the head needs `ReadInv` (the head that `record()` read is still the head);
which needs `LockInv` (only the holder of the lock is between read and insert)
and `TxnInv` (only one connection has uncommitted rows, so a row another one
left open cannot become the head in between).  `AnchorCommitted` needs
`LastInv`: `_last_written` is a committed row, and while it is being anchored it
is the head.  The refinement also needs `DistinctInv`, that no hash occurs
twice, because the mark is the position of the anchor; with it, appending does
not move the mark, and storing the head cannot move it back.  That `close()`
does not move it back either is the point of the code's check that its own row
is still the head.  Each conjunct is preserved action by action; the lemmas
about appended and concatenated chains are stated once at the beginning.

`OkIsDurable` is about two moments, the read of a `verify()` and any later state.
`SnapInv` ties them: what was read agrees with what every connection sees now
(`Agree`: a hash in both stands at one place, with the same rows before it), so a
row that is still there has the whole prefix with it; and an "ok" was given for
rows up to an anchored one, which stay committed.  It needs that hashes are drawn
once, so a row that was rolled back does not come back as another.

`UnanchoredTail` adds up what all handles contribute.  `TailInv` keeps it as an
account: every open handle has a credit of `AnchorEvery - 1` rows, of which it has
used `since`; a row spends one, an anchor gives all of them back, a fault pays for
the rest.  The unspent credit is a set of pairs (handle, number), so that the sum
over handles is a cardinality and a step of one handle adds or takes pairs of that
handle only; no induction over handles is needed.  A row that a failed commit has
left behind is paid for by the failure.  `HeadInv` is for the end: without a fault, the
head is anchored or the handle that wrote it is still open.

### 4.2 PalaWriterProofs

For any sets of processes and spans, any `PendingLimit` and any bounds, with both
doors shut (`~ResumeAny`, `~FreshAnyTime`):

| Theorem | Says |
|---|---|
| `InductiveInvariant` | `PalaSpec => []IInv` |
| `ChainIsOne` | `PalaSpec => []OneChain` |
| `ManifestStaysTrue` | `PalaSpec => []ManifestIsTrue` |
| `RootsCover` | `PalaSpec => []RootCoversChain` |
| `SetStaysJudged` | `PalaSpec => []SetIsJudged` |
| `Refinement` | `PalaSpec` implements `AppendOnlyLog` |

The two hypotheses are not for convenience: with either door open the code does
fork the chain (2.2, *Findings*, *Observations*), so the theorems say which calls the promise
needs: a resume on the newest or the last closed segment, and no new writer on a
chain that another one began after the check for an empty file, or whose base was
retired.  Assumed
besides are the module's `NullAssumption`, `ChoicesAssumption`,
`PendingAssumption` and `BoundsAssumption`.  `IInv` was model-checked first, on
the instance of the run `chain_and_slots`.

*Argument.* None of the properties is inductive: a step reads the disk, the
manifest or the memory of its writer, and each is right only as far as the others
are.  `IInv` puts them together.

* `ChainInv`: a record stands where its seq says, its hash is its place (hashes
  are drawn in the order of writing), and a change of boot begins with BOOT.
* `FilesInv`: the segments have consecutive names, hold the end of the chain piece
  by piece, and only the newest may end in a torn record, which is what makes
  the choice of `Newest` on a resume the right one.
* `ManifestInv`: the manifest lists the segments before the newest, and that one
  too exactly while a cut is between its steps or was broken off there
  (`Cutting`).  That is why the fold-back undoes a cut that did not finish and no
  other, and why the next name is free.
* `LockInv`: at most one process is past its lock, and it holds the name that all
  the segments share; a chain with more segments than its base has a manifest, so
  whoever comes later asks for the same name.
* `MemoryInv`: what a writer has in memory is the end of the chain, its entries
  are the manifest, and what its frontier covers, deferred or not, is the chain.
* `BootInv`, `SpanInv`, `ContInv`: boot ids are drawn once and a writer's is not
  in the chain before it has written; a span that this boot began and whose END is
  not on record is open in the writer's memory, so a cut that waits for the memory
  severs none; continuation records count the segments.

The changes to the disk have a lemma each (`DiskStarted`, `DiskEmitted`,
`DiskContinued`, `DiskRetired`, ...), each action then needs only its own writer's
memory; the last three invariants depend on what is added to the chain only,
and are proved for the three kinds of step there are (`StepKinds`).  For the
refinement, a step that writes extends the log, `Retire` advances the mark, and
nothing else moves either.

`SetIsJudged` follows from `IInv` in one state.  Each file is a piece of the chain
(`FileIsPiece`), and the entry that lists it tells where the piece begins and ends
(`ListedSegment`): so the walk of `verify_segment_set` finds every seam
and every file in order, and nothing listed is missing exactly if the first
segment is there (`SetIsConsistent`, `SetIsComplete`).  A file without one of its
records has not the length its entry gives; if it is not listed it is the one being
written, and a record missing inside leaves a gap in its seq (`RemovalShows`).  The
pieces of `segment_chain` end where the next ones begin, whatever rest is left for
the last (`PieceEnds`); that they join to the chain again is an argument about
`FlattenSeq`, the recursive function of the library, whose only solution is the
sequence of the chain's beginnings (`FlattenIs`, by a least place where two solutions
differ).  As in the property, segments of one, two and three records are
cut.

### 4.3 ServeProofs

For any set of threads, ids, agents and spans, memories of any size and any
bounds:

| Theorem | Says |
|---|---|
| `InductiveInvariant` | `ServeSpec => []ServeInv` |
| `ResultsBound` | `ServeSpec => []BoundToItsCall`, whatever clients do |
| `OnePair` | `ServeSpec => []OnePairPerDelivery` |
| `AllClosed` | `ServeSpec => []EveryCallClosed`, whatever clients do; the two kinds of reported calls that may stay without a result are named in the property |
| `Refinement` | unless a cancellation may fail half way, `ServeSpec` implements `CallLedger` |

Assumed are `ServeAssumption` (the bounds are numbers, the doors have names) and
`IdAssumption` (ids of different routes differ).

*Argument.* `ServeTypeOK`, `StepInv`, `PhaseInv` and `IngestLockInv` say where a
thread may be and who is inside an ingest.  The heart is `HeldInv`: a call that is not yet
resolved is in one place, the dictionary or the hands of one request, because
`pop` is one step; so two routes cannot both answer it, although the dictionary
has no lock.  `OneKeyInv` adds that nothing is in the way of a call that is about
to be kept under an id that no event client made up.  From these, `OpenInv` (what is
held has no result yet) gives the refinement: whoever writes a result writes that of a held call.
`OrphanInv` counts: a call leaves its place without a result when a record fails,
when its result comes with a bad digest, or when its id is reported again; so at the
end no more of the others are open than records failed.  `DeliveryInv`
accounts for every delivered hook and span: it waits, is at work, is remembered
or has been forgotten; a second call for it can therefore not begin.  The lemma
`Effects` reduces the steps of a thread to six kinds, and the invariants are
then proved kind by kind.

### 4.4 SchedulerProofs

For any number of sequences, slots and jobs, any backend context and any limit
of tokens:

| Theorem | Says |
|---|---|
| `InductiveInvariant` | `Spec => []IInv` |
| `SequencesOwned` | `Spec => []OneOwner` |
| `PositionsTrue` | `Spec => []PositionIsKV` |

Assumed are the module's `CountsAssumption` and `NoneAssumption`.

*Argument.* `OneOwner` and `PositionIsKV` lean on each other and on three more
facts.  A sequence in nobody's hands is empty and shares nothing (`CleanInv`),
else a slot that is opened in it would start behind its own KV.  A sequence
that shares a prefix is among the consumers of its holder, and only slots are
consumers (`HolderInv`), so a holder without consumers can go back without
taking cells from under anyone.  A waiting request is in the queue once, has no
slot yet and starts at 0 (`QueueInv`).  There is one lemma per method.  The two
that move many sequences at once have arguments of their own.  `Admission`: the
first requests of the queue get the first free sequences, one each, and no more
than fit.  In a step, or a step that fails, the sequences of all finished slots
go back to the free list in the order in which the slots end; `OrderOnce` shows
that such an order repeats nothing, since a list that names every member of a
set and is as long as the set has members names each once.

### 4.5 EngineProofs: NativeEngine

For any number of sequences, sessions, prompts, ids and calls, any backend context
and any limits:

| Theorem | Says |
|---|---|
| `ToolInvariant` | `Spec => []ToolInv`, whatever callers do: what the tool loop keeps and counts is of its type |
| `CallInvariant` | unless an id is noted twice, `Spec => []CallInv` |
| `CallsEndOnce` | unless an id is noted twice, `Spec => []EveryCallEndsOnce` |
| `EngineInvariant` | for careful callers, `Spec => []EngineInv` |
| `SequencesAreSound` | for careful callers, `Spec => []SequencesSound` |
| `HoldersAreAccounted` | for careful callers, `Spec => []HoldersAccounted` |
| `TokensAreOwn` | for careful callers, `Spec => []OwnTokens` |

Careful callers (`Careful`) chat only while no session is open and no holder is kept,
drop no chat in the middle, and leave the stream of a session alone that they closed.
They may note an id twice.  The hypotheses name doors of `Careless`; the code guards
none of them, and each breaks a property of the passing run (2.5).  The first is the
one about which the code promises more than it keeps: for callers who chat beside a
session the run `chat_overlap` shows what fails, and no theorem here covers them.
Assumed are the module's `CountsAssumption`, `NoneAssumption`, `SessionAssumption`,
`CarelessAssumption` and `PositionAssumption`.

*Argument.* The tool loop stands alone: `CallInv` says that the calls without a
result are those in the dictionaries, each of its own session and under one id;
a result takes the call out of the dictionary in the same step, and a session is
closed with an empty one.

`EngineInv` composes what is proved of `Scheduler`.  The module instantiates
`SchedulerProofs` twice, for the sessions' scheduler and for the one a
`chat_stream` makes for itself, and every step of the engine is shown to be a
method of one of them: `SlotInv` and `ChatInv` then follow from lemmas of
`SchedulerProofs` and not from a second proof.  The two share the backend.  What
makes that sound is in `ChatInv`: either there is no chat, or it has the backend to
itself, no session open and no holder kept; with "overlap" this is what fails.
New are `OpenInv` (how far `open_session` has come, so that a failure leaves behind
no more than was done), `OwnerInv` (an open session has its slot, a slot has an
open session or the one that is being opened, and no stream outlives it) and
`PrefixInv` (a holder is known to the registry, is just being warmed, or was lost
by a fault, by counting).

### 4.6 EngineProofs: EngineRegistry

The two specifications share a proof module and no name, so neither's theorems use
the other's definitions.  For any sets of processes, calls and hosts:

| Theorem | Says |
|---|---|
| `RegistryInvariant` | `RegistrySpec => []RegistryInv` |
| `SettledChoiceHolds` | `RegistrySpec => []ChoiceHolds` |
| `ServersAreOwned` | `RegistrySpec => []ServerIsOwned` |

Assumed is `RegistryAssumption`: a call has its process, what a host has
installed it knows of, and `Null` is none of the model's values.

*Argument.* `FileTrue` says that while an undisturbed choice is being written the
file is empty, so that whoever reads it then takes it for no choice, and that
afterwards the file holds that choice and nothing behind it.  A process that has
begun with a settled choice goes by it (`Heard`), and so does each of its calls
where the engine is installed (`Follows`).  `Owner` follows a server from the call
that starts it: it belongs to a process that runs and is the one its engine knows,
unless two threads started one each.

### 4.7 BlockMemoryProofs

For any sets of sessions, calls and conversations (of any length), any sink,
window, budget and overhead:

| Theorem | Says |
|---|---|
| `OnlyFaultsBlock` | `Spec => []LockOnlyFromFault` |
| `FitStaysSound` | `Spec => []FitIsSound` |
| `StoredStaysThere` | `Spec => []StoredIsThere` |

Assumed are `SessionAssumption`, `WindowAssumption` (the four numbers are natural)
and `TalkAssumption` (a conversation is a sequence of messages whose ids are their
places).  TLC checked `StoreInv` on the instance of `MCBlockMemory` before it was
proved.

*Argument, `OnlyFaultsBlock`.* What a session does to the others it does for a
reason (`Cause`): its lock, its read, its open transaction and what is pending are
there because one of its calls is adding, or because an add has failed since the
last commit.  That is inductive with `Inserted` (a call that has inserted part of
what it has to store has a transaction open, so there is a cause while it adds) and
`OneWriter`.  A step of one call changes nothing of the other sessions (`Elsewhere`)
and nothing that matters of the other calls (`OtherCalls`), so each lemma is about
one call.

*Argument, `FitStaysSound`.* `Tokens`, `Chosen` and `Walked` are recursive functions
over the places of a sequence.  That each exists, and what it returns, is shown by
contradiction at the least place where it would not (`LeastNat`, from the
library's well-founded induction): a function up to n - 1 is continued to n.  The walk
keeps `Split`: what is kept and what is evicted are each in order and are together
what was walked, the tokens counted are those of what is kept beside sink and
window, within the budget when anything is kept, and each evicted message had no
room beside the newer ones that are kept (`NoRoom`).  The ids being the places, two
sequences in order with the same messages are the same (`SameOrder`); so a result
that has the right messages in order is the choice that `FitIsSound` names.

*Argument, `StoredStaysThere`.* `StoreInv` adds to `IInv` that a call which adds has
the end of its messages before it (`Rest`) and, when the connection is its own, the
beginning of them at the end of what its session has pending (`Written`): an add
that failed may have left something before them, but no other thread of the session
gets anything in between, since sqlite3 lends the connection to one.  The commit
appends what is pending to the blocks, so that all its messages are there together
(`There`), and blocks are only ever appended.

### 4.8 NativeAuditProofs

For any number of threads, records and faults, and any window, threshold and hold-up
of a thread:

| Theorem | Says |
|---|---|
| `InductiveInvariant` | `AuditSpec => []IInv` |
| `TypeCorrect` | `AuditSpec => []AuditTypeOK` |
| `ChainIsSound` | `AuditSpec => []ChainSound` |
| `EscalationIsTrue` | `AuditSpec => []EscalationTrue` |
| `ChecksHold` | `AuditSpec => []ChecksAreTrue` |
| `LossIsShown` | `AuditSpec => []LossShows` |

Assumed are the module's `ThresholdAssumption`, `MainAssumption` and
`BoundAssumption`.  TLC checked every part of the invariant on the instance of
`MCEngines` before it was proved.

*Argument.* The invariant has three groups of parts.

* The log (`ControlInv`, `NumberInv`, `ReferenceInv`, `RecoveryInv`, `ThreadInv`):
  where the process is and whose record is on its way; records are numbered within
  their boot, so a hash names one of them; whatever a record or a thread refers to
  was written before; a recovery stands behind the boot that made it.
* The guards' queue (`PlaceInv`, `TimeInv`, `EscalationInv`).  A refusal is in one
  place, with its thread, in the queue or in an escalation, since the queue is
  pruned, extended and emptied under one lock; so none counts twice.  The clock is
  read outside that lock, and the queue is therefore not in the order of its times:
  pruning stops at the first that is young enough and may leave an older one behind
  it.  `Spread` is what remains true: none is older than one before it by more than
  a thread is held up, and one that is younger than all before it is not followed by
  any that is younger by more than the window.  It gives the window of
  `EscalationTrue`, widened by one hold-up and no more.
* The file (`WalkInv`, `NoLossInv`, `AccusedInv`, `SilenceInv`).  The settled file is
  the file without the record that is being written.  What the walk reaches in it is
  linked, whatever was cut, truncated or rotted; while no write was cut short
  unseen, it is the log.  The walk is reasoned about through what adding cells to a
  file does to it: a whole record extends it, a fragment stops it for ever, and
  behind a header without its body the next record is swallowed (`WithWritten`,
  `WithFragment`, `StaysBroken`).  `SilenceInv` follows a loss through one death: the
  walk ends early, until the next process truncates the file and has the recovery
  still to record, or has recorded it.

The steps of `AuditNext` are reduced to seven kinds of what they do to the log
(`LogStep`): an opening of a new file or of one that is there, a death, a record
begun or ended, rot, and nothing.  The parts about the log and the file are proved
kind by kind.

### 4.9 TailingProofs

For records of any number of units (two at least), any grace and any bounds:

| Theorem | Says |
|---|---|
| `TailingInvariant` | `TailSpec => []IInv` |
| `EmittedStaysWritten` | `TailSpec => []EmittedIsWritten`, the type invariant included |

Assumed are the module's `UnitsAssumption`, `GraceAssumption` and
`BoundAssumption`.  TLC checked the invariant on the instance of `MCReaders` before
it was proved.

*Argument.* `EmittedIsWritten` is about two readings of a file that changed in
between, and says nothing of where a record begins; the invariant does.

* `FileInv`: the file is made of the units of records, each in its place, and of no
  more units than were begun, so that it holds as many whole records as its length
  says and a torn one at most at its end (`AlignedFacts`).  A piece that begins at
  a record boundary is such a run again (`PieceAligned`): this is why a poll that
  reads from its cursor finds records and no splinters.
* `ChainInv`: the whole records are a chain, and a writer that is open goes on
  where it ends, also in the record it has begun; `Open` cuts the torn tail off and
  takes its head from the last whole record, so the next one links (`ChainGrows`).
* `ReaderInv`: the cursor stands behind as many records as were emitted, the times
  and flags agree.
* `HonestInv`: while nobody rolled the file back, what was emitted is a prefix of
  the file's records.  A crash and the cut of a resume take no whole record away,
  so it stays one, and the size a poll goes by is never below the cursor, although
  the file may be shorter than that size when it is read.  The file shrinks only
  when a second writer resumes it, so until then a poll finds no size below the
  last one and awaits no recovery.

The step of the poll itself (`DrainStep`) then says: what lies between the cursor and
the lesser of the size and the end begins at a record boundary, so its whole records
are those that follow the emitted ones (`ReadGoesOn`).

### 4.10 What is only model-checked

Of the reading side (`Verifiers`, `Reader`, `Verdict`, `Reading`, `Evidence`,
`Statements`) everything, and that the tailing reader never stays behind
(`TailIsTold`), which is liveness.  `Merkle` is recursive,
and so are its reference definitions: what they compute for every input is an
induction over data, which stays with TLC, as do liveness under fairness and
`ENABLED`.

## 5. Not modelled, and what is left

* `rotate()` by hand, writes that fail during a cut, and the checks within each
  record kind of the container writer.  A cut that fails half way with the
  process alive leaves the entry in memory; what follows from it is in the list
  of hazards.
* Loading a backend, the frame of a state blob and the llama.cpp binding
  (`native/llamacpp_backend.py`, `native/kvstore.py`): the backend is external, and
  what each sequence holds is all that `Scheduler` needs of it.
* Run B3's own list of checks (its reader and its consistency check are modelled),
  exports, the sections and layout of reports, the rules about a header's own
  bytes: evaluation of finished files, value by value.
* Embeddings, token counters, and the HTTP clients of the external engines.
* Writing to anchor stores, PKCS#11 tokens, the command line except `pala verify`,
  integrations: one process with one file, no state whose order matters.
* Byte layouts, cryptography, HTML and text, HTTP.

Much of the repository's Python lies outside the package: verifiers and
generators kept with the documents of an interoperability exercise, tests and
tools.  They have no state; the reference and two of the verifiers are in
`Verifiers`.

Worth doing next: a cut whose writes fail.

`PROJECT.json` lists the components with their status, every hazard with its
line and the properties that cover it, and which lines each definition models.
