---------------------------- MODULE NativeEngine ----------------------------
(***************************************************************************)
(* The native engine and its sessions (providers/native/__init__.py and    *)
(* session.py) over one backend.  All sessions share one scheduler; a      *)
(* chat_stream() builds another for itself, over the same backend.         *)
(*                                                                         *)
(* One thread.  A call that may fail half way (open_session) is several    *)
(* steps, op says which comes next; a stream is a generator, and between   *)
(* two tokens of one the caller may do anything else.  Who is careless     *)
(* does what the engine does not guard against:                            *)
(*   "overlap"  chats while sessions are open,                             *)
(*   "abandon"  drops a chat stream in the middle,                         *)
(*   "stale"    goes on with the stream of a session it has closed,        *)
(*   "reuse"    notes a tool call under an id that is pending.             *)
(***************************************************************************)
EXTENDS Integers, Sequences, FiniteSets, Functions

CONSTANTS Job,        \* slots: one per session, one per stateless request
          Session,
          None,
          Prompt,     \* the system prompts whose prefixes are shared
          PrefixLen,  \* tokens of such a prefix
          CallId,     \* tool_call_id
          MaxHops,    \* max_tool_hops
          Careless,   \* see above
          NSeq, MaxActive, MaxTokens, MaxInput, NCtx,   \* see Scheduler
          Saved,      \* bound: positions of the states that can be restored
          MaxCalls,   \* bound: tool calls noted
          MaxFaults   \* bound: prefixes that fail to be decoded

ASSUME CountsAssumption == /\ {NSeq, MaxTokens, MaxInput, NCtx} \subseteq Nat \ {0}
                           /\ MaxActive \in 1..NSeq
                           /\ {MaxHops, MaxFaults} \subseteq Nat
ASSUME NoneAssumption == None \notin Job /\ None \notin Nat
ASSUME SessionAssumption == Session \subseteq Job
ASSUME CarelessAssumption == Careless \subseteq {"overlap", "abandon", "stale", "reuse"}
ASSUME PositionAssumption == PrefixLen \in 1..NCtx /\ Saved \subseteq 1..NCtx

VARIABLES free, queue, slots, slot, holders, consumers, kv, shared,
          chatFree, chatQueue, chatSlots,  \* the scheduler of a chat_stream
          chat,      \* whose stream that is
          op, who,   \* what the thread is in the middle of, and for whom
          prompt,    \* system prompt of the session that is being opened
          target,    \* the holder that is being warmed
          registry,  \* registry[k]: _holders, the holder of a prefix
          status,    \* status[c]: a session's life
          seqOf,     \* seqOf[c]: _seq_id
          streams,   \* sessions with a stream that is suspended
          stray,     \* history: stray[c]: whose tokens streams of c gave out,
                     \* c's own apart
          hops,      \* hops[c]: _tool_hops
          pending,   \* pending[c]: _pending_tool_calls, as numbers of calls
          calls,     \* history: TOOL_CALL records, and results each one got
          faults

schedVars == <<free, queue, slots, slot, holders, consumers, kv, shared>>
chatVars == <<chatFree, chatQueue, chatSlots, chat>>
opVars == <<op, who, prompt, target>>
openVars == <<registry, status, seqOf>>
streamVars == <<streams, stray>>
toolVars == <<hops, pending, calls>>
vars == <<schedVars, chatVars, opVars, openVars, streamVars, toolVars, faults>>

Request == Job \ Session
SeqId == 0..(NSeq - 1)
NoConsumers == [s \in SeqId |-> {}]

S == INSTANCE Scheduler
C == INSTANCE Scheduler WITH MaxActive <- 1, free <- chatFree, queue <- chatQueue,
                             slots <- chatSlots, holders <- {},
                             consumers <- [s \in SeqId |-> {}]

AllFree == [i \in 1..NSeq |-> i - 1]
NoSlots == [s \in SeqId |-> None]

Init == /\ S!Init
        /\ chatFree = AllFree /\ chatQueue = <<>> /\ chatSlots = NoSlots
        /\ chat = None
        /\ op = "idle" /\ who = {} /\ prompt = None /\ target = None
        /\ registry = [k \in Prompt |-> None]
        /\ status = [c \in Session |-> "new"]
        /\ seqOf = [c \in Session |-> None]
        /\ streams = {}
        /\ stray = [c \in Session |-> {}]
        /\ hops = [c \in Session |-> 0]
        /\ pending = [c \in Session |-> [i \in CallId |-> None]]
        /\ calls = <<>>
        /\ faults = 0

Idle == op = "idle"
Return == op' = "idle" /\ who' = {} /\ prompt' = None /\ target' = None
Stopping == SUBSET {j \in Job : slot[j].pending > 0}

-----------------------------------------------------------------------------
(* open_session: the holder, then the slot.                                 *)

OpenSession(c, k) ==
    /\ Idle /\ status[c] = "new"
    /\ "overlap" \in Careless \/ chat = None
    /\ status' = [status EXCEPT ![c] = "opening"]
    /\ prompt' = k
    /\ op' = IF k # None /\ registry[k] = None THEN "reserve" ELSE "slot"
    /\ who' = {c}
    /\ UNCHANGED <<schedVars, chatVars, target, registry, seqOf, streamVars,
                   toolVars, faults>>

\* Seeded fault: the holder is known before it is warm.
Reserved_Known(k) == [registry EXCEPT ![k] = Head(free)]

Reserved(k) == registry

\* _holder_for: a new prefix takes a sequence ...
ReserveHolder ==
    /\ op = "reserve"
    /\ S!Reserve
    /\ target' = Head(free)
    /\ registry' = Reserved(prompt)
    /\ op' = "warm"
    /\ UNCHANGED <<chatVars, who, prompt, status, seqOf, streamVars, toolVars, faults>>

\* Seeded fault: the holder is not remembered.
Remembered_Lost(k) == registry

Remembered(k) == [registry EXCEPT ![k] = target]

\* ... and is decoded into it; only then is it known.
WarmHolder ==
    \E c \in who :
        /\ op = "warm"
        /\ S!Warm(target, PrefixLen)
        /\ registry' = Remembered(prompt)
        /\ op' = "slot" /\ target' = None
        /\ UNCHANGED <<chatVars, who, prompt, status, seqOf, streamVars,
                       toolVars, faults>>

\* The session takes its slot, and with it a sequence ...
TakeSlot ==
    \E c \in who :
        /\ op = "slot"
        /\ S!OpenSlot(c)
        /\ seqOf' = [seqOf EXCEPT ![c] = Head(free)]
        /\ IF prompt = None
           THEN Return /\ status' = [status EXCEPT ![c] = "open"]
           ELSE op' = "copy" /\ UNCHANGED <<who, prompt, target, status>>
        /\ UNCHANGED <<chatVars, registry, streamVars, toolVars,
                       faults>>

\* ... and with a shared prefix is seeded from the holder.
CopyHolder ==
    \E c \in who :
        /\ op = "copy"
        /\ S!CopyPrefix(registry[prompt], seqOf[c], PrefixLen)
        /\ Return
        /\ status' = [status EXCEPT ![c] = "open"]
        /\ UNCHANGED <<chatVars, registry, seqOf, streamVars,
                       toolVars, faults>>

\* No sequence for the holder, none for the slot, or a prefix that could not
\* be decoded: open_session raises, and what was done stays done.
OpenFails ==
    \E c \in who :
        /\ \/ op = "reserve" /\ free = <<>> /\ UNCHANGED faults
           \/ op = "slot" /\ ~S!SlotFree /\ UNCHANGED faults
           \/ op = "warm" /\ faults < MaxFaults /\ faults' = faults + 1
        /\ Return
        /\ status' = [status EXCEPT ![c] = "failed"]
        /\ UNCHANGED <<schedVars, chatVars, registry, seqOf,
                       streamVars, toolVars>>

-----------------------------------------------------------------------------
(* Turns.                                                                   *)

\* What a turn may add to the KV: its input, and all but the last of the tokens
\* it generates.
Fits(c, n) == slot[c].past + n + MaxTokens - 1 <= NCtx

\* A turn's input goes into the slot, and its stream begins.
FeedTurn(c, n) ==
    /\ S!Feed({c}, [j \in Job |-> n])
    /\ streams' = streams \cup {c}
    /\ op' = "turn" /\ who' = {c} /\ UNCHANGED <<prompt, target, stray>>

Send(c, n) ==
    /\ Idle /\ status[c] = "open" /\ Fits(c, n)
    /\ FeedTurn(c, n)
    /\ hops' = [hops EXCEPT ![c] = 0]
    /\ UNCHANGED <<chatVars, openVars, pending, calls, faults>>

\* The caller asks a stream for its next token, and the thread runs run_turn
\* until there is one.
Running(c) == (op = "turn" /\ who = {c}) \/ (Idle /\ c \in streams)
TurnDone(c) == slots[seqOf[c]] = c /\ slot[c].done

\* Seeded fault: the stream gives out every token of the step.
Mine_Any(c) == S!Active(slots)

\* The sequences of a step whose tokens the stream of c gives out.
Mine(c) == S!Active(slots) \cap {seqOf[c]}

\* One step of the shared loop: all sessions advance, and the stream gives out
\* the token of its sequence; without one it goes round again.
TurnStep(c) ==
    /\ Running(c) /\ ~TurnDone(c)
    /\ \E stop \in Stopping : S!Step(stop)
    /\ stray' = [stray EXCEPT ![c] = @ \cup ({slots[s] : s \in Mine(c)} \ {c})]
    /\ IF Mine(c) # {} THEN Return
       ELSE op' = "turn" /\ who' = {c} /\ UNCHANGED <<prompt, target>>
    /\ UNCHANGED <<chatVars, openVars, streams, toolVars, faults>>

\* The stream ends with the turn, or decode() raises in it; the caller may as
\* well drop it.
TurnEnds(c) ==
    /\ Running(c)
    /\ streams' = streams \ {c}
    /\ Return
    /\ UNCHANGED <<schedVars, chatVars, openVars, stray, toolVars, faults>>

\* run_sessions: feed several sessions, then one loop for all of them.
RunSessions(B, n) ==
    /\ Idle
    /\ \A c \in B : status[c] = "open" /\ Fits(c, n)
    /\ S!Feed(B, [j \in Job |-> n])
    /\ op' = "batch" /\ who' = B
    /\ UNCHANGED <<chatVars, prompt, target, openVars, streams, stray, toolVars, faults>>

Unfinished == \E c \in who : slots[seqOf[c]] = c /\ ~slot[c].done

BatchStep ==
    /\ op = "batch" /\ Unfinished
    /\ \E stop \in Stopping : S!Step(stop)
    /\ IF S!Active(slots) = {} THEN Return ELSE UNCHANGED opVars
    /\ UNCHANGED <<chatVars, openVars, streamVars, toolVars, faults>>

\* All have finished, or decode() raises.
BatchOver ==
    /\ op = "batch"
    /\ Return
    /\ UNCHANGED <<schedVars, chatVars, openVars, streamVars, toolVars, faults>>

BatchEnds == BatchOver /\ ~Unfinished
BatchFails == BatchOver /\ Unfinished

-----------------------------------------------------------------------------
(* The tool loop.                                                           *)

\* A session that its owner has not closed; "orphan" if the engine has.
Owned(c) == status[c] \in {"open", "orphan"}

NoteCall(c, i) ==
    /\ Idle /\ Owned(c)
    /\ Len(calls) < MaxCalls
    /\ "reuse" \in Careless \/ pending[c][i] = None
    /\ calls' = Append(calls, [by |-> c, results |-> 0])
    /\ pending' = [pending EXCEPT ![c][i] = Len(calls) + 1]
    /\ UNCHANGED <<schedVars, chatVars, opVars, openVars, streamVars, hops, faults>>

\* TOOL_RESULT records for calls that were noted.
Ended(refs) == [k \in 1..Len(calls) |->
                  IF k \in refs THEN [calls[k] EXCEPT !.results = @ + 1]
                  ELSE calls[k]]

Popped(c, i) == [pending EXCEPT ![c][i] = None]

\* fail_tool_call: without such a call it does nothing.
FailCall(c, i) ==
    /\ Idle /\ Owned(c) /\ pending[c][i] # None
    /\ calls' = Ended({pending[c][i]})
    /\ pending' = Popped(c, i)
    /\ UNCHANGED <<schedVars, chatVars, opVars, openVars, streamVars, hops, faults>>

\* append_tool_result: recorded, then fed, and the turn goes on; without its
\* slot the session has recorded the result when feed() raises.  Beyond the
\* hops of one turn it is refused before anything happens.
AppendResult(c, i, n) ==
    /\ Idle /\ Owned(c) /\ hops[c] < MaxHops
    /\ hops' = [hops EXCEPT ![c] = @ + 1]
    /\ calls' = Ended({pending[c][i]})
    /\ pending' = Popped(c, i)
    /\ \/ status[c] = "open" /\ Fits(c, n) /\ FeedTurn(c, n)
       \/ status[c] = "orphan" /\ UNCHANGED <<schedVars, opVars, streamVars>>
    /\ UNCHANGED <<chatVars, openVars, faults>>

-----------------------------------------------------------------------------
(* save_state and load_state, and the end of a session and of the engine.   *)

\* A state that was saved at some position is restored: from a session of
\* this engine or from a file.
LoadState(c, n) ==
    /\ Idle /\ status[c] = "open"
    /\ S!LoadState(seqOf[c], n)
    /\ UNCHANGED <<chatVars, opVars, openVars, streamVars, toolVars, faults>>

\* Seeded fault: calls that are pending are forgotten without a record.
Cancelled_None(c) == {}

Cancelled(c) == {pending[c][i] : i \in CallId}

\* The slot first (there is none if the engine took it away), then the fate of
\* every pending call, then the end of the span.
CloseSession(c) ==
    /\ Idle
    /\ \/ status[c] = "open" /\ S!CloseSlot(seqOf[c])
       \/ status[c] = "orphan" /\ UNCHANGED schedVars
    /\ status' = [status EXCEPT ![c] = "closed"]
    /\ calls' = Ended(Cancelled(c))
    /\ pending' = [pending EXCEPT ![c] = [i \in CallId |-> None]]
    /\ hops' = [hops EXCEPT ![c] = 0]
    /\ IF "stale" \in Careless /\ status[c] = "open" /\ ~TurnDone(c)
       THEN UNCHANGED <<seqOf, streams>>
       ELSE /\ seqOf' = [seqOf EXCEPT ![c] = None]
            /\ streams' = streams \ {c}
    /\ UNCHANGED <<chatVars, opVars, registry, stray, faults>>

\* close(): the slots, then the holders, then the backend.  The sessions'
\* owners still have to close them.
EngineClose ==
    /\ Idle /\ chat = None
    /\ \A k \in Prompt : registry[k] # None => consumers[registry[k]] \subseteq S!Live
    /\ free' = AllFree /\ queue' = <<>> /\ slots' = NoSlots
    /\ slot' = [j \in Job |-> S!Blank]
    /\ holders' = {} /\ consumers' = NoConsumers
    /\ kv' = [s \in SeqId |-> <<>>] /\ shared' = NoSlots
    /\ registry' = [k \in Prompt |-> None]
    /\ status' = [c \in Session |-> IF status[c] = "open" THEN "orphan" ELSE status[c]]
    /\ streams' = {}
    /\ seqOf' = [c \in Session |-> None]
    /\ UNCHANGED <<chatVars, opVars, stray, toolVars, faults>>

-----------------------------------------------------------------------------
(* chat_stream: a scheduler of its own, over the same backend.              *)

Alone == S!Live = {} /\ holders = {} /\ Idle

ChatStart(r, n) ==
    /\ Idle /\ chat = None
    /\ "overlap" \in Careless \/ Alone
    /\ n + MaxTokens - 1 <= NCtx
    /\ C!Submit(r, n)
    /\ chat' = r
    /\ UNCHANGED <<free, queue, slots, holders, consumers, chatFree, chatSlots,
                   opVars, openVars, streamVars, toolVars, faults>>

ChatRunning == chatQueue # <<>> \/ C!Live # {}

\* run(): a step, and perhaps a token.
ChatStep ==
    /\ Idle /\ ChatRunning
    /\ \E stop \in Stopping : C!Step(stop)
    /\ UNCHANGED <<free, queue, slots, holders, consumers, chat, opVars, openVars,
                   streamVars, toolVars, faults>>

\* The stream is over, or its caller drops it or decode() raises in it: its
\* scheduler is gone.  Dropped in the middle, what it left in the KV stays.
ChatOver ==
    /\ chat # None
    /\ slot' = [slot EXCEPT ![chat] = S!Blank]
    /\ chat' = None
    /\ chatFree' = AllFree /\ chatQueue' = <<>> /\ chatSlots' = NoSlots
    /\ UNCHANGED <<free, queue, slots, holders, consumers, kv, shared, opVars,
                   openVars, streamVars, toolVars, faults>>

ChatEnd == ChatOver /\ ~ChatRunning
ChatDropped == /\ ChatOver /\ ChatRunning
               /\ "abandon" \in Careless \/ C!Live = {}

-----------------------------------------------------------------------------
Next == \/ \E c \in Session :
              \/ \E k \in Prompt \cup {None} : OpenSession(c, k)
              \/ \E n \in 1..MaxInput : Send(c, n)
              \/ TurnStep(c) \/ TurnEnds(c)
              \/ \E i \in CallId :
                    \/ NoteCall(c, i) \/ FailCall(c, i)
                    \/ \E n \in 1..MaxInput : AppendResult(c, i, n)
              \/ \E n \in Saved : LoadState(c, n)
              \/ CloseSession(c)
        \/ ReserveHolder \/ WarmHolder \/ TakeSlot \/ CopyHolder \/ OpenFails
        \/ \E B \in (SUBSET Session) \ {{}} : \E n \in 1..MaxInput : RunSessions(B, n)
        \/ BatchStep \/ BatchEnds \/ BatchFails
        \/ EngineClose
        \/ \E r \in Request : \E n \in 1..MaxInput : ChatStart(r, n)
        \/ ChatStep \/ ChatEnd \/ ChatDropped

Spec == Init /\ [][Next]_vars

\* The loops are those of one call: run_batch and run go on until they are done.
Loop == BatchStep \/ BatchEnds \/ ChatStep \/ ChatEnd

FairSpec == Spec /\ WF_vars(Loop)

-----------------------------------------------------------------------------
TypeOK == /\ S!TypeOK
          /\ chatFree \in Seq(SeqId) /\ chatQueue \in Seq(Job)
          /\ chatSlots \in [SeqId -> Job \cup {None}]
          /\ chat \in Request \cup {None}
          /\ op \in {"idle", "reserve", "warm", "slot", "copy", "turn", "batch"}
          /\ who \subseteq Session
          /\ prompt \in Prompt \cup {None}
          /\ target \in SeqId \cup {None}
          /\ registry \in [Prompt -> SeqId \cup {None}]
          /\ status \in [Session -> {"new", "opening", "open", "failed",
                                     "orphan", "closed"}]
          /\ seqOf \in [Session -> SeqId \cup {None}]
          /\ streams \subseteq Session
          /\ stray \in [Session -> SUBSET (Job \cup {None})]
          /\ hops \in [Session -> 0..MaxHops]
          /\ pending \in [Session -> [CallId -> Nat \cup {None}]]
          /\ calls \in Seq([by : Session, results : Nat])
          /\ faults \in 0..MaxFaults

\* One owner per sequence, and a position that is what its KV holds, whatever
\* the order in which sessions, turns, tool results, a chat stream and the two
\* close() call the schedulers: for callers who chat only while no session is
\* open and no holder is kept (NeverContends says what the others meet).  Holders
\* know their consumers, and a sequence in nobody's hands is clean, after a chat
\* stream as well.
SequencesSound == /\ TypeOK
                  /\ S!OneOwner /\ S!PositionIsKV /\ S!HolderInv
                  /\ chat = None => S!CleanInv

\* "Stateless work uses its own scheduler so it never contends with session
\* slots" (chat_stream's docstring): whoever chats, and when, the sequence of an
\* open session holds that session's tokens and no others.
NeverContends ==
    \A c \in Session : status[c] = "open" => kv[seqOf[c]] = S!Cells(0, slot[c].past)

\* The engine's close(), which releases the slots and then the holders, is
\* never refused by the guard on a holder with consumers, and a holder in the
\* registry is one in the scheduler, and warm.  A new prefix costs one
\* sequence, however many sessions share it: beyond the known ones only those
\* are lost whose decode failed half way.
HoldersAccounted ==
    /\ \A h \in holders : consumers[h] \subseteq S!Live
    /\ \A k \in Prompt : registry[k] # None =>
          registry[k] \in holders /\ Len(kv[registry[k]]) = PrefixLen
    /\ Cardinality(holders) <= Cardinality({k \in Prompt : registry[k] # None})
                               + faults + (IF op = "warm" THEN 1 ELSE 0)

\* "The chain never shows a call without a fate": each tool call that was
\* noted gets one result and no more, before the end of its session's span; as
\* long as nobody notes one under an id that is pending, which note_tool_call
\* overwrites.
EveryCallEndsOnce ==
    \A k \in 1..Len(calls) :
        /\ calls[k].results <= 1
        /\ status[calls[k].by] = "closed" => calls[k].results = 1

\* run_turn "yields that session's tokens": a stream gives out no token that
\* was sampled for someone else.  A session's slot is its own from
\* open_session to its close, and no one else's, so that what the session does
\* with _seq_id reaches its own KV.
OwnTokens == \A c \in Session :
                 /\ stray[c] = {}
                 /\ status[c] = "open" => slots[seqOf[c]] = c
                 /\ status[c] \in {"failed", "orphan", "closed"} =>
                      \A s \in SeqId : slots[s] # c

\* A batch and a chat come to their end: every pass of their loops feeds back
\* what it sampled until a stop token or the cap, so again and again the thread
\* is in neither loop.
LoopsEnd == []<>(op # "batch" /\ chat = None)
=============================================================================
