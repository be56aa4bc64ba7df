---------------------------- MODULE ServeProofs ----------------------------
(***************************************************************************)
(* Proofs about Serve, for any number of threads, ids, clients and spans   *)
(* and any size of the two memories.  ServeInv is inductive; each of its parts *)
(* has a lemma of its own, which says on which of the others it rests:     *)
(* where a thread may be (StepInv, PhaseInv, IngestLockInv), that a call is in   *)
(* one place (HeldInv, OneKeyInv), that what is held has no result         *)
(* (OpenInv), and what follows for the chain.  The first three go action   *)
(* by action.  The others rest on Effects, which says of every step of a   *)
(* thread which of six things it does to the calls.                        *)
(***************************************************************************)
EXTENDS Serve, FiniteSetTheorems, SequenceTheorems, TLAPS

\* The names of the steps, spelled out.
LEMMA Names ==
    /\ {"idle", "chat", "loop", "calls", "chat_call", "event_call", "hook_call",
        "hook_post_call", "span_call", "chat_result", "event_result", "hook_result",
        "span_result", "chat_bind", "event_bind", "hook_bind", "hook_post_bind",
        "put_back", "bad_digest", "hook_pop", "batch"} = Steps
    /\ NoRef \in Ref /\ Idle = [at |-> "idle", key |-> None, ref |-> NoRef]
    /\ {"wire", "client", "none"} = Source
BY DEF Steps, AtRest, WritesCall, WritesResult, Holding, NoRef, Ref, Source, Idle

\* A thread moves, and no other does.
LEMMA AtType ==
    ASSUME ServeTypeOK, NEW t \in Thread, NEW at \in Steps,
           NEW k \in Key \cup Span \cup {None}, NEW ref \in Ref, Enter(t, at, k, ref)
    PROVE  /\ req' \in [Thread -> [at : Steps, key : Key \cup Span \cup {None}, ref : Ref]]
           /\ req'[t] = [at |-> at, key |-> k, ref |-> ref]
           /\ req'[t].at = at /\ req'[t].key = k /\ req'[t].ref = ref
           /\ \A u \in Thread \ {t} : req'[u] = req[u]
BY DEF ServeTypeOK, Enter

\* It comes to rest, with empty hands.
LEMMA GotoRest ==
    ASSUME ServeTypeOK, NEW t \in Thread, NEW at \in AtRest, Goto(t, at)
    PROVE  /\ req'[t].at = at /\ req'[t].key = None /\ req'[t].ref = NoRef
           /\ \A u \in Thread \ {t} : req'[u] = req[u]
<1>1. at \in Steps /\ NoRef \in Ref /\ Enter(t, at, None, NoRef)
  BY Names DEF Goto, Steps
<1> QED BY <1>1, AtType

\* It takes up a key, with empty hands.
LEMMA AtEmpty ==
    ASSUME ServeTypeOK, NEW t \in Thread, NEW at \in Steps,
           NEW k \in Key \cup Span \cup {None}, Enter(t, at, k, NoRef)
    PROVE  /\ req'[t].at = at /\ req'[t].key = k /\ req'[t].ref = NoRef
           /\ \A u \in Thread \ {t} : req'[u] = req[u]
<1>1. NoRef \in Ref
  BY Names
<1> QED BY <1>1, AtType

\* The dictionary without an entry, and with one more.
LEMMA WithoutType ==
    ASSUME ServeTypeOK, NEW k
    PROVE  /\ DOMAIN Without(k) = DOMAIN pending \ {k}
           /\ Without(k) \in [DOMAIN Without(k) -> Ref]
           /\ \A x \in DOMAIN Without(k) : Without(k)[x] = pending[x]
BY DEF ServeTypeOK, Without

\* The dictionary with an entry for k.
LEMMA WithType ==
    ASSUME ServeTypeOK, NEW k \in Key, NEW ref \in Ref
    PROVE  /\ DOMAIN With(k, ref) = DOMAIN pending \cup {k}
           /\ DOMAIN pending \subseteq DOMAIN With(k, ref) /\ k \in DOMAIN With(k, ref)
           /\ With(k, ref) \in [DOMAIN With(k, ref) -> Ref]
           /\ DOMAIN With(k, ref) \subseteq Key
           /\ With(k, ref)[k] = ref
           /\ \A x \in DOMAIN pending \ {k} : With(k, ref)[x] = pending[x]
BY DEF ServeTypeOK, With

\* A bounded memory stays within its bound and holds what it held or is given.
LEMMA RememberedType ==
    ASSUME NEW S, NEW m \in Seq(S), NEW x \in S, NEW max \in Nat, Len(m) <= max
    PROVE  /\ Remembered(m, x, max) \in Seq(S)
           /\ Len(Remembered(m, x, max)) <= max
           /\ ToSet(Remembered(m, x, max)) \subseteq ToSet(m) \cup {x}
<1>1. /\ Append(m, x) \in Seq(S) /\ Len(Append(m, x)) = Len(m) + 1
      /\ Append(m, x) # <<>>
      /\ \A i \in 1..Len(m) : Append(m, x)[i] = m[i]
      /\ Append(m, x)[Len(m) + 1] = x
  BY AppendProperties
<1>2. ToSet(Append(m, x)) = ToSet(m) \cup {x}
  BY <1>1 DEF ToSet
<1>3. CASE Len(m) < max
  BY <1>1, <1>2, <1>3 DEF Remembered
<1>4. CASE ~(Len(m) < max)
  <2>1. /\ Tail(Append(m, x)) \in Seq(S) /\ Len(Tail(Append(m, x))) = Len(m)
        /\ \A i \in 1..Len(m) : Tail(Append(m, x))[i] = Append(m, x)[i + 1]
    BY <1>1, HeadTailProperties
  <2>2. ToSet(Tail(Append(m, x))) \subseteq ToSet(Append(m, x))
    BY <1>1, <2>1 DEF ToSet
  <2> QED BY <1>2, <1>4, <2>1, <2>2 DEF Remembered
<1> QED BY <1>3, <1>4

\* The chain with one more record.
LEMMA AppendRecord ==
    ASSUME ServeTypeOK, NEW r \in Record, chain' = Append(chain, r)
    PROVE  /\ chain' \in Seq(Record)
           /\ DOMAIN chain = 1..Len(chain) /\ Len(chain) \in Nat
           /\ DOMAIN chain' = 1..(Len(chain) + 1) /\ Len(chain') = Len(chain) + 1
           /\ \A i \in DOMAIN chain : chain'[i] = chain[i]
           /\ chain'[Len(chain) + 1] = r
BY AppendProperties DEF ServeTypeOK

\* A true reference is to a position of the chain.
LEMMA TrueRef ==
    ASSUME ServeTypeOK, NEW k, NEW ref, IsTrue(k, ref)
    PROVE  ref # NoRef /\ ref.call \in DOMAIN chain /\ ref.call \in Nat /\ ref.call > 0
BY DEF ServeTypeOK, IsTrue, Called, NoRef

\* Nothing is left to cancel while a request is under way.
LEMMA Busy ==
    ASSUME PhaseInv, NEW t \in Thread, req[t].at # "idle"
    PROVE  Running /\ todo = {}
BY DEF PhaseInv, Running, Cancelling, Idle

\* A result of a key and a reference is a record.
LEMMA ResultIsRecord ==
    ASSUME ServeTypeOK, NEW k \in Key \cup Span, NEW ref \in Ref
    PROVE  ResultRecord(k, ref) \in Record
BY DEF ResultRecord, Record, Ref

\* Every step keeps the types.
LEMMA TypeStep == ServeTypeOK /\ StepInv /\ PhaseInv /\ [ServeNext]_serveVars => ServeTypeOK'
<1> SUFFICES ASSUME ServeTypeOK /\ StepInv /\ PhaseInv, [ServeNext]_serveVars PROVE ServeTypeOK'
  OBVIOUS
<1>0. CASE UNCHANGED serveVars
  BY <1>0 DEF serveVars, state, ServeTypeOK, StepInv, Fits
<1>1. ASSUME NEW t \in Thread, ChatRequest(t) PROVE ServeTypeOK'
  <2>1. req' \in [Thread -> [at : Steps, key : Key \cup Span \cup {None}, ref : Ref]]
    BY <1>1, Names, AtType DEF ChatRequest, Begin, Goto, Key
  <2> QED BY <1>1, <2>1, ServeAssumption DEF ChatRequest, Begin, state, ServeTypeOK, StepInv
<1>2. ASSUME NEW t \in Thread, NEW k \in WireId \cup EventId, ToolMessage(t, k) PROVE ServeTypeOK'
  <2>1. todo = {}
    BY <1>2, Busy DEF ToolMessage
  <2>2. req' \in [Thread -> [at : Steps, key : Key \cup Span \cup {None}, ref : Ref]]
    BY <1>2, Names, AtType DEF ToolMessage, Goto, Key, ServeTypeOK
  <2>3. DOMAIN pending' \subseteq Key /\ pending' \in [DOMAIN pending' -> Ref]
    BY <1>2, WithoutType DEF ToolMessage, ServeTypeOK
  <2> QED BY <1>2, <2>1, <2>2, <2>3 DEF ToolMessage, ServeTypeOK
<1>3. ASSUME NEW t \in Thread, ChatOver(t) PROVE ServeTypeOK'
  <2>1. req' \in [Thread -> [at : Steps, key : Key \cup Span \cup {None}, ref : Ref]]
    BY <1>3, Names, AtType DEF ChatOver, Goto, Key
  <2> QED BY <1>3, <2>1, ServeAssumption DEF ChatOver, state, ServeTypeOK, StepInv
<1>4. ASSUME NEW t \in Thread, ReplyHasCall(t) PROVE ServeTypeOK'
  <2>1. req' \in [Thread -> [at : Steps, key : Key \cup Span \cup {None}, ref : Ref]]
    BY <1>4, Names, AtType DEF ReplyHasCall, Key
  <2> QED BY <1>4, <2>1, ServeAssumption DEF ReplyHasCall, Item, state, ServeTypeOK, StepInv
<1>5. ASSUME NEW t \in Thread, NoCall(t) PROVE ServeTypeOK'
  <2>1. req' \in [Thread -> [at : Steps, key : Key \cup Span \cup {None}, ref : Ref]]
    BY <1>5, Names, AtType DEF NoCall, Goto
  <2>2. OfferedRecord \in Record
    BY Names DEF OfferedRecord, Record
  <2>3. chain' \in Seq(Record)
    BY <1>5, <2>2, AppendRecord DEF NoCall
  <2> QED BY <1>5, <2>1, <2>3 DEF NoCall, ServeTypeOK
<1>6. ASSUME NEW t \in Thread, NEW k \in EventId, EventCall(t, k) PROVE ServeTypeOK'
  <2>1. req' \in [Thread -> [at : Steps, key : Key \cup Span \cup {None}, ref : Ref]]
    BY <1>6, Names, AtType DEF EventCall, Key
  <2> QED BY <1>6, <2>1, ServeAssumption DEF EventCall, Begin, Item, state, ServeTypeOK, StepInv
<1>7. ASSUME NEW t \in Thread, NEW k \in WireId \cup EventId, EventResult(t, k) PROVE ServeTypeOK'
  <2>1. todo = {}
    BY <1>7 DEF EventResult, Begin, PhaseInv, Cancelling
  <2>2. req' \in [Thread -> [at : Steps, key : Key \cup Span \cup {None}, ref : Ref]]
    BY <1>7, Names, AtType, ServeAssumption DEF EventResult, Key, ServeTypeOK
  <2>3. DOMAIN pending' \subseteq Key /\ pending' \in [DOMAIN pending' -> Ref]
    BY <1>7, WithoutType DEF EventResult, ServeTypeOK
  <2> QED BY <1>7, <2>1, <2>2, <2>3 DEF EventResult, ServeTypeOK
<1>8. ASSUME NEW t \in Thread, EventRejected(t) PROVE ServeTypeOK'
  <2>1. req' \in [Thread -> [at : Steps, key : Key \cup Span \cup {None}, ref : Ref]]
    BY <1>8, Names, AtType DEF EventRejected, Goto
  <2>2. req[t].key \in Key /\ req[t].ref \in Ref
    BY <1>8 DEF EventRejected, StepInv, Fits, ServeTypeOK, Key
  <2> DEFINE p == With(req[t].key, req[t].ref)
  <2>a. DOMAIN p \subseteq Key /\ p \in [DOMAIN p -> Ref] /\ DOMAIN pending \subseteq DOMAIN p
    BY <2>2, WithType
  <2>b. pending' = p \/ pending' = pending
    BY <1>8 DEF EventRejected
  <2> HIDE DEF p
  <2>3. /\ DOMAIN pending' \subseteq Key /\ pending' \in [DOMAIN pending' -> Ref]
        /\ DOMAIN pending \subseteq DOMAIN pending'
    BY <2>a, <2>b DEF ServeTypeOK
  <2>4. spoiled' \subseteq Nat
    BY <1>8, <2>2 DEF EventRejected, ServeTypeOK, Ref
  <2> QED BY <1>8, <2>1, <2>3, <2>4 DEF EventRejected, ServeTypeOK
<1>9. ASSUME NEW t \in Thread, NEW k \in HookKey, NEW e \in {"Pre", "Post"}, Hook(t, k, e) PROVE ServeTypeOK'
  <2>1. req' \in [Thread -> [at : Steps, key : Key \cup Span \cup {None}, ref : Ref]]
    BY <1>9, Names, AtType DEF Hook, Key
  <2> QED BY <1>9, <2>1, ServeAssumption DEF Hook, Begin, Item, ServeTypeOK, StepInv
<1>10. ASSUME NEW t \in Thread, HookPop(t) PROVE ServeTypeOK'
  <2>1. todo = {}
    BY <1>10, Busy DEF HookPop
  <2>2. req' \in [Thread -> [at : Steps, key : Key \cup Span \cup {None}, ref : Ref]]
    BY <1>10, Names, AtType DEF HookPop, Goto, ServeTypeOK, Key
  <2>3. DOMAIN pending' \subseteq Key /\ pending' \in [DOMAIN pending' -> Ref]
    BY <1>10, WithoutType DEF HookPop, ServeTypeOK
  <2> QED BY <1>10, <2>1, <2>2, <2>3 DEF HookPop, ServeTypeOK
<1>11. ASSUME NEW t \in Thread, TraceBatch(t) PROVE ServeTypeOK'
  <2>1. req' \in [Thread -> [at : Steps, key : Key \cup Span \cup {None}, ref : Ref]]
    BY <1>11, Names, AtType DEF TraceBatch, Goto, Key
  <2> QED BY <1>11, <2>1, ServeAssumption DEF TraceBatch, Begin, ServeTypeOK, StepInv
<1>12. ASSUME NEW t \in Thread, NEW s \in Span, ToolSpan(t, s) PROVE ServeTypeOK'
  <2>1. req' \in [Thread -> [at : Steps, key : Key \cup Span \cup {None}, ref : Ref]]
    BY <1>12, Names, AtType DEF ToolSpan, Key
  <2> QED BY <1>12, <2>1, ServeAssumption DEF ToolSpan, Item, state, ServeTypeOK, StepInv
<1>13. ASSUME NEW t \in Thread, BatchOver(t) PROVE ServeTypeOK'
  <2>1. req' \in [Thread -> [at : Steps, key : Key \cup Span \cup {None}, ref : Ref]]
    BY <1>13, Names, AtType DEF BatchOver, Goto, Key
  <2> QED BY <1>13, <2>1, ServeAssumption DEF BatchOver, ServeTypeOK, StepInv
<1>14. ASSUME NEW t \in Thread, WriteCall(t) PROVE ServeTypeOK'
  <2> DEFINE src == IF req[t].at = "chat_call" THEN "wire" ELSE "client"
             r == CallRecord(req[t].key, src)
  <2>1. req[t].key \in Key \cup Span \cup {None} /\ src \in Source
    BY Names DEF ServeTypeOK
  <2>2. r \in Record
    BY <2>1 DEF Record, CallRecord
  <2>3. chain' = Append(chain, r)
    BY <1>14 DEF WriteCall
  <2>4. chain' \in Seq(Record) /\ Len(chain') \in Nat
    BY <2>2, <2>3, AppendRecord
  <2>5. RefOf(chain', src) \in Ref
    BY <2>1, <2>4 DEF RefOf, Ref
  <2>6. \E at \in Steps : Enter(t, at, req[t].key, RefOf(chain', src))
    BY <1>14, Names DEF WriteCall
  <2>7. req' \in [Thread -> [at : Steps, key : Key \cup Span \cup {None}, ref : Ref]]
    BY <2>1, <2>5, <2>6, AtType
  <2> QED BY <1>14, <2>4, <2>7 DEF WriteCall, ServeTypeOK
<1>15. ASSUME NEW t \in Thread, Bind(t) PROVE ServeTypeOK'
  <2>1. req[t].key \in Key /\ req[t].ref \in Ref
    BY <1>15 DEF Bind, StepInv, Fits, ServeTypeOK, Key, InHook
  <2>2. req' \in [Thread -> [at : Steps, key : Key \cup Span \cup {None}, ref : Ref]]
    BY <1>15, <2>1, Names, AtType DEF Bind, Goto
  <2> DEFINE p == With(req[t].key, req[t].ref)
  <2>a. DOMAIN p \subseteq Key /\ p \in [DOMAIN p -> Ref] /\ DOMAIN pending \subseteq DOMAIN p
    BY <2>1, WithType
  <2>b. pending' = p
    BY <1>15 DEF Bind, Bound
  <2> HIDE DEF p
  <2>3. /\ DOMAIN pending' \subseteq Key /\ pending' \in [DOMAIN pending' -> Ref]
        /\ DOMAIN pending \subseteq DOMAIN pending'
    BY <2>a, <2>b
  <2>4. lock' \in [Client -> Thread \cup {None}]
    BY <1>15 DEF Bind, ServeTypeOK
  <2> QED BY <1>15, <2>2, <2>3, <2>4 DEF Bind, ServeTypeOK
<1>16. ASSUME NEW t \in Thread, WriteResult(t) PROVE ServeTypeOK'
  <2>1. req[t].key \in Key /\ req[t].ref \in Ref
    BY <1>16 DEF WriteResult, StepInv, Fits, ServeTypeOK, Key, InHook
  <2>2. req' \in [Thread -> [at : Steps, key : Key \cup Span \cup {None}, ref : Ref]]
    BY <1>16, Names, AtType DEF WriteResult, Goto
  <2>3. chain' \in Seq(Record)
    BY <1>16, <2>1, ResultIsRecord, AppendRecord DEF WriteResult, Key
  <2> QED BY <1>16, <2>2, <2>3 DEF WriteResult, ServeTypeOK
<1>17. ASSUME NEW t \in Thread, HookResult(t) PROVE ServeTypeOK'
  <2>1. req[t].key \in HookKey /\ req[t].ref \in Ref
    BY <1>17 DEF HookResult, StepInv, Fits, ServeTypeOK, Key, InHook
  <2>2. req' \in [Thread -> [at : Steps, key : Key \cup Span \cup {None}, ref : Ref]]
    BY <1>17, Names, AtType DEF HookResult, Goto
  <2>3. chain' \in Seq(Record)
    BY <1>17, <2>1, ResultIsRecord, AppendRecord DEF HookResult, Key
  <2> DEFINE c == req[t].key[1]
             m == Remembered(closed[c], req[t].key, ClosedMemory)
  <2>4. c \in Client /\ closed[c] \in Seq(HookKey) /\ Len(closed[c]) <= ClosedMemory
    BY <2>1 DEF HookKey, ServeTypeOK
  <2>5. m \in Seq(HookKey) /\ Len(m) <= ClosedMemory /\ ToSet(closed[c]) \subseteq HookKey
    BY <2>1, <2>4, RememberedType, ServeAssumption DEF ToSet
  <2>6. closed' = [closed EXCEPT ![c] = m]
        /\ forgotten' = forgotten \cup ((ToSet(closed[c]) \cup {req[t].key}) \ ToSet(m))
    BY <1>17 DEF HookResult
  <2>7. /\ closed' \in [Client -> Seq(HookKey)]
        /\ \A x \in Client : Len(closed'[x]) <= ClosedMemory
        /\ forgotten' \subseteq HookKey \cup Span
    BY <2>1, <2>4, <2>5, <2>6 DEF ServeTypeOK
  <2>8. lock' \in [Client -> Thread \cup {None}]
    BY <1>17 DEF HookResult, ServeTypeOK
  <2> QED BY <1>17, <2>2, <2>3, <2>7, <2>8 DEF HookResult, ServeTypeOK
<1>18. ASSUME NEW t \in Thread, SpanResult(t) PROVE ServeTypeOK'
  <2>1. req[t].key \in Span /\ req[t].ref \in Ref
    BY <1>18 DEF SpanResult, StepInv, Fits, ServeTypeOK, Key, InHook
  <2>2. req' \in [Thread -> [at : Steps, key : Key \cup Span \cup {None}, ref : Ref]]
    BY <1>18, Names, AtType DEF SpanResult, Goto
  <2>3. chain' \in Seq(Record)
    BY <1>18, <2>1, ResultIsRecord, AppendRecord DEF SpanResult, Key
  <2>4. /\ seen' \in Seq(Span) /\ Len(seen') <= SeenMemory
        /\ ToSet(seen) \subseteq Span
    BY <1>18, <2>1, RememberedType, ServeAssumption DEF SpanResult, ServeTypeOK, ToSet
  <2>5. forgotten' \subseteq HookKey \cup Span
    BY <1>18, <2>1, <2>4 DEF SpanResult, ServeTypeOK
  <2> QED BY <1>18, <2>2, <2>3, <2>4, <2>5 DEF SpanResult, ServeTypeOK
<1>19. ASSUME NEW t \in Thread, WriteFails(t) PROVE ServeTypeOK'
  <2>1. req' \in [Thread -> [at : Steps, key : Key \cup Span \cup {None}, ref : Ref]]
    BY <1>19, Names, AtType DEF WriteFails, Goto, Released, Key
  <2> QED BY <1>19, <2>1, ServeAssumption DEF WriteFails, Released, ServeTypeOK, StepInv
<1>20. ASSUME Stop PROVE ServeTypeOK'
  BY <1>20, ServeAssumption DEF Stop, state, ServeTypeOK
<1>21. ASSUME CancelPending PROVE ServeTypeOK'
  BY <1>21, ServeAssumption DEF CancelPending, Waiting, state, ServeTypeOK
<1>22. ASSUME NEW k \in Key, Cancel(k) PROVE ServeTypeOK'
  <2>1. k \in Key /\ pending[k] \in Ref
    BY <1>22 DEF Cancel, ServeTypeOK
  <2>2. chain' \in Seq(Record)
    BY <1>22, <2>1, ResultIsRecord, AppendRecord DEF Cancel
  <2> QED BY <1>22, <2>2 DEF Cancel, ServeTypeOK
<1>23. ASSUME CancelFails PROVE ServeTypeOK'
  BY <1>23, ServeAssumption DEF CancelFails, Waiting, state, ServeTypeOK
<1>24. ASSUME Closed PROVE ServeTypeOK'
  BY <1>24, ServeAssumption DEF Closed, ServeTypeOK
<1> QED
  BY <1>0, <1>1, <1>2, <1>3, <1>4, <1>5, <1>6, <1>7, <1>8, <1>9, <1>10, <1>11, <1>12,
     <1>13, <1>14, <1>15, <1>16, <1>17, <1>18, <1>19, <1>20, <1>21, <1>22, <1>23,
     <1>24 DEF ServeNext, Work, Requests, Shutdown

\* Who moves to a place that fits keeps StepInv.
LEMMA FitsAt ==
    ASSUME ServeTypeOK, StepInv, NEW t \in Thread, NEW at \in Steps,
           NEW k \in Key \cup Span \cup {None}, NEW ref \in Ref, Enter(t, at, k, ref),
           Fits([at |-> at, key |-> k, ref |-> ref])
    PROVE  StepInv'
<1>1. req'[t] = [at |-> at, key |-> k, ref |-> ref]
      /\ \A u \in Thread \ {t} : req'[u] = req[u]
  BY AtType
<1> QED BY <1>1 DEF StepInv, Fits

\* To rest fits.
LEMMA Rests ==
    \A at \in AtRest : at \in Steps /\ Fits([at |-> at, key |-> None, ref |-> NoRef])
BY DEF Fits, Steps, AtRest, Holding, WritesResult, InHook

\* Every step leaves each thread with a key of its route, and a call where it
\* should have one.
LEMMA StepStep == ServeTypeOK /\ StepInv /\ HeldInv /\ [ServeNext]_serveVars => StepInv'
<1> SUFFICES ASSUME ServeTypeOK /\ StepInv /\ HeldInv, [ServeNext]_serveVars PROVE StepInv'
  OBVIOUS
<1>0. CASE UNCHANGED serveVars
  BY <1>0 DEF serveVars, state, StepInv, Fits
<1>1. ASSUME NEW t \in Thread, ChatRequest(t) PROVE StepInv'
  <2>1. \E at \in AtRest : Goto(t, at)
    BY <1>1 DEF ChatRequest, AtRest
  <2> QED BY <2>1, Rests, Names, FitsAt DEF Goto
<1>2. ASSUME NEW t \in Thread, NEW k \in WireId \cup EventId, ToolMessage(t, k) PROVE StepInv'
  <2>1. CASE k \in DOMAIN pending
    <3>1. pending[k] \in Ref /\ pending[k] # NoRef /\ k \in Key
      BY <2>1, TrueRef DEF HeldInv, ServeTypeOK
    <3>2. Enter(t, "chat_result", k, pending[k])
      BY <1>2, <2>1, ServeAssumption DEF ToolMessage
    <3> QED BY <3>1, <3>2, Names, FitsAt DEF Fits, AtRest, Holding, WritesResult, InHook
  <2>2. CASE k \notin DOMAIN pending
    BY <1>2, <2>2, Rests, Names, FitsAt DEF ToolMessage, Goto, AtRest
  <2> QED BY <2>1, <2>2
<1>3. ASSUME NEW t \in Thread, ChatOver(t) PROVE StepInv'
  <2>1. \E at \in AtRest : Goto(t, at)
    BY <1>3 DEF ChatOver, AtRest
  <2> QED BY <2>1, Rests, Names, FitsAt DEF Goto
<1>4. ASSUME NEW t \in Thread, ReplyHasCall(t) PROVE StepInv'
  BY <1>4, Names, FitsAt DEF ReplyHasCall, Key, Fits, AtRest, Holding, WritesResult, InHook
<1>5. ASSUME NEW t \in Thread, NoCall(t) PROVE StepInv'
  <2>1. \E at \in AtRest : Goto(t, at)
    BY <1>5 DEF NoCall, AtRest
  <2> QED BY <2>1, Rests, Names, FitsAt DEF Goto
<1>6. ASSUME NEW t \in Thread, NEW k \in EventId, EventCall(t, k) PROVE StepInv'
  BY <1>6, Names, FitsAt DEF EventCall, Key, Fits, AtRest, Holding, WritesResult, InHook
<1>7. ASSUME NEW t \in Thread, NEW k \in WireId \cup EventId, EventResult(t, k) PROVE StepInv'
  <2>1. CASE k \in DOMAIN pending
    <3>1. pending[k] \in Ref /\ pending[k] # NoRef /\ k \in Key
      BY <2>1, TrueRef DEF HeldInv, ServeTypeOK
    <3>2. \E at \in {"event_result", "put_back", "bad_digest"} : Enter(t, at, k, pending[k])
      BY <1>7, <2>1, ServeAssumption DEF EventResult
    <3> QED BY <3>1, <3>2, Names, FitsAt DEF Fits, AtRest, Holding, WritesResult, InHook
  <2>2. CASE k \notin DOMAIN pending
    BY <1>7, <2>2, Rests, Names, FitsAt DEF EventResult, Goto, AtRest
  <2> QED BY <2>1, <2>2
<1>8. ASSUME NEW t \in Thread, EventRejected(t) PROVE StepInv'
  <2>1. \E at \in AtRest : Goto(t, at)
    BY <1>8 DEF EventRejected, AtRest
  <2> QED BY <2>1, Rests, Names, FitsAt DEF Goto
<1>9. ASSUME NEW t \in Thread, NEW k \in HookKey, NEW e \in {"Pre", "Post"}, Hook(t, k, e) PROVE StepInv'
  <2>1. \E at \in {"hook_call", "hook_post_call", "hook_pop"} : Enter(t, at, k, NoRef)
    BY <1>9 DEF Hook
  <2> QED BY <2>1, Names, FitsAt DEF Key, Fits, AtRest, Holding, WritesResult, InHook
<1>10. ASSUME NEW t \in Thread, HookPop(t) PROVE StepInv'
  <2> DEFINE k == req[t].key
  <2>0. k \in HookKey
    BY <1>10 DEF HookPop, StepInv, Fits, InHook
  <2>1. CASE k \in DOMAIN pending
    <3>1. pending[k] \in Ref /\ pending[k] # NoRef /\ k \in Key
      BY <2>1, TrueRef DEF HeldInv, ServeTypeOK
    <3>2. Enter(t, "hook_result", k, pending[k])
      BY <1>10, <2>1 DEF HookPop
    <3> QED BY <2>0, <3>1, <3>2, Names, FitsAt DEF Fits, AtRest, Holding, WritesResult,
       InHook
  <2>2. CASE k \notin DOMAIN pending
    BY <1>10, <2>2, Rests, Names, FitsAt DEF HookPop, Goto, AtRest
  <2> QED BY <2>1, <2>2
<1>11. ASSUME NEW t \in Thread, TraceBatch(t) PROVE StepInv'
  <2>1. \E at \in AtRest : Goto(t, at)
    BY <1>11 DEF TraceBatch, AtRest
  <2> QED BY <2>1, Rests, Names, FitsAt DEF Goto
<1>12. ASSUME NEW t \in Thread, NEW s \in Span, ToolSpan(t, s) PROVE StepInv'
  BY <1>12, Names, FitsAt DEF ToolSpan, Key, Fits, AtRest, Holding, WritesResult, InHook
<1>13. ASSUME NEW t \in Thread, BatchOver(t) PROVE StepInv'
  <2>1. \E at \in AtRest : Goto(t, at)
    BY <1>13 DEF BatchOver, AtRest
  <2> QED BY <2>1, Rests, Names, FitsAt DEF Goto
<1>14. ASSUME NEW t \in Thread, WriteCall(t) PROVE StepInv'
  <2> DEFINE src == IF req[t].at = "chat_call" THEN "wire" ELSE "client"
             r == CallRecord(req[t].key, src)
             ref == RefOf(chain', src)
  <2>1. r \in Record /\ chain' = Append(chain, r)
    BY <1>14, Names DEF WriteCall, CallRecord, Record, ServeTypeOK
  <2>2. Len(chain') = Len(chain) + 1 /\ Len(chain) \in Nat
    BY <2>1, AppendRecord
  <2>3. ref \in Ref /\ ref # NoRef
    BY <2>2, Names DEF RefOf, Ref, NoRef
  <2>4. \E at \in {"chat_bind", "event_bind", "hook_bind", "hook_post_bind", "span_result"} :
          /\ Enter(t, at, req[t].key, ref)
          /\ Fits([at |-> at, key |-> req[t].key, ref |-> ref])
    BY <1>14, <2>3 DEF WriteCall, WritesCall, StepInv, Fits, AtRest, Holding,
       WritesResult, InHook
  <2>5. req[t].key \in Key \cup Span \cup {None}
    BY DEF ServeTypeOK
  <2> QED BY <2>3, <2>4, <2>5, Names, FitsAt
<1>15. ASSUME NEW t \in Thread, Bind(t) PROVE StepInv'
  <2>1. CASE req[t].at = "hook_post_bind"
    <3>1. Enter(t, "hook_pop", req[t].key, NoRef) /\ req[t].key \in HookKey
      BY <1>15, <2>1 DEF Bind, StepInv, Fits, InHook
    <3> QED BY <3>1, Names, FitsAt DEF Key, Fits, AtRest, Holding, WritesResult, InHook
  <2>2. CASE req[t].at # "hook_post_bind"
    <3>1. \E at \in AtRest : Goto(t, at)
      BY <1>15, <2>2 DEF Bind, AtRest
    <3> QED BY <3>1, Rests, Names, FitsAt DEF Goto
  <2> QED BY <2>1, <2>2
<1>16. ASSUME NEW t \in Thread, WriteResult(t) PROVE StepInv'
  <2>1. \E at \in AtRest : Goto(t, at)
    BY <1>16 DEF WriteResult, AtRest
  <2> QED BY <2>1, Rests, Names, FitsAt DEF Goto
<1>17. ASSUME NEW t \in Thread, HookResult(t) PROVE StepInv'
  <2>1. \E at \in AtRest : Goto(t, at)
    BY <1>17 DEF HookResult, AtRest
  <2> QED BY <2>1, Rests, Names, FitsAt DEF Goto
<1>18. ASSUME NEW t \in Thread, SpanResult(t) PROVE StepInv'
  <2>1. \E at \in AtRest : Goto(t, at)
    BY <1>18 DEF SpanResult, AtRest
  <2> QED BY <2>1, Rests, Names, FitsAt DEF Goto
<1>19. ASSUME NEW t \in Thread, WriteFails(t) PROVE StepInv'
  <2>1. \E at \in AtRest : Goto(t, at)
    BY <1>19 DEF WriteFails, AtRest
  <2> QED BY <2>1, Rests, Names, FitsAt DEF Goto
<1>20. ASSUME Stop PROVE StepInv'
  BY <1>20 DEF Stop, state, StepInv, Fits
<1>21. ASSUME CancelPending PROVE StepInv'
  BY <1>21 DEF CancelPending, state, StepInv, Fits
<1>22. ASSUME NEW k \in Key, Cancel(k) PROVE StepInv'
  BY <1>22 DEF Cancel, state, StepInv, Fits
<1>23. ASSUME CancelFails PROVE StepInv'
  BY <1>23 DEF CancelFails, state, StepInv, Fits
<1>24. ASSUME Closed PROVE StepInv'
  BY <1>24 DEF Closed, state, StepInv, Fits
<1> QED
  BY <1>0, <1>1, <1>2, <1>3, <1>4, <1>5, <1>6, <1>7, <1>8, <1>9, <1>10, <1>11, <1>12,
     <1>13, <1>14, <1>15, <1>16, <1>17, <1>18, <1>19, <1>20, <1>21, <1>22, <1>23,
     <1>24 DEF ServeNext, Work, Requests, Shutdown

\* A thread works while the server runs, and the shutdown has not begun.
LEMMA Working ==
    ASSUME PhaseInv, NEW t \in Thread, Work(t) \/ Requests(t) \/ WriteFails(t)
    PROVE  /\ Running /\ ~Cancelling /\ todo = {}
           /\ phase' = phase /\ todo' = {} /\ Running' /\ ~Cancelling'
<1>1. Running /\ UNCHANGED <<phase, todo>>
  BY DEF PhaseInv, Running, Idle, Work, Requests, ChatRequest, ToolMessage, ChatOver,
     ReplyHasCall, NoCall, EventCall, EventResult, EventRejected, Hook, HookPop,
     TraceBatch, ToolSpan, BatchOver, WriteCall, Bind, WriteResult, HookResult,
     SpanResult, WriteFails, Begin, state, WritesCall, WritesResult
<1> QED BY <1>1 DEF PhaseInv, Running, Cancelling

\* The shutdown begins when the requests are over, and ends with no entries.
LEMMA PhaseStep == PhaseInv /\ [ServeNext]_serveVars => PhaseInv'
<1> SUFFICES ASSUME PhaseInv, [ServeNext]_serveVars PROVE PhaseInv'
  OBVIOUS
<1>0. CASE UNCHANGED serveVars
  BY <1>0 DEF serveVars, state, PhaseInv, Running, Cancelling
<1>1. ASSUME NEW t \in Thread, Work(t) \/ Requests(t) \/ WriteFails(t) PROVE PhaseInv'
  <2>1. phase' # "closed"
    BY <1>1, Working DEF Running
  <2> QED BY <1>1, <2>1, Working DEF PhaseInv
<1>2. ASSUME Stop \/ CancelPending \/ CancelFails PROVE PhaseInv'
  BY <1>2 DEF Stop, CancelPending, CancelFails, state, PhaseInv, Running, Cancelling
<1>3. ASSUME Closed PROVE PhaseInv'
  BY <1>3 DEF Closed, PhaseInv, Running, Cancelling
<1>4. ASSUME NEW k \in Key, Cancel(k) PROVE PhaseInv'
  BY <1>4 DEF Cancel, PhaseInv, Running, Cancelling
<1> QED BY <1>0, <1>1, <1>2, <1>3, <1>4 DEF ServeNext, Shutdown

\* Who neither enters nor leaves an ingest leaves its lock alone.
LEMMA LockFrame ==
    ASSUME ServeTypeOK, IngestLockInv, NEW t \in Thread, NEW at \in Steps,
           NEW k \in Key \cup Span \cup {None}, NEW ref \in Ref, Enter(t, at, k, ref),
           UNCHANGED <<lock, tlock>>,
           req[t].at \in InHook <=> at \in InHook, at \in InHook => k = req[t].key,
           req[t].at \in InBatch <=> at \in InBatch
    PROVE  IngestLockInv'
<1>1. req'[t] = [at |-> at, key |-> k, ref |-> ref]
      /\ \A u \in Thread \ {t} : req'[u] = req[u]
  BY AtType
<1>2. \A c \in Client, u \in Thread : lock[c] = u <=> req'[u].at \in InHook /\ req'[u].key[1] = c
  BY <1>1 DEF IngestLockInv
<1>3. \A u \in Thread : tlock = u <=> req'[u].at \in InBatch
  BY <1>1 DEF IngestLockInv
<1> QED BY <1>2, <1>3 DEF IngestLockInv

\* Who comes to rest and lets its locks go is in no ingest.
LEMMA LockLeft ==
    ASSUME ServeTypeOK, IngestLockInv, NEW t \in Thread, Goto(t, "idle"),
           \A c \in Client : lock'[c] = IF lock[c] = t THEN None ELSE lock[c],
           tlock' = IF tlock = t THEN None ELSE tlock
    PROVE  IngestLockInv'
<1>1. req'[t] = [at |-> "idle", key |-> None, ref |-> NoRef]
      /\ \A u \in Thread \ {t} : req'[u] = req[u]
  BY AtType, Names DEF Goto
<1>2. "idle" \notin InHook /\ "idle" \notin InBatch
  BY DEF InHook, InBatch
<1>3. \A c \in Client, u \in Thread :
         lock'[c] = u <=> req'[u].at \in InHook /\ req'[u].key[1] = c
  BY <1>1, <1>2, IdAssumption DEF IngestLockInv
<1>4. \A u \in Thread : tlock' = u <=> req'[u].at \in InBatch
  BY <1>1, <1>2, IdAssumption DEF IngestLockInv
<1> QED BY <1>3, <1>4 DEF IngestLockInv

\* The locks of the ingests are with the threads that are inside.
LEMMA LockStep ==
    ServeTypeOK /\ ServeTypeOK' /\ StepInv /\ IngestLockInv
        /\ [ServeNext]_serveVars => IngestLockInv'
<1> SUFFICES ASSUME ServeTypeOK /\ ServeTypeOK' /\ StepInv /\ IngestLockInv,
                    [ServeNext]_serveVars
             PROVE  IngestLockInv'
  OBVIOUS
<1>0. CASE UNCHANGED serveVars
  BY <1>0 DEF serveVars, state, IngestLockInv
<1>1. ASSUME NEW t \in Thread, ChatRequest(t) PROVE IngestLockInv'
  <2>1. \E at \in {"chat"} : Goto(t, at)
    BY <1>1 DEF ChatRequest
  <2> QED BY <1>1, <2>1, Names, LockFrame DEF ChatRequest, Begin, Idle, Goto, state,
     WritesCall, WritesResult, InHook, InBatch
<1>2. ASSUME NEW t \in Thread, NEW k \in WireId \cup EventId, ToolMessage(t, k) PROVE IngestLockInv'
  <2>1. \E at \in {"chat_result", "loop"} : \E ref \in Ref, x \in Key \cup {None} : Enter(t, at, x, ref)
    BY <1>2, Names, ServeAssumption DEF ToolMessage, Goto, ServeTypeOK, Key
  <2>2. UNCHANGED <<lock, tlock>> /\ req[t].at \in {"chat", "loop", "idle"}
    BY <1>2 DEF ToolMessage, Begin, Idle
  <2> QED BY <2>1, <2>2, Names, LockFrame DEF WritesCall, WritesResult, InHook, InBatch
<1>3. ASSUME NEW t \in Thread, ChatOver(t) PROVE IngestLockInv'
  <2>1. \E at \in {"idle"} : Goto(t, at)
    BY <1>3 DEF ChatOver
  <2> QED BY <1>3, <2>1, Names, LockFrame DEF ChatOver, Begin, Idle, Goto, state,
     WritesCall, WritesResult, InHook, InBatch
<1>4. ASSUME NEW t \in Thread, ReplyHasCall(t) PROVE IngestLockInv'
  BY <1>4, Names, LockFrame DEF ReplyHasCall, Begin, Idle, Key, state, WritesCall,
     WritesResult, InHook, InBatch
<1>5. ASSUME NEW t \in Thread, NoCall(t) PROVE IngestLockInv'
  <2>1. \E at \in {"idle"} : Goto(t, at)
    BY <1>5 DEF NoCall
  <2> QED BY <1>5, <2>1, Names, LockFrame DEF NoCall, Begin, Idle, Goto, state,
     WritesCall, WritesResult, InHook, InBatch
<1>6. ASSUME NEW t \in Thread, NEW k \in EventId, EventCall(t, k) PROVE IngestLockInv'
  BY <1>6, Names, LockFrame DEF EventCall, Begin, Idle, Key, state, WritesCall,
     WritesResult, InHook, InBatch
<1>7. ASSUME NEW t \in Thread, NEW k \in WireId \cup EventId, EventResult(t, k) PROVE IngestLockInv'
  <2>1. \E at \in {"event_result", "put_back", "bad_digest"} : \E ref \in Ref, x \in Key \cup {None} : Enter(t, at, x, ref)
    BY <1>7, Names, ServeAssumption DEF EventResult, Goto, ServeTypeOK, Key
  <2>2. UNCHANGED <<lock, tlock>> /\ req[t].at \in {"chat", "loop", "idle"}
    BY <1>7 DEF EventResult, Begin, Idle
  <2> QED BY <2>1, <2>2, Names, LockFrame DEF WritesCall, WritesResult, InHook, InBatch
<1>8. ASSUME NEW t \in Thread, EventRejected(t) PROVE IngestLockInv'
  BY <1>8, Names, LockFrame DEF EventRejected, Goto, WritesCall, WritesResult, InHook,
     InBatch
<1>9. ASSUME NEW t \in Thread, NEW k \in HookKey, NEW e \in {"Pre", "Post"}, Hook(t, k, e) PROVE IngestLockInv'
  <2>1. \E at \in {"hook_call", "hook_post_call", "hook_pop"} : Enter(t, at, k, NoRef)
    BY <1>9 DEF Hook
  <2>2. /\ req'[t].at \in InHook /\ req'[t].at \notin InBatch /\ req'[t].key = k
        /\ \A u \in Thread \ {t} : req'[u] = req[u]
    <3>1. k \in Key \cup Span \cup {None}
      BY DEF Key
    <3>2. /\ \E at \in {"hook_call", "hook_post_call", "hook_pop"} :
                req'[t] = [at |-> at, key |-> k, ref |-> NoRef]
          /\ \A u \in Thread \ {t} : req'[u] = req[u]
      BY <2>1, <3>1, AtType, Names
    <3> QED BY <3>2 DEF InHook, InBatch
  <2>3. k[1] \in Client /\ lock[k[1]] = None /\ lock' = [lock EXCEPT ![k[1]] = t] /\ tlock' = tlock
    BY <1>9 DEF Hook, HookKey
  <2>4. req[t].at \notin InHook /\ req[t].at \notin InBatch
    BY <1>9 DEF Hook, Begin, Idle, InHook, InBatch
  <2>5. \A c \in Client, u \in Thread :
           lock'[c] = u <=> req'[u].at \in InHook /\ req'[u].key[1] = c
    BY <2>2, <2>3, <2>4, IdAssumption DEF IngestLockInv, ServeTypeOK
  <2>6. \A u \in Thread : tlock' = u <=> req'[u].at \in InBatch
    BY <2>2, <2>3, <2>4 DEF IngestLockInv
  <2> QED BY <2>5, <2>6 DEF IngestLockInv
<1>10. ASSUME NEW t \in Thread, HookPop(t) PROVE IngestLockInv'
  <2> DEFINE k == req[t].key
  <2>0. k \in HookKey /\ req[t].at \in InHook /\ req[t].at \notin InBatch
    BY <1>10 DEF HookPop, StepInv, Fits, InHook, InBatch
  <2>1. CASE k \in DOMAIN pending
    <3>1. Enter(t, "hook_result", k, pending[k]) /\ pending[k] \in Ref /\ UNCHANGED <<lock, tlock>>
      BY <1>10, <2>1 DEF HookPop, ServeTypeOK
    <3> QED BY <2>0, <3>1, Names, LockFrame DEF Key, InHook, InBatch
  <2>2. CASE k \notin DOMAIN pending
    <3>1. k[1] \in Client /\ \A c \in Client : lock[c] = t <=> c = k[1]
      BY <2>0 DEF IngestLockInv, HookKey
    <3>2. lock' = [lock EXCEPT ![k[1]] = None] /\ tlock' = tlock /\ Goto(t, "idle") /\ tlock # t
      BY <1>10, <2>0, <2>2 DEF HookPop, IngestLockInv
    <3>3. \A c \in Client : lock'[c] = IF lock[c] = t THEN None ELSE lock[c]
      BY <3>1, <3>2 DEF ServeTypeOK
    <3> QED BY <3>2, <3>3, LockLeft
  <2> QED BY <2>1, <2>2
<1>11. ASSUME NEW t \in Thread, TraceBatch(t) PROVE IngestLockInv'
  <2>1. /\ req'[t].at \notin InHook /\ req'[t].at \in InBatch
        /\ \A u \in Thread \ {t} : req'[u] = req[u]
    <3>1. /\ req'[t] = [at |-> "batch", key |-> None, ref |-> NoRef]
          /\ \A u \in Thread \ {t} : req'[u] = req[u]
      BY <1>11, AtType, Names DEF TraceBatch, Goto
    <3> QED BY <3>1 DEF InHook, InBatch
  <2>2. tlock = None /\ tlock' = t /\ lock' = lock /\ req[t].at \notin InHook /\ req[t].at \notin InBatch
    BY <1>11 DEF TraceBatch, Begin, Idle, InHook, InBatch
  <2>3. \A c \in Client, u \in Thread :
           lock'[c] = u <=> req'[u].at \in InHook /\ req'[u].key[1] = c
    BY <2>1, <2>2 DEF IngestLockInv
  <2>4. \A u \in Thread : tlock' = u <=> req'[u].at \in InBatch
    BY <2>1, <2>2, IdAssumption DEF IngestLockInv
  <2> QED BY <2>3, <2>4 DEF IngestLockInv
<1>12. ASSUME NEW t \in Thread, NEW s \in Span, ToolSpan(t, s) PROVE IngestLockInv'
  BY <1>12, Names, LockFrame DEF ToolSpan, Begin, Idle, Key, state, WritesCall,
     WritesResult, InHook, InBatch
<1>13. ASSUME NEW t \in Thread, BatchOver(t) PROVE IngestLockInv'
  <2>1. tlock = t /\ \A c \in Client : lock[c] # t
    BY <1>13 DEF BatchOver, IngestLockInv, InHook, InBatch
  <2> QED BY <1>13, <2>1, LockLeft DEF BatchOver
<1>14. ASSUME NEW t \in Thread, WriteCall(t) PROVE IngestLockInv'
  <2>1. \E ref \in [call : {Len(chain')}, source : {"wire", "client"}] :
         \/ \E at \in {"chat_bind", "event_bind"} :
               /\ Enter(t, at, req[t].key, ref) /\ req[t].at \in {"chat_call", "event_call"}
         \/ \E at \in {"hook_bind", "hook_post_bind"} :
               /\ Enter(t, at, req[t].key, ref) /\ req[t].at \in {"hook_call", "hook_post_call"}
         \/ Enter(t, "span_result", req[t].key, ref) /\ req[t].at = "span_call"
    BY <1>14 DEF WriteCall, WritesCall, RefOf
  <2>2. Len(chain') \in Nat /\ req[t].key \in Key \cup Span \cup {None} /\ UNCHANGED <<lock, tlock>>
    BY <1>14 DEF WriteCall, ServeTypeOK
  <2>3. [call : {Len(chain')}, source : {"wire", "client"}] \subseteq Ref
    BY <2>2, Names DEF Ref
  <2> QED BY <2>1, <2>2, <2>3, Names, LockFrame DEF InHook, InBatch
<1>15. ASSUME NEW t \in Thread, Bind(t) PROVE IngestLockInv'
  <2> DEFINE k == req[t].key
  <2>1. CASE req[t].at # "hook_bind"
    <3>1. \E at \in {"calls", "hook_pop", "idle"}, x \in {None, req[t].key} :
             /\ Enter(t, at, x, NoRef) /\ (at = "hook_pop" <=> req[t].at = "hook_post_bind")
             /\ (at = "hook_pop" => x = req[t].key)
      BY <1>15, <2>1 DEF Bind, Goto
    <3>2. UNCHANGED <<lock, tlock>> /\ req[t].key \in Key \cup Span \cup {None}
          /\ req[t].at \in {"chat_bind", "event_bind", "hook_post_bind"}
      BY <1>15, <2>1 DEF Bind, ServeTypeOK
    <3> QED BY <3>1, <3>2, Names, LockFrame DEF InHook, InBatch
  <2>2. CASE req[t].at = "hook_bind"
    <3>0. k \in HookKey /\ req[t].at \in InHook /\ req[t].at \notin InBatch
      BY <2>2 DEF StepInv, Fits, InHook, InBatch
    <3>1. k[1] \in Client /\ \A c \in Client : lock[c] = t <=> c = k[1]
      BY <3>0 DEF IngestLockInv, HookKey
    <3>2. lock' = [lock EXCEPT ![k[1]] = None] /\ tlock' = tlock /\ Goto(t, "idle") /\ tlock # t
      BY <1>15, <2>2, <3>0 DEF Bind, IngestLockInv
    <3>3. \A c \in Client : lock'[c] = IF lock[c] = t THEN None ELSE lock[c]
      BY <3>1, <3>2 DEF ServeTypeOK
    <3> QED BY <3>2, <3>3, LockLeft
  <2> QED BY <2>1, <2>2
<1>16. ASSUME NEW t \in Thread, WriteResult(t) PROVE IngestLockInv'
  <2>1. \E at \in {"loop", "idle"} : Goto(t, at)
    BY <1>16 DEF WriteResult
  <2> QED BY <1>16, <2>1, Names, LockFrame DEF WriteResult, Begin, Idle, Goto, state,
     WritesCall, WritesResult, InHook, InBatch
<1>17. ASSUME NEW t \in Thread, HookResult(t) PROVE IngestLockInv'
  <2> DEFINE k == req[t].key
  <2>0. k \in HookKey /\ req[t].at \in InHook /\ req[t].at \notin InBatch
    BY <1>17 DEF HookResult, StepInv, Fits, InHook, InBatch
  <2>2. IngestLockInv'
    <3>1. k[1] \in Client /\ \A c \in Client : lock[c] = t <=> c = k[1]
      BY <2>0 DEF IngestLockInv, HookKey
    <3>2. lock' = [lock EXCEPT ![k[1]] = None] /\ tlock' = tlock /\ Goto(t, "idle") /\ tlock # t
      BY <1>17, <2>0 DEF HookResult, IngestLockInv
    <3>3. \A c \in Client : lock'[c] = IF lock[c] = t THEN None ELSE lock[c]
      BY <3>1, <3>2 DEF ServeTypeOK
    <3> QED BY <3>2, <3>3, LockLeft
  <2> QED BY <2>2
<1>18. ASSUME NEW t \in Thread, SpanResult(t) PROVE IngestLockInv'
  BY <1>18, Names, LockFrame DEF SpanResult, Goto, InHook, InBatch
<1>19. ASSUME NEW t \in Thread, WriteFails(t) PROVE IngestLockInv'
  BY <1>19, LockLeft DEF WriteFails, Released
<1>20. ASSUME Stop PROVE IngestLockInv'
  BY <1>20 DEF Stop, state, IngestLockInv
<1>21. ASSUME CancelPending PROVE IngestLockInv'
  BY <1>21 DEF CancelPending, state, IngestLockInv
<1>22. ASSUME NEW k \in Key, Cancel(k) PROVE IngestLockInv'
  BY <1>22 DEF Cancel, state, IngestLockInv
<1>23. ASSUME CancelFails PROVE IngestLockInv'
  BY <1>23 DEF CancelFails, state, IngestLockInv
<1>24. ASSUME Closed PROVE IngestLockInv'
  BY <1>24 DEF Closed, state, IngestLockInv
<1> QED
  BY <1>0, <1>1, <1>2, <1>3, <1>4, <1>5, <1>6, <1>7, <1>8, <1>9, <1>10, <1>11, <1>12,
     <1>13, <1>14, <1>15, <1>16, <1>17, <1>18, <1>19, <1>20, <1>21, <1>22, <1>23,
     <1>24 DEF ServeNext, Work, Requests, Shutdown

-----------------------------------------------------------------------------
(* A call is in one place.                                                  *)

\* What is on the chain stays there.
Grows == \A i \in DOMAIN chain : i \in DOMAIN chain' /\ chain'[i] = chain[i]

\* So does a chain with one more record,
LEMMA AppendGrows ==
    ASSUME ServeTypeOK, NEW r \in Record, chain' = Append(chain, r)
    PROVE  Grows
BY AppendRecord DEF Grows

\* and one that stays as it is.
LEMMA SameGrows == chain' = chain => Grows
BY DEF Grows

\* Entries and references that stay, or go.
LEMMA HeldLess ==
    ASSUME ServeTypeOK, HeldInv, Grows,
           \A k \in DOMAIN pending' : k \in DOMAIN pending /\ pending'[k] = pending[k],
           \A u \in Thread : \/ req'[u].ref = NoRef
                             \/ req'[u].ref = req[u].ref /\ req'[u].key = req[u].key
    PROVE  HeldInv'
<1>1. \A k \in DOMAIN pending' : IsTrue(k, pending[k])
  BY DEF HeldInv
<1>2. \A k \in DOMAIN pending' : IsTrue(k, pending[k])'
  BY <1>1 DEF IsTrue, Called, Grows
<1>3. ASSUME NEW t \in Thread, req'[t].ref # NoRef
      PROVE  /\ IsTrue(req[t].key, req[t].ref)'
             /\ \A k \in DOMAIN pending' : pending'[k].call # req'[t].ref.call
             /\ \A u \in Thread \ {t} : req'[u].ref.call # req'[t].ref.call
  <2>1. req'[t].ref = req[t].ref /\ req'[t].key = req[t].key /\ req[t].ref # NoRef
    BY <1>3
  <2>2. IsTrue(req[t].key, req[t].ref) /\ req[t].ref.call \in DOMAIN chain
    BY <2>1 DEF HeldInv, IsTrue, Called
  <2>3. IsTrue(req[t].key, req[t].ref)'
    BY <2>1, <2>2 DEF IsTrue, Called, Grows
  <2>4. \A k \in DOMAIN pending' : pending'[k].call # req'[t].ref.call
    BY <2>1 DEF HeldInv
  <2>5. ASSUME NEW u \in Thread \ {t} PROVE req'[u].ref.call # req'[t].ref.call
    <3>1. req[t].ref.call # 0 /\ NoRef.call = 0
      BY <2>2, TrueRef DEF NoRef
    <3> QED BY <2>1, <3>1 DEF HeldInv
  <2> QED BY <2>3, <2>4, <2>5
<1> QED BY <1>2, <1>3 DEF HeldInv

\* A request takes an entry out.
LEMMA HeldPop ==
    ASSUME ServeTypeOK, HeldInv, chain' = chain, NEW t \in Thread, NEW k \in DOMAIN pending,
           req[t].ref = NoRef, pending' = Without(k),
           req'[t].key = k, req'[t].ref = pending[k],
           \A u \in Thread \ {t} : req'[u] = req[u]
    PROVE  HeldInv'
<1>1. /\ DOMAIN pending' = DOMAIN pending \ {k}
      /\ \A x \in DOMAIN pending' : pending'[x] = pending[x]
  BY WithoutType
<1>2. chain[pending[k].call].id = k /\ pending[k].call # 0
  BY TrueRef DEF HeldInv, IsTrue
<1>3. \A x \in DOMAIN pending' : /\ IsTrue(x, pending[x])
                                 /\ pending[x].call # pending[k].call
  BY <1>1, <1>2 DEF HeldInv, IsTrue
<1>4. \A x \in DOMAIN pending' : IsTrue(x, pending'[x])
  BY <1>1, <1>3
<1>5. \A x \in DOMAIN pending' : IsTrue(x, pending[x])'
  BY <1>4 DEF IsTrue, Called
<1>6. IsTrue(k, req'[t].ref)
  BY DEF HeldInv
<1>7. IsTrue(req[t].key, req[t].ref)'
  BY <1>6 DEF IsTrue, Called
<1>8. ASSUME NEW u \in Thread \ {t}, req'[u].ref # NoRef
      PROVE  /\ IsTrue(req[u].key, req[u].ref)'
             /\ \A x \in DOMAIN pending' : pending'[x].call # req'[u].ref.call
             /\ \A v \in Thread \ {u} : req'[v].ref.call # req'[u].ref.call
  <2>1. req'[u] = req[u] /\ IsTrue(req[u].key, req[u].ref) /\ pending[k].call # req[u].ref.call
    BY <1>8 DEF HeldInv
  <2>2. IsTrue(req[u].key, req[u].ref)'
    BY <2>1 DEF IsTrue, Called
  <2>3. \A x \in DOMAIN pending' : pending'[x].call # req'[u].ref.call
    BY <1>1, <1>8, <2>1 DEF HeldInv
  <2>4. \A v \in Thread \ {u} : req'[v].ref.call # req'[u].ref.call
    BY <1>8, <2>1 DEF HeldInv
  <2> QED BY <2>2, <2>3, <2>4
<1>9. \A u \in Thread \ {t} : req'[u].ref.call # req'[t].ref.call
  <2>1. ASSUME NEW u \in Thread \ {t} PROVE req'[u].ref.call # req'[t].ref.call
    <3>1. CASE req[u].ref = NoRef
      BY <1>2, <3>1 DEF NoRef
    <3>2. CASE req[u].ref # NoRef
      BY <3>2 DEF HeldInv
    <3> QED BY <3>1, <3>2
  <2> QED BY <2>1
<1> QED BY <1>1, <1>3, <1>5, <1>7, <1>8, <1>9 DEF HeldInv

\* A request puts its call under its key.
LEMMA HeldPut ==
    ASSUME ServeTypeOK, HeldInv, chain' = chain, NEW t \in Thread, req[t].ref # NoRef,
           req[t].key \in Key, pending' = With(req[t].key, req[t].ref),
           req'[t].ref = NoRef, \A u \in Thread \ {t} : req'[u] = req[u]
    PROVE  HeldInv'
<1> DEFINE k == req[t].key
           ref == req[t].ref
<1>1. k \in Key /\ ref \in Ref /\ IsTrue(k, ref)
  BY DEF ServeTypeOK, HeldInv
<1>2. /\ DOMAIN pending' = DOMAIN pending \cup {k} /\ pending'[k] = ref
      /\ \A x \in DOMAIN pending \ {k} : pending'[x] = pending[x]
  <2> DEFINE p == With(k, ref)
  <2>1. /\ DOMAIN p = DOMAIN pending \cup {k} /\ p[k] = ref
        /\ \A x \in DOMAIN pending \ {k} : p[x] = pending[x]
    <3> HIDE DEF k, ref
    <3> QED BY <1>1, WithType
  <2>2. pending' = p
    OBVIOUS
  <2> HIDE DEF p
  <2> QED BY <2>1, <2>2
<1>3. \A x \in DOMAIN pending' : IsTrue(x, pending'[x])
  BY <1>1, <1>2 DEF HeldInv
<1>4. \A x \in DOMAIN pending' : IsTrue(x, pending[x])'
  BY <1>3 DEF IsTrue, Called
<1>5. ASSUME NEW u \in Thread, req'[u].ref # NoRef
      PROVE  /\ IsTrue(req[u].key, req[u].ref)'
             /\ \A x \in DOMAIN pending' : pending'[x].call # req'[u].ref.call
             /\ \A v \in Thread \ {u} : req'[v].ref.call # req'[u].ref.call
  <2>1. u # t /\ req'[u] = req[u] /\ IsTrue(req[u].key, req[u].ref)
    BY <1>5 DEF HeldInv
  <2>2. IsTrue(req[u].key, req[u].ref)' /\ req[u].ref.call # 0
    BY <2>1, TrueRef DEF IsTrue, Called
  <2>3. \A x \in DOMAIN pending' : pending'[x].call # req'[u].ref.call
    BY <1>2, <1>5, <2>1 DEF HeldInv
  <2>4. \A v \in Thread \ {u} : req'[v].ref.call # req'[u].ref.call
    <3>1. ASSUME NEW v \in Thread \ {u} PROVE req'[v].ref.call # req'[u].ref.call
      <4>1. CASE v = t
        BY <2>2, <2>1, <4>1 DEF NoRef
      <4>2. CASE v # t
        BY <1>5, <2>1, <4>2 DEF HeldInv
      <4> QED BY <4>1, <4>2
    <3> QED BY <3>1
  <2> QED BY <2>2, <2>3, <2>4
<1> QED BY <1>2, <1>4, <1>5 DEF HeldInv

\* A request records a call, and has it.
LEMMA HeldNew ==
    ASSUME ServeTypeOK, HeldInv, NEW t \in Thread, NEW r \in Record, r.kind = "call",
           chain' = Append(chain, r), pending' = pending, req[t].ref = NoRef,
           req'[t].key = r.id, req'[t].ref = [call |-> Len(chain'), source |-> r.source],
           \A u \in Thread \ {t} : req'[u] = req[u]
    PROVE  HeldInv'
<1>1. /\ DOMAIN chain = 1..Len(chain) /\ Len(chain) \in Nat /\ Len(chain') = Len(chain) + 1
      /\ DOMAIN chain' = 1..(Len(chain) + 1)
      /\ \A i \in DOMAIN chain : chain'[i] = chain[i]
      /\ chain'[Len(chain) + 1] = r
  BY AppendRecord
<1>2. \A x \in DOMAIN pending : IsTrue(x, pending[x]) /\ pending[x].call \in DOMAIN chain
  BY DEF HeldInv, IsTrue, Called
<1>3. \A x \in DOMAIN pending' : IsTrue(x, pending[x])'
  BY <1>1, <1>2 DEF IsTrue, Called
<1>4. IsTrue(req[t].key, req[t].ref)'
  BY <1>1 DEF IsTrue, Called
<1>5. \A x \in DOMAIN pending' : pending'[x].call # req'[t].ref.call
  BY <1>1, <1>2
<1>6. \A u \in Thread \ {t} : req'[u].ref.call # req'[t].ref.call
  <2>1. ASSUME NEW u \in Thread \ {t} PROVE req'[u].ref.call # req'[t].ref.call
    <3>1. CASE req[u].ref = NoRef
      BY <1>1, <3>1 DEF NoRef
    <3>2. CASE req[u].ref # NoRef
      <4>1. req[u].ref.call \in DOMAIN chain
        BY <3>2 DEF HeldInv, IsTrue, Called
      <4> QED BY <1>1, <4>1
    <3> QED BY <3>1, <3>2
  <2> QED BY <2>1
<1>7. ASSUME NEW u \in Thread \ {t}, req'[u].ref # NoRef
      PROVE  /\ IsTrue(req[u].key, req[u].ref)'
             /\ \A x \in DOMAIN pending' : pending'[x].call # req'[u].ref.call
             /\ \A v \in Thread \ {u} : req'[v].ref.call # req'[u].ref.call
  <2>1. req'[u] = req[u] /\ IsTrue(req[u].key, req[u].ref)
    BY <1>7 DEF HeldInv
  <2>2. IsTrue(req[u].key, req[u].ref)'
    BY <1>1, <2>1 DEF IsTrue, Called
  <2>3. \A x \in DOMAIN pending' : pending'[x].call # req'[u].ref.call
    BY <1>7, <2>1 DEF HeldInv
  <2>4. \A v \in Thread \ {u} : req'[v].ref.call # req'[u].ref.call
    BY <1>6, <1>7, <2>1 DEF HeldInv
  <2> QED BY <2>2, <2>3, <2>4
<1> QED BY <1>3, <1>4, <1>5, <1>6, <1>7 DEF HeldInv

\* A thread has a reference in the steps of Holding and in no other.
LEMMA NoRefAt == ASSUME StepInv, NEW t \in Thread
                 PROVE  req[t].ref # NoRef <=> req[t].at \in Holding
BY DEF StepInv, Fits

\* What a step of a thread does to the calls, the references and the chain.
Alone(t) == \A u \in Thread \ {t} : req'[u] = req[u]
Moves(t) == /\ chain' = chain \/ chain' = Append(chain, OfferedRecord)
            /\ pending' = pending /\ failures' = failures
            /\ req[t].ref = NoRef /\ req'[t].ref = NoRef
Takes(t, k) == /\ k \in DOMAIN pending /\ pending' = Without(k)
               /\ chain' = chain /\ failures' = failures
               /\ req[t].ref = NoRef /\ req'[t].key = k /\ req'[t].ref = pending[k]
Keeps(t) == /\ req[t].key \in Key /\ pending' = With(req[t].key, req[t].ref)
            /\ req[t].key \in DOMAIN pending => req[t].key \in EventId
            /\ chain' = chain /\ failures' = failures
            /\ req[t].ref # NoRef /\ req'[t].ref = NoRef
Records(t, r) == /\ r.kind = "call" /\ r.id = req[t].key /\ chain' = Append(chain, r)
                 /\ pending' = pending /\ failures' = failures
                 /\ req[t].at \in WritesCall /\ req'[t].at \notin WritesCall
                 /\ req[t].ref = NoRef /\ req'[t].key = r.id
                 /\ req'[t].ref = [call |-> Len(chain'), source |-> r.source]
Answers(t) == /\ chain' = Append(chain, ResultRecord(req[t].key, req[t].ref))
              /\ req[t].key \in Key \cup Span
              /\ pending' = pending /\ failures' = failures
              /\ req[t].ref # NoRef /\ req'[t].ref = NoRef
Drops(t) == /\ chain' = chain /\ pending' = pending
            /\ req'[t].ref = NoRef
            /\ \/ failures' = failures + 1
               \/ failures' = failures /\ req[t].ref.call \in spoiled'
Effect(t) ==
    /\ Alone(t)
    /\ \/ Moves(t) \/ (\E k \in Key : Takes(t, k)) \/ Keeps(t)
       \/ (\E r \in Record : Records(t, r)) \/ Answers(t) \/ Drops(t)

\* Every step of a thread is one of the six.
LEMMA Effects ==
    ASSUME ServeTypeOK, StepInv, OneKeyInv, NEW t \in Thread,
           Work(t) \/ Requests(t) \/ WriteFails(t)
    PROVE  Effect(t)
<1>1. ASSUME ChatRequest(t) PROVE Effect(t)
  <2>1. /\ \E at \in AtRest : Goto(t, at)
        /\ chain' = chain \/ chain' = Append(chain, OfferedRecord)
        /\ pending' = pending /\ failures' = failures
        /\ req[t].at \notin Holding
    BY <1>1 DEF ChatRequest, AtRest, Begin, Idle, state, Holding, WritesResult
  <2>2. req'[t].ref = NoRef /\ Alone(t)
    BY <2>1, GotoRest DEF Alone
  <2> QED BY <2>1, <2>2, NoRefAt DEF Effect, Moves
<1>2. ASSUME NEW k \in WireId \cup EventId, ToolMessage(t, k) PROVE Effect(t)
  <2>1. CASE k \in DOMAIN pending
    <3>1. /\ \E at \in Steps : Enter(t, at, k, pending[k])
          /\ pending' = Without(k) /\ chain' = chain /\ failures' = failures
          /\ req[t].at \in {"idle", "chat", "loop", "hook_pop"}
      BY <1>2, <2>1, Names, ServeAssumption DEF ToolMessage, Begin, Idle
    <3>2. req[t].ref = NoRef
      BY <3>1, NoRefAt DEF Holding, WritesResult
    <3>3. pending[k] \in Ref /\ k \in Key
      BY <2>1 DEF ServeTypeOK
    <3>4. req'[t].key = k /\ req'[t].ref = pending[k] /\ Alone(t)
      <4>1. PICK at \in Steps : Enter(t, at, k, pending[k])
        BY <3>1
      <4> QED BY <3>3, <4>1 DEF Enter, ServeTypeOK, Alone
    <3> QED BY <2>1, <3>1, <3>2, <3>3, <3>4 DEF Effect, Takes
  <2>2. CASE k \notin DOMAIN pending
    <3>1. /\ \E at \in AtRest : Goto(t, at)
          /\ chain' = chain /\ pending' = pending /\ failures' = failures
          /\ req[t].at \notin Holding
      BY <1>2, <2>2 DEF ToolMessage, AtRest, Begin, Idle, Holding, WritesResult
    <3>2. req'[t].ref = NoRef /\ Alone(t)
      BY <3>1, GotoRest DEF Alone
    <3> QED BY <3>1, <3>2, NoRefAt DEF Effect, Moves
  <2> QED BY <2>1, <2>2
<1>3. ASSUME ChatOver(t) PROVE Effect(t)
  <2>1. /\ \E at \in AtRest : Goto(t, at)
        /\ chain' = chain \/ chain' = Append(chain, OfferedRecord)
        /\ pending' = pending /\ failures' = failures
        /\ req[t].at \notin Holding
    BY <1>3 DEF ChatOver, AtRest, Begin, Idle, state, Holding, WritesResult
  <2>2. req'[t].ref = NoRef /\ Alone(t)
    BY <2>1, GotoRest DEF Alone
  <2> QED BY <2>1, <2>2, NoRefAt DEF Effect, Moves
<1>4. ASSUME ReplyHasCall(t) PROVE Effect(t)
  <2>1. /\ \E at \in Steps, x \in Key \cup Span : Enter(t, at, x, NoRef)
        /\ chain' = chain /\ pending' = pending /\ failures' = failures
        /\ req[t].at \notin Holding
    BY <1>4, Names DEF ReplyHasCall, Key, Begin, Idle, state, Holding, WritesResult
  <2>2. req'[t].ref = NoRef /\ Alone(t)
    BY <2>1, AtEmpty DEF Alone
  <2> QED BY <2>1, <2>2, NoRefAt DEF Effect, Moves
<1>5. ASSUME NoCall(t) PROVE Effect(t)
  <2>1. /\ \E at \in AtRest : Goto(t, at)
        /\ chain' = chain \/ chain' = Append(chain, OfferedRecord)
        /\ pending' = pending /\ failures' = failures
        /\ req[t].at \notin Holding
    BY <1>5 DEF NoCall, AtRest, Begin, Idle, state, Holding, WritesResult
  <2>2. req'[t].ref = NoRef /\ Alone(t)
    BY <2>1, GotoRest DEF Alone
  <2> QED BY <2>1, <2>2, NoRefAt DEF Effect, Moves
<1>6. ASSUME NEW k \in EventId, EventCall(t, k) PROVE Effect(t)
  <2>0. /\ Enter(t, "event_call", k, NoRef) /\ "event_call" \in Steps /\ k \in Key \cup Span
        /\ chain' = chain /\ pending' = pending /\ failures' = failures
    BY <1>6, Names DEF EventCall, Key, state
  <2>1. /\ \E at \in Steps, x \in Key \cup Span : Enter(t, at, x, NoRef)
        /\ chain' = chain /\ pending' = pending /\ failures' = failures
        /\ req[t].at \notin Holding
    BY <1>6, <2>0 DEF EventCall, Begin, Idle, Holding, WritesResult
  <2>2. req'[t].ref = NoRef /\ Alone(t)
    BY <2>1, AtEmpty DEF Alone
  <2> QED BY <2>1, <2>2, NoRefAt DEF Effect, Moves
<1>7. ASSUME NEW k \in WireId \cup EventId, EventResult(t, k) PROVE Effect(t)
  <2>1. CASE k \in DOMAIN pending
    <3>1. /\ \E at \in Steps : Enter(t, at, k, pending[k])
          /\ pending' = Without(k) /\ chain' = chain /\ failures' = failures
          /\ req[t].at \in {"idle", "chat", "loop", "hook_pop"}
      BY <1>7, <2>1, Names, ServeAssumption DEF EventResult, Begin, Idle
    <3>2. req[t].ref = NoRef
      BY <3>1, NoRefAt DEF Holding, WritesResult
    <3>3. pending[k] \in Ref /\ k \in Key
      BY <2>1 DEF ServeTypeOK
    <3>4. req'[t].key = k /\ req'[t].ref = pending[k] /\ Alone(t)
      <4>1. PICK at \in Steps : Enter(t, at, k, pending[k])
        BY <3>1
      <4> QED BY <3>3, <4>1 DEF Enter, ServeTypeOK, Alone
    <3> QED BY <2>1, <3>1, <3>2, <3>3, <3>4 DEF Effect, Takes
  <2>2. CASE k \notin DOMAIN pending
    <3>1. /\ \E at \in AtRest : Goto(t, at)
          /\ chain' = chain /\ pending' = pending /\ failures' = failures
          /\ req[t].at \notin Holding
      BY <1>7, <2>2 DEF EventResult, AtRest, Begin, Idle, Holding, WritesResult
    <3>2. req'[t].ref = NoRef /\ Alone(t)
      BY <3>1, GotoRest DEF Alone
    <3> QED BY <3>1, <3>2, NoRefAt DEF Effect, Moves
  <2> QED BY <2>1, <2>2
<1>8. ASSUME EventRejected(t) PROVE Effect(t)
  <2>1. /\ req[t].ref # NoRef /\ req[t].key \in Key
        /\ chain' = chain /\ failures' = failures /\ Goto(t, "idle")
        /\ \/ pending' = With(req[t].key, req[t].ref)
           \/ pending' = pending /\ req[t].ref.call \in spoiled'
        /\ req[t].at # "hook_pop" /\ req[t].key # None
    BY <1>8, NoRefAt, IdAssumption DEF EventRejected, Holding, StepInv, Fits, Key
  <2>2. req'[t].ref = NoRef /\ Alone(t)
    BY <2>1, GotoRest DEF AtRest, Alone
  <2>3. req[t].key \in DOMAIN pending => req[t].key \in EventId
    BY <2>1 DEF OneKeyInv, OwnKey
  <2> QED BY <2>1, <2>2, <2>3 DEF Effect, Keeps, Drops
<1>9. ASSUME NEW k \in HookKey, NEW e \in {"Pre", "Post"}, Hook(t, k, e) PROVE Effect(t)
  <2>1. /\ \E at \in Steps, x \in Key \cup Span : Enter(t, at, x, NoRef)
        /\ chain' = chain /\ pending' = pending /\ failures' = failures
        /\ req[t].at \notin Holding
    BY <1>9, Names DEF Hook, Key, Begin, Idle, state, Holding, WritesResult
  <2>2. req'[t].ref = NoRef /\ Alone(t)
    BY <2>1, AtEmpty DEF Alone
  <2> QED BY <2>1, <2>2, NoRefAt DEF Effect, Moves
<1>10. ASSUME HookPop(t) PROVE Effect(t)
  <2> DEFINE k == req[t].key
  <2>1. CASE k \in DOMAIN pending
    <3>1. /\ \E at \in Steps : Enter(t, at, k, pending[k])
          /\ pending' = Without(k) /\ chain' = chain /\ failures' = failures
          /\ req[t].at \in {"idle", "chat", "loop", "hook_pop"}
      BY <1>10, <2>1, Names, ServeAssumption DEF HookPop, Begin, Idle
    <3>2. req[t].ref = NoRef
      BY <3>1, NoRefAt DEF Holding, WritesResult
    <3>3. pending[k] \in Ref /\ k \in Key
      BY <2>1 DEF ServeTypeOK
    <3>4. req'[t].key = k /\ req'[t].ref = pending[k] /\ Alone(t)
      <4>1. PICK at \in Steps : Enter(t, at, k, pending[k])
        BY <3>1
      <4> QED BY <3>3, <4>1 DEF Enter, ServeTypeOK, Alone
    <3> QED BY <2>1, <3>1, <3>2, <3>3, <3>4 DEF Effect, Takes
  <2>2. CASE k \notin DOMAIN pending
    <3>1. /\ \E at \in AtRest : Goto(t, at)
          /\ chain' = chain /\ pending' = pending /\ failures' = failures
          /\ req[t].at \notin Holding
      BY <1>10, <2>2 DEF HookPop, AtRest, Begin, Idle, Holding, WritesResult
    <3>2. req'[t].ref = NoRef /\ Alone(t)
      BY <3>1, GotoRest DEF Alone
    <3> QED BY <3>1, <3>2, NoRefAt DEF Effect, Moves
  <2> QED BY <2>1, <2>2
<1>11. ASSUME TraceBatch(t) PROVE Effect(t)
  <2>1. /\ \E at \in AtRest : Goto(t, at)
        /\ chain' = chain \/ chain' = Append(chain, OfferedRecord)
        /\ pending' = pending /\ failures' = failures
        /\ req[t].at \notin Holding
    BY <1>11 DEF TraceBatch, AtRest, Begin, Idle, state, Holding, WritesResult
  <2>2. req'[t].ref = NoRef /\ Alone(t)
    BY <2>1, GotoRest DEF Alone
  <2> QED BY <2>1, <2>2, NoRefAt DEF Effect, Moves
<1>12. ASSUME NEW s \in Span, ToolSpan(t, s) PROVE Effect(t)
  <2>1. /\ \E at \in Steps, x \in Key \cup Span : Enter(t, at, x, NoRef)
        /\ chain' = chain /\ pending' = pending /\ failures' = failures
        /\ req[t].at \notin Holding
    BY <1>12, Names DEF ToolSpan, Key, Begin, Idle, state, Holding, WritesResult
  <2>2. req'[t].ref = NoRef /\ Alone(t)
    BY <2>1, AtEmpty DEF Alone
  <2> QED BY <2>1, <2>2, NoRefAt DEF Effect, Moves
<1>13. ASSUME BatchOver(t) PROVE Effect(t)
  <2>1. /\ \E at \in AtRest : Goto(t, at)
        /\ chain' = chain \/ chain' = Append(chain, OfferedRecord)
        /\ pending' = pending /\ failures' = failures
        /\ req[t].at \notin Holding
    BY <1>13 DEF BatchOver, AtRest, Begin, Idle, state, Holding, WritesResult
  <2>2. req'[t].ref = NoRef /\ Alone(t)
    BY <2>1, GotoRest DEF Alone
  <2> QED BY <2>1, <2>2, NoRefAt DEF Effect, Moves
<1>14. ASSUME WriteCall(t) PROVE Effect(t)
  <2> DEFINE src == IF req[t].at = "chat_call" THEN "wire" ELSE "client"
             r == CallRecord(req[t].key, src)
             ref == RefOf(chain', src)
  <2>1. r \in Record /\ chain' = Append(chain, r) /\ r.kind = "call"
        /\ r.id = req[t].key /\ r.source = src /\ pending' = pending /\ failures' = failures
    BY <1>14, Names DEF WriteCall, CallRecord, Record, ServeTypeOK
  <2>2. ref = [call |-> Len(chain'), source |-> r.source] /\ ref \in Ref
    BY <2>1, AppendRecord, Names DEF RefOf, Ref
  <2>3. \E at \in Steps \ WritesCall : Enter(t, at, req[t].key, ref)
    BY <1>14, Names DEF WriteCall, WritesCall
  <2>4. /\ req'[t].key = req[t].key /\ req'[t].ref = ref /\ Alone(t)
        /\ req'[t].at \notin WritesCall
    <3>1. PICK at \in Steps \ WritesCall : Enter(t, at, req[t].key, ref)
      BY <2>3
    <3>2. at \in Steps /\ at \notin WritesCall /\ req[t].key \in Key \cup Span \cup {None}
      BY DEF ServeTypeOK
    <3>3. req'[t].at = at /\ req'[t].key = req[t].key /\ req'[t].ref = ref
          /\ \A u \in Thread \ {t} : req'[u] = req[u]
      BY <3>1 DEF Enter, ServeTypeOK
    <3> QED BY <3>2, <3>3 DEF Alone
  <2>5. req[t].ref = NoRef /\ req[t].at \in WritesCall
    BY <1>14, NoRefAt DEF WriteCall, WritesCall, Holding, WritesResult
  <2> HIDE DEF ref, r
  <2> QED BY <2>1, <2>2, <2>4, <2>5 DEF Effect, Records
<1>15. ASSUME Bind(t) PROVE Effect(t)
  <2>1. /\ req[t].ref # NoRef /\ req[t].key \in Key /\ req[t].key # None
        /\ req[t].at # "hook_pop"
    BY <1>15, NoRefAt, IdAssumption DEF Bind, Holding, StepInv, Fits, Key, InHook
  <2>2. pending' = With(req[t].key, req[t].ref) /\ chain' = chain /\ failures' = failures
    BY <1>15 DEF Bind, Bound
  <2>3. \E at \in Steps, x \in {None, req[t].key} : Enter(t, at, x, NoRef)
    BY <1>15, Names DEF Bind, Goto
  <2>4. req'[t].ref = NoRef /\ Alone(t)
    BY <2>1, <2>3, AtEmpty DEF Alone
  <2>5. req[t].key \in DOMAIN pending => req[t].key \in EventId
    BY <2>1 DEF OneKeyInv, OwnKey
  <2> QED BY <2>1, <2>2, <2>4, <2>5 DEF Effect, Keeps
<1>16. ASSUME WriteResult(t) PROVE Effect(t)
  <2>1. req[t].key \in Key \cup Span /\ req[t].ref # NoRef
    BY <1>16, NoRefAt DEF WriteResult, StepInv, Fits, Key, InHook, Holding, WritesResult
  <2>2. (\E at \in AtRest : Goto(t, at)) /\ pending' = pending /\ failures' = failures
        /\ chain' = Append(chain, ResultRecord(req[t].key, req[t].ref))
    BY <1>16 DEF WriteResult, AtRest
  <2>3. req'[t].ref = NoRef /\ Alone(t)
    BY <2>2, GotoRest DEF Alone
  <2> QED BY <2>1, <2>2, <2>3 DEF Effect, Answers
<1>17. ASSUME HookResult(t) PROVE Effect(t)
  <2>1. req[t].key \in Key \cup Span /\ req[t].ref # NoRef
    BY <1>17, NoRefAt DEF HookResult, StepInv, Fits, Key, InHook, Holding, WritesResult
  <2>2. (\E at \in AtRest : Goto(t, at)) /\ pending' = pending /\ failures' = failures
        /\ chain' = Append(chain, ResultRecord(req[t].key, req[t].ref))
    BY <1>17 DEF HookResult, AtRest
  <2>3. req'[t].ref = NoRef /\ Alone(t)
    BY <2>2, GotoRest DEF Alone
  <2> QED BY <2>1, <2>2, <2>3 DEF Effect, Answers
<1>18. ASSUME SpanResult(t) PROVE Effect(t)
  <2>1. req[t].key \in Key \cup Span /\ req[t].ref # NoRef
    BY <1>18, NoRefAt DEF SpanResult, StepInv, Fits, Key, InHook, Holding, WritesResult
  <2>2. (\E at \in AtRest : Goto(t, at)) /\ pending' = pending /\ failures' = failures
        /\ chain' = Append(chain, ResultRecord(req[t].key, req[t].ref))
    BY <1>18 DEF SpanResult, AtRest
  <2>3. req'[t].ref = NoRef /\ Alone(t)
    BY <2>2, GotoRest DEF Alone
  <2> QED BY <2>1, <2>2, <2>3 DEF Effect, Answers
<1>19. ASSUME WriteFails(t) PROVE Effect(t)
  <2>1. /\ \E at \in AtRest : Goto(t, at)
        /\ chain' = chain /\ pending' = pending /\ failures' = failures + 1
    BY <1>19 DEF WriteFails, AtRest
  <2>2. req'[t].ref = NoRef /\ Alone(t)
    BY <2>1, GotoRest DEF Alone
  <2>3. Drops(t)
    BY <2>1, <2>2 DEF Drops
  <2> QED BY <2>2, <2>3 DEF Effect
<1> QED
  BY <1>1, <1>2, <1>3, <1>4, <1>5, <1>6, <1>7, <1>8, <1>9, <1>10, <1>11, <1>12, <1>13,
     <1>14, <1>15, <1>16, <1>17, <1>18, <1>19 DEF Work, Requests

\* What the shutdown does: nothing is in a request's hands, the dictionary
\* stays or is cleared, and the chain stays or gets one cancellation.
LEMMA ShutdownEffects ==
    ASSUME ServeTypeOK, Stop \/ Shutdown \/ CancelFails
    PROVE  /\ Grows /\ req' = req
           /\ \A x \in DOMAIN pending' : x \in DOMAIN pending /\ pending'[x] = pending[x]
<1>1. ASSUME Stop \/ CancelPending \/ CancelFails
      PROVE  chain' = chain /\ req' = req /\ pending' = pending
  BY <1>1 DEF Stop, CancelPending, CancelFails, state
<1>2. ASSUME Closed PROVE chain' = chain /\ req' = req /\ DOMAIN pending' = {}
  BY <1>2 DEF Closed
<1>3. ASSUME NEW k \in Key, Cancel(k)
      PROVE  Grows /\ req' = req /\ pending' = pending
  <2>1. k \in DOMAIN pending /\ pending[k] \in Ref
    BY <1>3 DEF Cancel, ServeTypeOK
  <2> QED BY <1>3, <2>1, ResultIsRecord, AppendGrows DEF Cancel
<1> QED BY <1>1, <1>2, <1>3, SameGrows DEF Shutdown

\* A call stays in one place.
LEMMA HeldStep ==
    ServeTypeOK /\ StepInv /\ OneKeyInv /\ HeldInv /\ [ServeNext]_serveVars => HeldInv'
<1> SUFFICES ASSUME ServeTypeOK, StepInv, OneKeyInv, HeldInv, [ServeNext]_serveVars PROVE HeldInv'
  OBVIOUS
<1>0. CASE UNCHANGED serveVars
  BY <1>0 DEF serveVars, state, HeldInv, IsTrue, Called, NoRef
<1>1. ASSUME NEW t \in Thread, Work(t) \/ Requests(t) \/ WriteFails(t) PROVE HeldInv'
  <2>0. Effect(t)
    BY <1>1, Effects
  <2>1. CASE Moves(t)
    <3>1. Grows
      BY <2>1, SameGrows, AppendGrows, Names DEF Moves, OfferedRecord, Record
    <3> QED BY <2>0, <2>1, <3>1, HeldLess DEF Effect, Alone, Moves
  <2>2. ASSUME NEW k \in Key, Takes(t, k) PROVE HeldInv'
    BY <2>0, <2>2, HeldPop DEF Effect, Alone, Takes
  <2>3. CASE Keeps(t)
    BY <2>0, <2>3, HeldPut DEF Effect, Alone, Keeps
  <2>4. ASSUME NEW r \in Record, Records(t, r) PROVE HeldInv'
    BY <2>0, <2>4, HeldNew DEF Effect, Alone, Records
  <2>5. CASE Answers(t)
    <3>1. req[t].ref \in Ref
      BY DEF ServeTypeOK
    <3>2. Grows
      BY <2>5, <3>1, ResultIsRecord, AppendGrows DEF Answers
    <3> QED BY <2>0, <2>5, <3>2, HeldLess DEF Effect, Alone, Answers
  <2>6. CASE Drops(t)
    BY <2>0, <2>6, SameGrows, HeldLess DEF Effect, Alone, Drops
  <2> QED BY <2>0, <2>1, <2>2, <2>3, <2>4, <2>5, <2>6 DEF Effect
<1>2. ASSUME Stop \/ Shutdown \/ CancelFails PROVE HeldInv'
  BY <1>2, ShutdownEffects, HeldLess
<1> QED BY <1>0, <1>1, <1>2 DEF ServeNext

-----------------------------------------------------------------------------
(* No entry is in the way.                                                  *)

\* A thread that moves alone keeps OneKeyInv when its new key is its own.
LEMMA OneKeyAt ==
    ASSUME OneKeyInv, NEW t \in Thread,
           \A u \in Thread \ {t} : req'[u] = req[u],
           \A x : x # req[t].key /\ x # req'[t].key
                  => (x \in DOMAIN pending' <=> x \in DOMAIN pending),
           OwnKey(req'[t].key) =>
              /\ req'[t].key \in DOMAIN pending' <=> req'[t].at = "hook_pop"
              /\ \A u \in Thread \ {t} : req[u].key # req'[t].key
    PROVE  OneKeyInv'
<1>1. ASSUME NEW u \in Thread \ {t}, OwnKey(req[u].key)
      PROVE  /\ req[u].key \in DOMAIN pending' <=> req[u].at = "hook_pop"
             /\ \A v \in Thread \ {u} : req'[v].key # req[u].key
  <2>1. /\ req[u].key \in DOMAIN pending <=> req[u].at = "hook_pop"
        /\ \A v \in Thread \ {u} : req[v].key # req[u].key
    BY <1>1 DEF OneKeyInv
  <2>2. req'[t].key # req[u].key
    BY <1>1
  <2>3. req[t].key # req[u].key
    BY <2>1
  <2>4. \A v \in Thread \ {u} : req'[v].key # req[u].key
    BY <2>1, <2>2
  <2> QED BY <2>1, <2>2, <2>3, <2>4
<1>2. \A u \in Thread \ {t} : OwnKey(req'[u].key) =>
         /\ req'[u].key \in DOMAIN pending' <=> req'[u].at = "hook_pop"
         /\ \A v \in Thread \ {u} : req'[v].key # req'[u].key
  BY <1>1
<1>3. OwnKey(req'[t].key) =>
         /\ req'[t].key \in DOMAIN pending' <=> req'[t].at = "hook_pop"
         /\ \A v \in Thread \ {t} : req'[v].key # req'[t].key
  OBVIOUS
<1> QED BY <1>2, <1>3 DEF OneKeyInv, OwnKey

\* Only a thread inside an ingest has a key of that ingest.
LEMMA KeyKinds ==
    ASSUME ServeTypeOK, StepInv, NEW u \in Thread
    PROVE  /\ req[u].key \in HookKey <=> req[u].at \in InHook
           /\ req[u].key \in Span <=> req[u].at \in {"span_call", "span_result"}
           /\ req[u].key = None <=> req[u].at \in AtRest
<1>1. Fits(req[u]) /\ req[u].at \in Steps
  BY DEF StepInv, ServeTypeOK
<1>2. /\ HookKey \cap (WireId \cup EventId \cup Span \cup {None}) = {}
      /\ Span \cap (WireId \cup EventId \cup {None}) = {}
      /\ None \notin WireId \cup EventId
  BY IdAssumption DEF Key
<1> QED BY <1>1, <1>2 DEF Fits, Steps, AtRest, InHook, Holding, WritesCall, WritesResult

\* No two threads work on one key, and no entry is in its way.
LEMMA OneKeyStep ==
    ServeTypeOK /\ StepInv /\ PhaseInv /\ IngestLockInv /\ HeldInv /\ OneKeyInv
        /\ [ServeNext]_serveVars => OneKeyInv'
<1> SUFFICES ASSUME ServeTypeOK /\ StepInv /\ PhaseInv /\ IngestLockInv /\ HeldInv /\ OneKeyInv,
                    [ServeNext]_serveVars
             PROVE  OneKeyInv'
  OBVIOUS
<1>0. CASE UNCHANGED serveVars
  BY <1>0 DEF serveVars, state, OneKeyInv, OwnKey
<1>1. ASSUME NEW t \in Thread, ChatRequest(t) PROVE OneKeyInv'
  <2>1. (\E at \in AtRest : Goto(t, at)) /\ pending' = pending
    BY <1>1 DEF ChatRequest, AtRest, state
  <2>2. req'[t].key = None /\ \A u \in Thread \ {t} : req'[u] = req[u]
    BY <2>1, GotoRest
  <2> QED BY <2>1, <2>2, OneKeyAt DEF OwnKey
<1>2. ASSUME NEW t \in Thread, NEW k \in WireId \cup EventId, ToolMessage(t, k) PROVE OneKeyInv'
  <2>1. CASE k \in DOMAIN pending
    <3>1. /\ \E at \in {"chat_result"} : Enter(t, at, k, pending[k])
          /\ pending' = Without(k)
      BY <1>2, <2>1, ServeAssumption DEF ToolMessage
    <3>2. req'[t].key = k /\ req'[t].at # "hook_pop" /\ \A u \in Thread \ {t} : req'[u] = req[u]
      BY <3>1 DEF Enter, ServeTypeOK
    <3>3. k \notin DOMAIN pending' /\ \A x : x # k => (x \in DOMAIN pending' <=> x \in DOMAIN pending)
      BY <3>1, WithoutType
    <3>5. OwnKey(k) => \A u \in Thread \ {t} : req[u].key # k
      <4>1. k \notin HookKey
        BY IdAssumption
      <4> QED BY <2>1, <4>1, KeyKinds DEF OneKeyInv, InHook
    <3> QED BY <3>2, <3>3, <3>5, OneKeyAt
  <2>2. CASE k \notin DOMAIN pending
    <3>1. (\E at \in AtRest : Goto(t, at)) /\ pending' = pending
      BY <1>2, <2>2 DEF ToolMessage, AtRest
    <3>2. req'[t].key = None /\ \A u \in Thread \ {t} : req'[u] = req[u]
      BY <3>1, GotoRest
    <3> QED BY <3>1, <3>2, OneKeyAt DEF OwnKey
  <2> QED BY <2>1, <2>2
<1>3. ASSUME NEW t \in Thread, ChatOver(t) PROVE OneKeyInv'
  <2>1. (\E at \in AtRest : Goto(t, at)) /\ pending' = pending
    BY <1>3 DEF ChatOver, AtRest, state
  <2>2. req'[t].key = None /\ \A u \in Thread \ {t} : req'[u] = req[u]
    BY <2>1, GotoRest
  <2> QED BY <2>1, <2>2, OneKeyAt DEF OwnKey
<1>4. ASSUME NEW t \in Thread, ReplyHasCall(t) PROVE OneKeyInv'
  <2>1. PICK k \in WireId : /\ \A i \in DOMAIN chain : chain[i].id # k
                          /\ \A u \in Thread : req[u].key # k
                          /\ Enter(t, "chat_call", k, NoRef)
    BY <1>4 DEF ReplyHasCall
  <2>2. req'[t].key = k /\ req'[t].at = "chat_call" /\ \A u \in Thread \ {t} : req'[u] = req[u]
    BY <2>1, Names, AtEmpty DEF Key
  <2>3. k \notin DOMAIN pending
    BY <2>1 DEF HeldInv, IsTrue, Called
  <2>4. pending' = pending
    BY <1>4 DEF ReplyHasCall, state
  <2> QED BY <2>1, <2>2, <2>3, <2>4, OneKeyAt
<1>5. ASSUME NEW t \in Thread, NoCall(t) PROVE OneKeyInv'
  <2>1. (\E at \in AtRest : Goto(t, at)) /\ pending' = pending
    BY <1>5 DEF NoCall, AtRest, state
  <2>2. req'[t].key = None /\ \A u \in Thread \ {t} : req'[u] = req[u]
    BY <2>1, GotoRest
  <2> QED BY <2>1, <2>2, OneKeyAt DEF OwnKey
<1>6. ASSUME NEW t \in Thread, NEW k \in EventId, EventCall(t, k) PROVE OneKeyInv'
  <2>2. req'[t].key = k /\ req'[t].at = "event_call" /\ \A u \in Thread \ {t} : req'[u] = req[u]
    BY <1>6, Names, AtEmpty DEF EventCall, Key
  <2>3. ~OwnKey(k)
    BY DEF OwnKey
  <2>4. pending' = pending
    BY <1>6 DEF EventCall, state
  <2> QED BY <2>2, <2>3, <2>4, OneKeyAt
<1>7. ASSUME NEW t \in Thread, NEW k \in WireId \cup EventId, EventResult(t, k) PROVE OneKeyInv'
  <2>1. CASE k \in DOMAIN pending
    <3>1. /\ \E at \in {"event_result", "put_back", "bad_digest"} : Enter(t, at, k, pending[k])
          /\ pending' = Without(k)
      BY <1>7, <2>1, ServeAssumption DEF EventResult
    <3>2. req'[t].key = k /\ req'[t].at # "hook_pop" /\ \A u \in Thread \ {t} : req'[u] = req[u]
      BY <3>1 DEF Enter, ServeTypeOK
    <3>3. k \notin DOMAIN pending' /\ \A x : x # k => (x \in DOMAIN pending' <=> x \in DOMAIN pending)
      BY <3>1, WithoutType
    <3>5. OwnKey(k) => \A u \in Thread \ {t} : req[u].key # k
      <4>1. k \notin HookKey
        BY IdAssumption
      <4> QED BY <2>1, <4>1, KeyKinds DEF OneKeyInv, InHook
    <3> QED BY <3>2, <3>3, <3>5, OneKeyAt
  <2>2. CASE k \notin DOMAIN pending
    <3>1. (\E at \in AtRest : Goto(t, at)) /\ pending' = pending
      BY <1>7, <2>2 DEF EventResult, AtRest
    <3>2. req'[t].key = None /\ \A u \in Thread \ {t} : req'[u] = req[u]
      BY <3>1, GotoRest
    <3> QED BY <3>1, <3>2, OneKeyAt DEF OwnKey
  <2> QED BY <2>1, <2>2
<1>8. ASSUME NEW t \in Thread, EventRejected(t) PROVE OneKeyInv'
  <2> DEFINE k == req[t].key
  <2>1. k \in Key /\ req[t].ref \in Ref
    BY <1>8 DEF EventRejected, StepInv, Fits, Key, InHook, ServeTypeOK
  <2>2. \A x : x # k => (x \in DOMAIN pending' <=> x \in DOMAIN pending)
    BY <1>8, <2>1 DEF EventRejected, With
  <2>3. req'[t].key = None /\ \A u \in Thread \ {t} : req'[u] = req[u]
    BY <1>8, GotoRest DEF EventRejected, AtRest
  <2> QED BY <2>2, <2>3, OneKeyAt DEF OwnKey
<1>9. ASSUME NEW t \in Thread, NEW k \in HookKey, NEW e \in {"Pre", "Post"}, Hook(t, k, e) PROVE OneKeyInv'
  <2>1. PICK at \in {"hook_call", "hook_post_call", "hook_pop"} : Enter(t, at, k, NoRef)
    BY <1>9 DEF Hook
  <2>2. req'[t].key = k /\ req'[t].at = at /\ \A u \in Thread \ {t} : req'[u] = req[u]
    <3>1. at \in Steps /\ k \in Key \cup Span \cup {None}
      BY Names DEF Key
    <3> QED BY <2>1, <3>1, AtEmpty
  <2>3. k \in DOMAIN pending <=> at = "hook_pop"
    BY <1>9, <2>2, Names, AtEmpty DEF Hook, Enter, ServeTypeOK
  <2>4. \A u \in Thread : req[u].key # k
    BY <1>9, KeyKinds, IdAssumption DEF Hook, IngestLockInv, HookKey
  <2>5. pending' = pending
    BY <1>9 DEF Hook
  <2> QED BY <2>2, <2>3, <2>4, <2>5, OneKeyAt
<1>10. ASSUME NEW t \in Thread, HookPop(t) PROVE OneKeyInv'
  <2> DEFINE k == req[t].key
  <2>1. CASE k \in DOMAIN pending
    <3>1. /\ \E at \in {"hook_result"} : Enter(t, at, k, pending[k])
          /\ pending' = Without(k)
      BY <1>10, <2>1, ServeAssumption DEF HookPop
    <3>2. req'[t].key = k /\ req'[t].at # "hook_pop" /\ \A u \in Thread \ {t} : req'[u] = req[u]
      BY <3>1 DEF Enter, ServeTypeOK
    <3>3. k \notin DOMAIN pending' /\ \A x : x # k => (x \in DOMAIN pending' <=> x \in DOMAIN pending)
      BY <3>1, WithoutType
    <3>5. OwnKey(k) => \A u \in Thread \ {t} : req[u].key # k
      BY DEF OneKeyInv
    <3> QED BY <3>2, <3>3, <3>5, OneKeyAt
  <2>2. CASE k \notin DOMAIN pending
    <3>1. (\E at \in AtRest : Goto(t, at)) /\ pending' = pending
      BY <1>10, <2>2 DEF HookPop, AtRest
    <3>2. req'[t].key = None /\ \A u \in Thread \ {t} : req'[u] = req[u]
      BY <3>1, GotoRest
    <3> QED BY <3>1, <3>2, OneKeyAt DEF OwnKey
  <2> QED BY <2>1, <2>2
<1>11. ASSUME NEW t \in Thread, TraceBatch(t) PROVE OneKeyInv'
  <2>1. (\E at \in AtRest : Goto(t, at)) /\ pending' = pending
    BY <1>11 DEF TraceBatch, AtRest, state
  <2>2. req'[t].key = None /\ \A u \in Thread \ {t} : req'[u] = req[u]
    BY <2>1, GotoRest
  <2> QED BY <2>1, <2>2, OneKeyAt DEF OwnKey
<1>12. ASSUME NEW t \in Thread, NEW s \in Span, ToolSpan(t, s) PROVE OneKeyInv'
  <2>2. req'[t].key = s /\ req'[t].at = "span_call" /\ \A u \in Thread \ {t} : req'[u] = req[u]
    BY <1>12, Names, AtEmpty DEF ToolSpan
  <2>3. s \notin DOMAIN pending
    BY IdAssumption DEF ServeTypeOK
  <2>4. \A u \in Thread \ {t} : req[u].key # s
    BY <1>12, KeyKinds DEF ToolSpan, IngestLockInv, InBatch
  <2>5. pending' = pending
    BY <1>12 DEF ToolSpan, state
  <2> QED BY <2>2, <2>3, <2>4, <2>5, OneKeyAt
<1>13. ASSUME NEW t \in Thread, BatchOver(t) PROVE OneKeyInv'
  <2>1. (\E at \in AtRest : Goto(t, at)) /\ pending' = pending
    BY <1>13 DEF BatchOver, AtRest, state
  <2>2. req'[t].key = None /\ \A u \in Thread \ {t} : req'[u] = req[u]
    BY <2>1, GotoRest
  <2> QED BY <2>1, <2>2, OneKeyAt DEF OwnKey
<1>14. ASSUME NEW t \in Thread, WriteCall(t) PROVE OneKeyInv'
  <2>1. \E at \in Steps \ {"hook_pop"}, src \in Source : Enter(t, at, req[t].key, RefOf(chain', src))
    BY <1>14, Names DEF WriteCall
  <2>2. req'[t].key = req[t].key /\ req'[t].at # "hook_pop" /\ \A u \in Thread \ {t} : req'[u] = req[u]
    BY <2>1 DEF Enter, ServeTypeOK
  <2>3. pending' = pending /\ req[t].at # "hook_pop"
    BY <1>14 DEF WriteCall, WritesCall
  <2> QED BY <2>2, <2>3, OneKeyAt DEF OneKeyInv
<1>15. ASSUME NEW t \in Thread, Bind(t) PROVE OneKeyInv'
  <2> DEFINE k == req[t].key
  <2>1. k \in Key /\ req[t].ref \in Ref
    BY <1>15 DEF Bind, StepInv, Fits, Key, InHook, ServeTypeOK
  <2>2. \A x : x # k => (x \in DOMAIN pending' <=> x \in DOMAIN pending)
    BY <1>15, <2>1 DEF Bind, Bound, With
  <2>3. k \in DOMAIN pending'
    BY <1>15, <2>1, WithType DEF Bind, Bound
  <2>4. /\ \/ req'[t].key = None
           \/ req'[t].key = k /\ req'[t].at = "hook_pop"
        /\ \A u \in Thread \ {t} : req'[u] = req[u]
    BY <1>15 DEF Bind, Goto, Enter, ServeTypeOK
  <2> QED BY <2>2, <2>3, <2>4, OneKeyAt DEF OneKeyInv, OwnKey
<1>16. ASSUME NEW t \in Thread, WriteResult(t) PROVE OneKeyInv'
  <2>1. (\E at \in AtRest : Goto(t, at)) /\ pending' = pending
    BY <1>16 DEF WriteResult, AtRest, state
  <2>2. req'[t].key = None /\ \A u \in Thread \ {t} : req'[u] = req[u]
    BY <2>1, GotoRest
  <2> QED BY <2>1, <2>2, OneKeyAt DEF OwnKey
<1>17. ASSUME NEW t \in Thread, HookResult(t) PROVE OneKeyInv'
  <2>1. (\E at \in AtRest : Goto(t, at)) /\ pending' = pending
    BY <1>17 DEF HookResult, AtRest, state
  <2>2. req'[t].key = None /\ \A u \in Thread \ {t} : req'[u] = req[u]
    BY <2>1, GotoRest
  <2> QED BY <2>1, <2>2, OneKeyAt DEF OwnKey
<1>18. ASSUME NEW t \in Thread, SpanResult(t) PROVE OneKeyInv'
  <2>1. (\E at \in AtRest : Goto(t, at)) /\ pending' = pending
    BY <1>18 DEF SpanResult, AtRest, state
  <2>2. req'[t].key = None /\ \A u \in Thread \ {t} : req'[u] = req[u]
    BY <2>1, GotoRest
  <2> QED BY <2>1, <2>2, OneKeyAt DEF OwnKey
<1>19. ASSUME NEW t \in Thread, WriteFails(t) PROVE OneKeyInv'
  <2>1. (\E at \in AtRest : Goto(t, at)) /\ pending' = pending
    BY <1>19 DEF WriteFails, AtRest, state
  <2>2. req'[t].key = None /\ \A u \in Thread \ {t} : req'[u] = req[u]
    BY <2>1, GotoRest
  <2> QED BY <2>1, <2>2, OneKeyAt DEF OwnKey
<1>20. ASSUME Stop PROVE OneKeyInv'
  BY <1>20 DEF Stop, state, OneKeyInv
<1>21. ASSUME CancelPending PROVE OneKeyInv'
  BY <1>21 DEF CancelPending, state, OneKeyInv
<1>22. ASSUME NEW k \in Key, Cancel(k) PROVE OneKeyInv'
  BY <1>22 DEF Cancel, state, OneKeyInv
<1>23. ASSUME CancelFails PROVE OneKeyInv'
  BY <1>23 DEF CancelFails, state, OneKeyInv
<1>24. ASSUME Closed PROVE OneKeyInv'
  BY <1>24 DEF Closed, PhaseInv, Running, Cancelling, Idle, OneKeyInv, OwnKey
<1> QED
  BY <1>0, <1>1, <1>2, <1>3, <1>4, <1>5, <1>6, <1>7, <1>8, <1>9, <1>10, <1>11, <1>12,
     <1>13, <1>14, <1>15, <1>16, <1>17, <1>18, <1>19, <1>20, <1>21, <1>22, <1>23,
     <1>24 DEF ServeNext, Work, Requests, Shutdown

-----------------------------------------------------------------------------
(* What is held, and what is answered.                                      *)

\* How the six change the set of calls that are held: not at all,
LEMMA HeldMoves ==
    ASSUME ServeTypeOK, NEW t \in Thread, Alone(t), Moves(t)
    PROVE  Held' = Held
<1>1. \A u \in Thread : req'[u].ref = req[u].ref
  BY DEF Alone, Moves
<1> QED BY <1>1 DEF Held, Moves

\* not when a call goes from the dictionary to a thread,
LEMMA HeldTakes ==
    ASSUME ServeTypeOK, NEW t \in Thread, Alone(t), NEW k \in Key, Takes(t, k), pending[k] # NoRef
    PROVE  Held' = Held
<1>1. /\ DOMAIN pending' = DOMAIN pending \ {k} /\ k \in DOMAIN pending
      /\ \A x \in DOMAIN pending' : pending'[x] = pending[x]
  BY WithoutType DEF Takes
<1>2. \A u \in Thread \ {t} : req'[u].ref = req[u].ref
  BY DEF Alone
<1>3. req[t].ref = NoRef /\ req'[t].ref = pending[k]
  BY DEF Takes
<1>4. ASSUME NEW c \in Held PROVE c \in Held'
  BY <1>1, <1>2, <1>3, <1>4 DEF Held
<1>5. ASSUME NEW c \in Held' PROVE c \in Held
  BY <1>1, <1>2, <1>3, <1>5 DEF Held
<1> QED BY <1>4, <1>5

\* nor back, unless an entry is overwritten;
LEMMA HeldKeeps ==
    ASSUME ServeTypeOK, NEW t \in Thread, Alone(t), Keeps(t)
    PROVE  /\ Held' \subseteq Held
           /\ \A c \in Held \ Held' : /\ req[t].key \in DOMAIN pending
                                     /\ c = pending[req[t].key].call
<1> DEFINE k == req[t].key
           ref == req[t].ref
<1>1. k \in Key /\ ref \in Ref /\ ref # NoRef /\ req'[t].ref = NoRef
  BY DEF Keeps, ServeTypeOK
<1>2. /\ DOMAIN pending' = DOMAIN pending \cup {k} /\ pending'[k] = ref
      /\ \A x \in DOMAIN pending \ {k} : pending'[x] = pending[x]
  <2>1. pending' = With(k, ref)
    BY DEF Keeps
  <2> HIDE DEF k, ref
  <2> QED BY <1>1, <2>1, WithType
<1>3. \A u \in Thread \ {t} : req'[u].ref = req[u].ref
  BY DEF Alone
<1>4. ASSUME NEW c \in Held' PROVE c \in Held
  BY <1>1, <1>2, <1>3, <1>4 DEF Held
<1>5. ASSUME NEW c \in Held, ~(k \in DOMAIN pending /\ c = pending[k].call)
      PROVE  c \in Held'
  BY <1>1, <1>2, <1>3, <1>5 DEF Held
<1> QED BY <1>4, <1>5

\* a new call is held,
LEMMA HeldRecords ==
    ASSUME ServeTypeOK, NEW t \in Thread, Alone(t), NEW r \in Record, Records(t, r)
    PROVE  Held' = Held \cup {Len(chain) + 1}
<1>1. Len(chain') = Len(chain) + 1 /\ Len(chain) \in Nat
  BY AppendRecord DEF Records
<1>2. req[t].ref = NoRef /\ req'[t].ref.call = Len(chain) + 1 /\ req'[t].ref # NoRef
  BY <1>1 DEF Records, NoRef
<1>3. pending' = pending /\ \A u \in Thread \ {t} : req'[u].ref = req[u].ref
  BY DEF Alone, Records
<1> QED BY <1>2, <1>3 DEF Held

\* one that gets its result is not any more,
LEMMA HeldAnswers ==
    ASSUME ServeTypeOK, HeldInv, NEW t \in Thread, Alone(t), Answers(t)
    PROVE  /\ req[t].ref.call \in Held /\ IsTrue(req[t].key, req[t].ref)
           /\ Held' = Held \ {req[t].ref.call}
<1>1. pending' = pending /\ req[t].ref # NoRef /\ req'[t].ref = NoRef
      /\ \A u \in Thread \ {t} : req'[u].ref = req[u].ref
  BY DEF Alone, Answers
<1>2. /\ IsTrue(req[t].key, req[t].ref)
      /\ \A k \in DOMAIN pending : pending[k].call # req[t].ref.call
      /\ \A u \in Thread \ {t} : req[u].ref.call # req[t].ref.call
  BY <1>1 DEF HeldInv
<1> QED BY <1>1, <1>2 DEF Held

\* and at most one is lost.
LEMMA HeldDrops ==
    ASSUME ServeTypeOK, NEW t \in Thread, Alone(t), Drops(t)
    PROVE  Held' \subseteq Held /\ Held \subseteq Held' \cup {req[t].ref.call}
<1>1. pending' = pending /\ req'[t].ref = NoRef
      /\ \A u \in Thread \ {t} : req'[u].ref = req[u].ref
  BY DEF Alone, Drops
<1> QED BY <1>1 DEF Held

\* What the records are when there is no new one, and when there is one.
LEMMA SameChain == chain' = chain => Called' = Called /\ Results' = Results /\ Answered' = Answered
BY DEF Called, Results, Answered

\* The calls, the results and the answered calls after one more record.
LEMMA ChainGrows ==
    ASSUME ServeTypeOK, NEW r \in Record, chain' = Append(chain, r)
    PROVE  /\ Called' = Called \cup (IF r.kind = "call" THEN {Len(chain) + 1} ELSE {})
           /\ Results' = Results \cup (IF r.kind = "result" THEN {Len(chain) + 1} ELSE {})
           /\ Answered' = Answered \cup (IF r.kind = "result" THEN {r.of} ELSE {})
<1>1. /\ DOMAIN chain' = DOMAIN chain \cup {Len(chain) + 1}
      /\ \A i \in DOMAIN chain : chain'[i] = chain[i]
      /\ chain'[Len(chain) + 1] = r
      /\ Len(chain) + 1 \notin DOMAIN chain
  BY AppendRecord
<1>2. /\ Called' = Called \cup (IF r.kind = "call" THEN {Len(chain) + 1} ELSE {})
      /\ Results' = Results \cup (IF r.kind = "result" THEN {Len(chain) + 1} ELSE {})
  BY <1>1 DEF Called, Results
<1>3. \A i \in Results : chain'[i].of = chain[i].of
  BY <1>1 DEF Results
<1>4. Answered' = Answered \cup (IF r.kind = "result" THEN {r.of} ELSE {})
  <2>1. CASE r.kind = "result"
    <3>1. Results' = Results \cup {Len(chain) + 1} /\ chain'[Len(chain) + 1].of = r.of
      BY <1>1, <1>2, <2>1
    <3> QED BY <1>3, <2>1, <3>1 DEF Answered
  <2>2. CASE r.kind # "result"
    BY <1>2, <1>3, <2>2 DEF Answered
  <2> QED BY <2>1, <2>2
<1> QED BY <1>2, <1>4

\* The record of tools that were offered is neither a call nor a result.
LEMMA OfferedIsRecord == OfferedRecord \in Record /\ OfferedRecord.kind = "offered"
BY Names DEF OfferedRecord, Record

-----------------------------------------------------------------------------
(* Results belong to their calls.                                           *)

\* A new record keeps results bound, if it is no result or a true one.
LEMMA BoundGrows ==
    ASSUME ServeTypeOK, HeldInv', BoundToItsCall, NEW r \in Record, chain' = Append(chain, r),
           r.kind = "result" => IsTrue(r.id, [call |-> r.of, source |-> r.source])
    PROVE  BoundToItsCall'
<1>1. /\ DOMAIN chain = 1..Len(chain) /\ Len(chain) \in Nat
      /\ DOMAIN chain' = 1..(Len(chain) + 1)
      /\ \A i \in DOMAIN chain : chain'[i] = chain[i]
      /\ chain'[Len(chain) + 1] = r
  BY AppendRecord
<1>2. \A i \in Results' : i \in Results \/ (i = Len(chain) + 1 /\ r.kind = "result")
  BY ChainGrows
<1>3. ASSUME NEW i \in Results'
      PROVE  /\ chain'[i].of < i
             /\ chain'[i].of \in Called'
             /\ chain'[chain'[i].of].id = chain'[i].id
             /\ chain'[chain'[i].of].source = chain'[i].source
  <2>1. CASE i \in Results
    <3>1. i \in DOMAIN chain /\ chain'[i] = chain[i]
      BY <1>1, <2>1 DEF Results
    <3>2. /\ chain[i].of < i /\ chain[i].of \in Called
          /\ chain[chain[i].of].id = chain[i].id /\ chain[chain[i].of].source = chain[i].source
      BY <2>1 DEF BoundToItsCall, IsTrue
    <3>3. chain[i].of \in DOMAIN chain /\ chain[i].of \in Called'
      BY <3>2, ChainGrows DEF Called
    <3> QED BY <1>1, <3>1, <3>2, <3>3
  <2>2. CASE i = Len(chain) + 1 /\ r.kind = "result"
    <3>1. r.of \in Called /\ chain[r.of].id = r.id /\ chain[r.of].source = r.source
      BY <2>2 DEF IsTrue
    <3>2. r.of \in DOMAIN chain /\ r.of \in Called'
      BY <3>1, ChainGrows DEF Called
    <3> QED BY <1>1, <2>2, <3>1, <3>2
  <2> QED BY <1>2, <2>1, <2>2
<1>4. \A k \in DOMAIN pending' : IsTrue(k, pending[k])'
  BY DEF HeldInv
<1> QED BY <1>3, <1>4 DEF BoundToItsCall, IsTrue

\* No new record keeps them bound.
LEMMA BoundSame ==
    ASSUME HeldInv', BoundToItsCall, chain' = chain
    PROVE  BoundToItsCall'
<1>1. \A k \in DOMAIN pending' : IsTrue(k, pending[k])'
  BY DEF HeldInv
<1> QED BY <1>1 DEF BoundToItsCall, IsTrue, Results, Called

\* The result for a true reference is a true one.
LEMMA TrueResult ==
    ASSUME ServeTypeOK, NEW k \in Key \cup Span, NEW ref \in Ref, IsTrue(k, ref)
    PROVE  /\ ResultRecord(k, ref) \in Record /\ ResultRecord(k, ref).kind = "result"
           /\ ResultRecord(k, ref).of = ref.call
           /\ IsTrue(ResultRecord(k, ref).id,
                     [call |-> ResultRecord(k, ref).of, source |-> ResultRecord(k, ref).source])
<1>1. ResultRecord(k, ref) \in Record
  BY ResultIsRecord
<1> QED BY <1>1 DEF ResultRecord, IsTrue

\* Every step keeps results bound to their calls.
LEMMA BoundStep ==
    /\ ServeTypeOK /\ StepInv /\ OneKeyInv /\ HeldInv /\ HeldInv' /\ BoundToItsCall
    /\ [ServeNext]_serveVars
    => BoundToItsCall'
<1> SUFFICES ASSUME ServeTypeOK, StepInv, OneKeyInv, HeldInv, HeldInv', BoundToItsCall,
                    [ServeNext]_serveVars
             PROVE  BoundToItsCall'
  OBVIOUS
<1>0. CASE UNCHANGED serveVars
  BY <1>0, BoundSame DEF serveVars, state
<1>1. ASSUME NEW t \in Thread, Work(t) \/ Requests(t) \/ WriteFails(t)
      PROVE  BoundToItsCall'
  <2>0. Effect(t)
    BY <1>1, Effects
  <2>1. CASE chain' = chain
    BY <2>1, BoundSame
  <2>2. CASE Moves(t) /\ chain' # chain
    <3>1. chain' = Append(chain, OfferedRecord)
      BY <2>2 DEF Moves
    <3> QED BY <3>1, OfferedIsRecord, BoundGrows
  <2>3. ASSUME NEW r \in Record, Records(t, r) PROVE BoundToItsCall'
    BY <2>3, BoundGrows DEF Records
  <2>4. CASE Answers(t)
    <3>1. /\ req[t].key \in Key \cup Span /\ req[t].ref \in Ref
          /\ IsTrue(req[t].key, req[t].ref)
      BY <2>0, <2>4, HeldAnswers DEF ServeTypeOK, Answers, Effect
    <3>2. chain' = Append(chain, ResultRecord(req[t].key, req[t].ref))
      BY <2>4 DEF Answers
    <3> QED BY <3>1, <3>2, TrueResult, BoundGrows
  <2> QED BY <2>0, <2>1, <2>2, <2>3, <2>4 DEF Effect, Takes, Keeps, Drops
<1>2. ASSUME Stop \/ CancelPending \/ CancelFails \/ Closed PROVE BoundToItsCall'
  BY <1>2, BoundSame DEF Stop, CancelPending, CancelFails, Closed, state
<1>3. ASSUME NEW k \in Key, Cancel(k) PROVE BoundToItsCall'
  <2>1. k \in DOMAIN pending /\ pending[k] \in Ref /\ IsTrue(k, pending[k])
    BY <1>3 DEF Cancel, ServeTypeOK, HeldInv
  <2>2. chain' = Append(chain, ResultRecord(k, pending[k]))
    BY <1>3 DEF Cancel
  <2> QED BY <2>1, <2>2, TrueResult, BoundGrows
<1> QED BY <1>0, <1>1, <1>2, <1>3 DEF ServeNext, Shutdown

-----------------------------------------------------------------------------
(* What is held has no result.                                              *)

\* Every step keeps what is held without a result.
LEMMA OpenStep ==
    /\ ServeTypeOK /\ StepInv /\ PhaseInv /\ OneKeyInv /\ HeldInv /\ BoundToItsCall /\ OpenInv
    /\ [ServeNext]_serveVars
    => OpenInv'
<1> SUFFICES ASSUME ServeTypeOK, StepInv, PhaseInv, OneKeyInv, HeldInv, BoundToItsCall, OpenInv,
                    [ServeNext]_serveVars
             PROVE  OpenInv'
  OBVIOUS
<1>a. Answered \subseteq Called /\ Called \subseteq DOMAIN chain
  BY DEF Answered, BoundToItsCall, IsTrue, Called
<1>b. \A k \in DOMAIN pending : pending[k].call \in Held
  BY DEF Held
<1>c. \A k, x \in DOMAIN pending : pending[k].call = pending[x].call => k = x
  BY DEF HeldInv, IsTrue
<1>0. CASE UNCHANGED serveVars
  BY <1>0 DEF serveVars, state, OpenInv, Running, Cancelling, Held, Answered, Results
<1>1. ASSUME NEW t \in Thread, Work(t) \/ Requests(t) \/ WriteFails(t)
      PROVE  OpenInv'
  <2>0. Effect(t) /\ Running /\ ~Cancelling'
    BY <1>1, Effects, Working
  <2>1. Held \cap Answered = {} /\ Alone(t)
    BY <2>0 DEF OpenInv, Effect
  <2>2. CASE Moves(t)
    <3>1. Answered' = Answered
      BY <2>2, SameChain, ChainGrows, OfferedIsRecord DEF Moves
    <3> QED BY <2>0, <2>1, <2>2, <3>1, HeldMoves DEF OpenInv
  <2>3. ASSUME NEW k \in Key, Takes(t, k) PROVE OpenInv'
    <3>1. pending[k] # NoRef /\ Answered' = Answered
      BY <2>3, TrueRef, SameChain DEF HeldInv, Takes
    <3> QED BY <2>0, <2>1, <2>3, <3>1, HeldTakes DEF OpenInv
  <2>4. CASE Keeps(t)
    <3>1. Answered' = Answered /\ Held' \subseteq Held
      BY <2>1, <2>4, SameChain, HeldKeeps DEF Keeps
    <3> QED BY <2>0, <2>1, <3>1 DEF OpenInv
  <2>5. ASSUME NEW r \in Record, Records(t, r) PROVE OpenInv'
    <3>1. Answered' = Answered /\ Held' = Held \cup {Len(chain) + 1}
      BY <2>1, <2>5, ChainGrows, HeldRecords DEF Records
    <3>2. Len(chain) + 1 \notin Answered
      BY <1>a DEF ServeTypeOK
    <3> QED BY <2>0, <2>1, <3>1, <3>2 DEF OpenInv
  <2>6. CASE Answers(t)
    <3>1. /\ req[t].key \in Key \cup Span /\ req[t].ref \in Ref
          /\ IsTrue(req[t].key, req[t].ref) /\ Held' = Held \ {req[t].ref.call}
      BY <2>1, <2>6, HeldAnswers DEF ServeTypeOK, Answers
    <3>2. Answered' = Answered \cup {req[t].ref.call}
      BY <2>6, <3>1, TrueResult, ChainGrows DEF Answers
    <3> QED BY <2>0, <2>1, <3>1, <3>2 DEF OpenInv
  <2>7. CASE Drops(t)
    <3>1. Answered' = Answered /\ Held' \subseteq Held
      BY <2>1, <2>7, SameChain, HeldDrops DEF Drops
    <3> QED BY <2>0, <2>1, <3>1 DEF OpenInv
  <2> QED BY <2>0, <2>2, <2>3, <2>4, <2>5, <2>6, <2>7 DEF Effect
<1>2. CASE Stop
  BY <1>2 DEF Stop, state, OpenInv, Running, Cancelling, Held, Answered, Results
<1>3. CASE CancelPending
  <2>1. /\ Held \cap Answered = {} /\ todo' = DOMAIN pending /\ pending' = pending
        /\ Answered' = Answered /\ ~Running'
    BY <1>3, SameChain DEF CancelPending, Waiting, state, OpenInv, Running
  <2> QED BY <1>b, <2>1 DEF OpenInv
<1>4. ASSUME NEW k \in Key, Cancel(k) PROVE OpenInv'
  <2>1. /\ k \in DOMAIN pending /\ pending[k] \in Ref /\ IsTrue(k, pending[k])
        /\ k \in todo /\ todo' = todo \ {k} /\ pending' = pending
        /\ phase' = phase /\ ~Running' /\ Cancelling
        /\ chain' = Append(chain, ResultRecord(k, pending[k]))
    BY <1>4 DEF Cancel, ServeTypeOK, HeldInv, Running, Cancelling
  <2>2. Answered' = Answered \cup {pending[k].call}
    <3> DEFINE r == ResultRecord(k, pending[k])
    <3>1. r \in Record /\ r.kind = "result" /\ r.of = pending[k].call
      BY <2>1, TrueResult
    <3>2. chain' = Append(chain, r)
      BY <2>1
    <3> HIDE DEF r
    <3> QED BY <3>1, <3>2, ChainGrows
  <2>3. ASSUME NEW x \in DOMAIN pending \ todo' PROVE pending[x].call \in Answered'
    BY <2>1, <2>2, <2>3 DEF OpenInv
  <2>4. ASSUME "cancel_fails" \notin Careless, NEW x \in todo'
        PROVE  pending[x].call \notin Answered'
    <3>1. x \in todo /\ x \in DOMAIN pending /\ x # k
      BY <2>1 DEF ServeTypeOK
    <3> QED BY <1>c, <2>1, <2>2, <2>4, <3>1 DEF OpenInv
  <2> QED BY <2>1, <2>3, <2>4 DEF OpenInv
<1>5. CASE CancelFails
  <2>1. /\ pending' = pending /\ Answered' = Answered /\ ~Running' /\ Cancelling
        /\ Cancelling' => todo' = DOMAIN pending
        /\ todo = DOMAIN pending \/ "cancel_fails" \in Careless
    BY <1>5, SameChain DEF CancelFails, Waiting, state, Running, Cancelling
  <2> QED BY <2>1 DEF OpenInv
<1>6. CASE Closed
  BY <1>6 DEF Closed, OpenInv, Running, Cancelling
<1> QED BY <1>0, <1>1, <1>2, <1>3, <1>4, <1>5, <1>6 DEF ServeNext, Shutdown

-----------------------------------------------------------------------------
(* A call is lost only with a record that failed.                           *)

\* The lost calls are finitely many.
LEMMA OrphansFinite ==
    ASSUME ServeTypeOK PROVE IsFiniteSet(Orphans) /\ Cardinality(Orphans) \in Nat
<1>1. Orphans \subseteq 1..Len(chain) /\ Len(chain) \in Nat
  BY DEF Orphans, Called, ServeTypeOK
<1>2. IsFiniteSet(1..Len(chain))
  BY <1>1, FS_Interval
<1>3. IsFiniteSet(Orphans)
  BY <1>1, <1>2, FS_Subset
<1> QED BY <1>3, FS_CardinalityType

\* They may become fewer,
LEMMA OrphansLess ==
    ASSUME ServeTypeOK, OrphanInv, failures' = failures \/ failures' = failures + 1,
           Orphans' \subseteq Orphans
    PROVE  OrphanInv'
<1>1. Cardinality(Orphans') <= Cardinality(Orphans) /\ Cardinality(Orphans') \in Nat
      /\ Cardinality(Orphans) \in Nat
  BY OrphansFinite, FS_Subset, FS_CardinalityType
<1>2. Cardinality(Orphans) <= failures /\ failures \in Nat
  BY ServeAssumption DEF OrphanInv, ServeTypeOK
<1> QED BY <1>1, <1>2 DEF OrphanInv

\* or one more with a failure.
LEMMA OrphansMore ==
    ASSUME ServeTypeOK, OrphanInv, failures' = failures + 1,
           NEW c, Orphans' \subseteq Orphans \cup {c}
    PROVE  OrphanInv'
<1>a. IsFiniteSet(Orphans) /\ Cardinality(Orphans) \in Nat
  BY OrphansFinite
<1>b. /\ IsFiniteSet(Orphans \cup {c})
      /\ Cardinality(Orphans \cup {c})
            = IF c \in Orphans THEN Cardinality(Orphans) ELSE Cardinality(Orphans) + 1
  BY <1>a, FS_AddElement
<1>1. /\ IsFiniteSet(Orphans \cup {c}) /\ Cardinality(Orphans) \in Nat
      /\ Cardinality(Orphans \cup {c}) <= Cardinality(Orphans) + 1
      /\ Cardinality(Orphans \cup {c}) \in Nat
  BY <1>a, <1>b
<1>2. IsFiniteSet(Orphans') /\ Cardinality(Orphans') <= Cardinality(Orphans \cup {c})
  BY <1>1, FS_Subset
<1>4. Cardinality(Orphans') \in Nat
  BY <1>2, FS_CardinalityType
<1>3. Cardinality(Orphans) <= failures /\ failures \in Nat
  BY ServeAssumption DEF OrphanInv, ServeTypeOK
<1> QED BY <1>1, <1>2, <1>3, <1>4 DEF OrphanInv

\* Memories only forget more, bad digests stay, and failures only add up.
LEMMA Monotone ==
    ASSUME ServeTypeOK, [ServeNext]_serveVars
    PROVE  /\ forgotten \subseteq forgotten'
           /\ spoiled \subseteq spoiled'
           /\ failures' = failures \/ failures' = failures + 1
<1>1. CASE UNCHANGED serveVars
  BY <1>1 DEF serveVars
<1>2. ASSUME NEW t \in Thread, Work(t)
      PROVE  /\ forgotten \subseteq forgotten' /\ spoiled \subseteq spoiled'
             /\ failures' = failures
  BY <1>2 DEF Work, ChatOver, NoCall, ReplyHasCall, EventRejected, HookPop, BatchOver,
              WriteCall, Bind, WriteResult, HookResult, SpanResult
<1>3. ASSUME NEW t \in Thread, Requests(t)
      PROVE  /\ forgotten \subseteq forgotten' /\ spoiled \subseteq spoiled'
             /\ failures' = failures
  BY <1>3 DEF Requests, ChatRequest, TraceBatch, ToolMessage, EventResult, EventCall, Hook,
              ToolSpan
<1>4. ASSUME NEW t \in Thread, WriteFails(t)
      PROVE  /\ forgotten \subseteq forgotten' /\ spoiled \subseteq spoiled'
             /\ failures' = failures + 1
  BY <1>4 DEF WriteFails
<1>5. CASE Stop \/ Shutdown \/ CancelFails
  BY <1>5 DEF Stop, Shutdown, CancelPending, Closed, Cancel, CancelFails
<1> QED BY <1>1, <1>2, <1>3, <1>4, <1>5 DEF ServeNext

\* Called that share an id go on sharing it.
LEMMA SharesMore ==
    ASSUME Called \subseteq Called', Grows PROVE SharesItsId \subseteq SharesItsId'
<1> SUFFICES ASSUME NEW i \in SharesItsId PROVE i \in SharesItsId'
  OBVIOUS
<1>1. PICK j \in Called \ {i} : chain[j].id = chain[i].id
  BY DEF SharesItsId
<1>2. /\ i \in Called' /\ chain[i].id \in EventId
      /\ chain'[i] = chain[i] /\ chain'[j] = chain[j] /\ j \in Called' \ {i}
  BY <1>1 DEF SharesItsId, Grows, Called
<1> QED BY <1>1, <1>2 DEF SharesItsId

\* A call is newly lost only when it is not held any more.
LEMMA OrphansOf ==
    ASSUME Called \subseteq Called', Answered \subseteq Answered', Grows,
           spoiled \subseteq spoiled', NEW c \in Called, c \in Orphans'
    PROVE  /\ c \in Orphans \/ c \in Held \ Held'
           /\ c \notin Answered' \cup spoiled' \cup SharesItsId'
BY SharesMore DEF Orphans

\* Every step keeps them to the number of failures.
LEMMA OrphanStep ==
    /\ ServeTypeOK /\ StepInv /\ PhaseInv /\ OneKeyInv /\ HeldInv /\ OpenInv /\ OrphanInv
    /\ [ServeNext]_serveVars
    => OrphanInv'
<1> SUFFICES ASSUME ServeTypeOK, StepInv, PhaseInv, OneKeyInv, HeldInv, OpenInv, OrphanInv,
                    [ServeNext]_serveVars
             PROVE  OrphanInv'
  OBVIOUS
<1>a. spoiled \subseteq spoiled'
  BY Monotone
<1>0. CASE UNCHANGED serveVars
  <2>1. Orphans' = Orphans /\ failures' = failures
    BY <1>0 DEF serveVars, state, Orphans, SharesItsId, Held, Called, Answered, Results
  <2> QED BY <2>1, OrphansLess
<1>1. ASSUME NEW t \in Thread, Work(t) \/ Requests(t) \/ WriteFails(t)
      PROVE  OrphanInv'
  <2>0. Effect(t) /\ Alone(t)
    BY <1>1, Effects DEF Effect
  <2>1. CASE Moves(t)
    <3>1. Called' = Called /\ Answered' = Answered /\ Grows
      BY <2>1, SameChain, ChainGrows, OfferedIsRecord, SameGrows, AppendGrows DEF Moves
    <3>2. Held' = Held /\ failures' = failures
      BY <2>0, <2>1, HeldMoves DEF Moves
    <3>3. Orphans' \subseteq Orphans
      BY <1>a, <3>1, <3>2, OrphansOf DEF Orphans
    <3> QED BY <3>2, <3>3, OrphansLess
  <2>2. ASSUME NEW k \in Key, Takes(t, k) PROVE OrphanInv'
    <3>1. pending[k] # NoRef /\ Called' = Called /\ Answered' = Answered /\ Grows
      BY <2>2, TrueRef, SameChain, SameGrows DEF HeldInv, Takes
    <3>2. Held' = Held /\ failures' = failures
      BY <2>0, <2>2, <3>1, HeldTakes DEF Takes
    <3>3. Orphans' \subseteq Orphans
      BY <1>a, <3>1, <3>2, OrphansOf DEF Orphans
    <3> QED BY <3>2, <3>3, OrphansLess
  <2>3. CASE Keeps(t)
    <3>1. Called' = Called /\ Answered' = Answered /\ failures' = failures /\ Grows
      BY <2>3, SameChain, SameGrows DEF Keeps
    <3>2. ASSUME NEW c \in Held \ Held' PROVE c \in SharesItsId'
      <4> DEFINE k == req[t].key
      <4>1. k \in DOMAIN pending /\ k \in EventId /\ c = pending[k].call
        BY <2>0, <2>3, <3>2, HeldKeeps DEF Keeps
      <4>2. IsTrue(k, pending[k]) /\ IsTrue(k, req[t].ref) /\ c # req[t].ref.call
        BY <2>3, <4>1 DEF Keeps, HeldInv
      <4>3. c \in SharesItsId
        BY <4>1, <4>2 DEF IsTrue, SharesItsId
      <4> QED BY <3>1, <4>3, SharesMore
    <3>3. Orphans' \subseteq Orphans
      BY <1>a, <3>1, <3>2, OrphansOf DEF Orphans
    <3> QED BY <3>1, <3>3, OrphansLess
  <2>4. ASSUME NEW r \in Record, Records(t, r) PROVE OrphanInv'
    <3>1. Called' = Called \cup {Len(chain) + 1} /\ Answered' = Answered /\ Grows
      BY <2>4, ChainGrows, AppendGrows DEF Records
    <3>2. Held' = Held \cup {Len(chain) + 1} /\ failures' = failures
      BY <2>0, <2>4, HeldRecords DEF Records
    <3>3. ASSUME NEW c \in Orphans' PROVE c \in Orphans
      <4>1. c \in Called
        BY <3>1, <3>2, <3>3 DEF Orphans
      <4> QED BY <1>a, <3>1, <3>2, <3>3, <4>1, OrphansOf
    <3> QED BY <3>2, <3>3, OrphansLess
  <2>5. CASE Answers(t)
    <3>1. /\ req[t].key \in Key \cup Span /\ req[t].ref \in Ref
          /\ IsTrue(req[t].key, req[t].ref) /\ Held' = Held \ {req[t].ref.call}
      BY <2>0, <2>5, HeldAnswers DEF ServeTypeOK, Answers
    <3>2. Answered' = Answered \cup {req[t].ref.call} /\ Called' = Called /\ Grows
      <4> DEFINE r == ResultRecord(req[t].key, req[t].ref)
      <4>1. r \in Record /\ r.kind = "result" /\ r.of = req[t].ref.call
        BY <3>1, TrueResult
      <4>2. chain' = Append(chain, r)
        BY <2>5 DEF Answers
      <4> HIDE DEF r
      <4> QED BY <4>1, <4>2, ChainGrows, AppendGrows
    <3>3. failures' = failures
      BY <2>5 DEF Answers
    <3>4. Orphans' \subseteq Orphans
      BY <1>a, <3>1, <3>2, OrphansOf DEF Orphans
    <3> QED BY <3>3, <3>4, OrphansLess
  <2>6. CASE Drops(t)
    <3>1. Called' = Called /\ Answered' = Answered /\ Grows
      BY <2>6, SameChain, SameGrows DEF Drops
    <3>2. Held \subseteq Held' \cup {req[t].ref.call}
      BY <2>0, <2>6, HeldDrops
    <3>3. Orphans' \subseteq Orphans \cup {req[t].ref.call}
      BY <1>a, <3>1, <3>2, OrphansOf DEF Orphans
    <3>4. CASE failures' = failures + 1
      BY <3>3, <3>4, OrphansMore
    <3>5. CASE failures' = failures /\ req[t].ref.call \in spoiled'
      <4>1. Orphans' \subseteq Orphans
        BY <3>3, <3>5 DEF Orphans
      <4> QED BY <3>5, <4>1, OrphansLess
    <3> QED BY <2>6, <3>4, <3>5 DEF Drops
  <2> QED BY <2>0, <2>1, <2>2, <2>3, <2>4, <2>5, <2>6 DEF Effect
<1>2. CASE Stop \/ CancelPending \/ CancelFails
  <2>1. /\ chain' = chain /\ req' = req /\ pending' = pending
        /\ failures' = failures \/ failures' = failures + 1
    BY <1>2 DEF Stop, CancelPending, CancelFails, state
  <2>2. Held' = Held
    BY <2>1 DEF Held
  <2>3. Orphans' \subseteq Orphans
    BY <1>a, <2>1, <2>2, SameChain, SameGrows, OrphansOf DEF Orphans
  <2> QED BY <2>1, <2>3, OrphansLess
<1>3. ASSUME NEW k \in Key, Cancel(k) PROVE OrphanInv'
  <2> DEFINE r == ResultRecord(k, pending[k])
  <2>1. r \in Record /\ r.kind = "result"
    BY <1>3, TrueResult DEF Cancel, ServeTypeOK, HeldInv
  <2>2. /\ chain' = Append(chain, r) /\ pending' = pending /\ req' = req
        /\ failures' = failures
    BY <1>3 DEF Cancel
  <2> HIDE DEF r
  <2>3. Called' = Called /\ Answered \subseteq Answered' /\ Grows
    BY <2>1, <2>2, ChainGrows, AppendGrows
  <2>4. Held' = Held
    BY <2>2 DEF Held
  <2>5. Orphans' \subseteq Orphans
    BY <1>a, <2>3, <2>4, OrphansOf DEF Orphans
  <2> QED BY <2>2, <2>5, OrphansLess
<1>4. CASE Closed
  <2>1. /\ Cancelling /\ todo = {} /\ chain' = chain /\ failures' = failures
        /\ \A t \in Thread : req[t].ref = NoRef
    BY <1>4 DEF Closed, Cancelling, Running, PhaseInv, Idle
  <2>2. Held \subseteq Answered
    BY <2>1 DEF Held, OpenInv
  <2>3. Orphans' \subseteq Orphans
    BY <1>a, <2>1, <2>2, SameChain, SameGrows, OrphansOf DEF Orphans
  <2> QED BY <2>1, <2>3, OrphansLess
<1> QED BY <1>0, <1>1, <1>2, <1>3, <1>4 DEF ServeNext, Shutdown

-----------------------------------------------------------------------------
(* One pair for a delivery.                                                 *)

\* What a client may deliver twice.
Delivered == HookKey \cup Span
OldCalls == \A i \in Called' : i \in Called /\ chain'[i] = chain[i]

\* Without a new call, the calls are the old ones.
LEMMA NoNewCall ==
    ASSUME ServeTypeOK, \/ chain' = chain
                        \/ \E r \in Record : r.kind # "call" /\ chain' = Append(chain, r)
    PROVE  OldCalls
<1>1. CASE chain' = chain
  BY <1>1 DEF OldCalls, Called
<1>2. ASSUME NEW r \in Record, r.kind # "call", chain' = Append(chain, r) PROVE OldCalls
  BY <1>2, ChainGrows, AppendRecord DEF OldCalls, Called
<1> QED BY <1>1, <1>2

\* What is known of a delivery, when nothing about it changes but what one
\* thread does.
LEMMA DeliveryFrame ==
    ASSUME DeliveryInv, Running, failures' = failures, OldCalls,
           forgotten \subseteq forgotten',
           \A x \in Delivered : Accounted(x) => Accounted(x)',
           \A u \in Thread :
              /\ req'[u].at \in WritesCall /\ req'[u].key \in Delivered
              /\ Accounted(req'[u].key)
              => \/ req'[u].key \in forgotten'
                 \/ req[u].key = req'[u].key /\ req[u].at \in WritesCall
    PROVE  DeliveryInv'
<1> SUFFICES ASSUME failures = 0, NEW i \in Called', chain'[i].id \in HookKey \cup Span
             PROVE  /\ Accounted(chain[i].id)'
                    /\ \A t \in Thread : req'[t].key = chain'[i].id /\ req'[t].at \in WritesCall
                          => chain'[i].id \in forgotten'
  BY DEF DeliveryInv
<1>1. i \in Called /\ chain'[i] = chain[i]
  BY DEF OldCalls
<1>2. /\ Accounted(chain[i].id) /\ chain[i].id \in Delivered
      /\ \A t \in Thread : req[t].key = chain[i].id /\ req[t].at \in WritesCall
            => chain[i].id \in forgotten
  BY <1>1 DEF DeliveryInv, Delivered
<1>3. Accounted(chain[i].id)'
  BY <1>1, <1>2
<1> QED BY <1>1, <1>2, <1>3

\* Steps of the other routes.
LEMMA DeliveryElsewhere ==
    ASSUME DeliveryInv, Running, failures' = failures, OldCalls,
           UNCHANGED <<closed, seen, forgotten>>, NEW t \in Thread, Alone(t),
           req[t].key \notin Delivered, req'[t].key \notin Delivered,
           \A x \in Delivered : x \in DOMAIN pending => x \in DOMAIN pending'
    PROVE  DeliveryInv'
<1>1. ASSUME NEW x \in Delivered, Accounted(x) PROVE Accounted(x)'
  BY <1>1 DEF Accounted, Alone
<1>2. \A u \in Thread : req'[u].key \in Delivered => req'[u] = req[u]
  BY DEF Alone
<1> QED BY <1>1, <1>2, DeliveryFrame

\* Ids of different kinds differ.
LEMMA Kinds ==
    /\ Delivered \cap (WireId \cup EventId \cup {None}) = {}
    /\ HookKey \cap Span = {} /\ HookKey \subseteq Key
    /\ ServeTypeOK => /\ DOMAIN pending \cap Span = {}
                      /\ ToSet(seen) \subseteq Span
                      /\ \A c \in Client : ToSet(closed[c]) \subseteq HookKey
<1>1. /\ Delivered \cap (WireId \cup EventId \cup {None}) = {}
      /\ HookKey \cap Span = {} /\ HookKey \subseteq Key
  BY IdAssumption DEF Delivered, Key
<1>2. ASSUME ServeTypeOK
      PROVE  /\ DOMAIN pending \cap Span = {}
             /\ ToSet(seen) \subseteq Span
             /\ \A c \in Client : ToSet(closed[c]) \subseteq HookKey
  BY <1>2, IdAssumption DEF ServeTypeOK, ToSet
<1> QED BY <1>1, <1>2

\* Every step keeps account of what was delivered.
LEMMA DeliveryStep ==
    /\ ServeTypeOK /\ StepInv /\ PhaseInv /\ IngestLockInv /\ OneKeyInv /\ DeliveryInv
    /\ [ServeNext]_serveVars
    => DeliveryInv'
<1> SUFFICES ASSUME ServeTypeOK, StepInv, PhaseInv, IngestLockInv, OneKeyInv, DeliveryInv, [ServeNext]_serveVars
             PROVE  DeliveryInv'
  OBVIOUS
<1>0. CASE UNCHANGED serveVars
  BY <1>0 DEF serveVars, state, DeliveryInv, Accounted, Running, Called
<1>1. ASSUME NEW t \in Thread, ChatRequest(t) PROVE DeliveryInv'
  <2>1. /\ \E at \in AtRest : Goto(t, at)
        /\ chain' = chain /\ pending' = pending
        /\ UNCHANGED <<closed, seen, forgotten, failures>>
        /\ req[t].at \in AtRest
    BY <1>1 DEF ChatRequest, AtRest, Begin, Idle, state
  <2>2. req'[t].key = None /\ Alone(t)
    BY <2>1, GotoRest DEF Alone
  <2>3. req[t].key = None /\ OldCalls
    BY <2>1, KeyKinds, NoNewCall
  <2>4. Running
    BY <1>1, Working DEF Work, Requests
  <2> QED BY <2>1, <2>2, <2>3, <2>4, Kinds, DeliveryElsewhere
<1>3. ASSUME NEW t \in Thread, ChatOver(t) PROVE DeliveryInv'
  <2>1. /\ \E at \in AtRest : Goto(t, at)
        /\ chain' = chain /\ pending' = pending
        /\ UNCHANGED <<closed, seen, forgotten, failures>>
        /\ req[t].at \in AtRest
    BY <1>3 DEF ChatOver, AtRest, Begin, Idle, state
  <2>2. req'[t].key = None /\ Alone(t)
    BY <2>1, GotoRest DEF Alone
  <2>3. req[t].key = None /\ OldCalls
    BY <2>1, KeyKinds, NoNewCall
  <2>4. Running
    BY <1>3, Working DEF Work, Requests
  <2> QED BY <2>1, <2>2, <2>3, <2>4, Kinds, DeliveryElsewhere
<1>11. ASSUME NEW t \in Thread, TraceBatch(t) PROVE DeliveryInv'
  <2>1. /\ \E at \in AtRest : Goto(t, at)
        /\ chain' = chain /\ pending' = pending
        /\ UNCHANGED <<closed, seen, forgotten, failures>>
        /\ req[t].at \in AtRest
    BY <1>11 DEF TraceBatch, AtRest, Begin, Idle, state
  <2>2. req'[t].key = None /\ Alone(t)
    BY <2>1, GotoRest DEF Alone
  <2>3. req[t].key = None /\ OldCalls
    BY <2>1, KeyKinds, NoNewCall
  <2>4. Running
    BY <1>11, Working DEF Work, Requests
  <2> QED BY <2>1, <2>2, <2>3, <2>4, Kinds, DeliveryElsewhere
<1>13. ASSUME NEW t \in Thread, BatchOver(t) PROVE DeliveryInv'
  <2>1. /\ \E at \in AtRest : Goto(t, at)
        /\ chain' = chain /\ pending' = pending
        /\ UNCHANGED <<closed, seen, forgotten, failures>>
        /\ req[t].at \in AtRest
    BY <1>13 DEF BatchOver, AtRest, Begin, Idle, state
  <2>2. req'[t].key = None /\ Alone(t)
    BY <2>1, GotoRest DEF Alone
  <2>3. req[t].key = None /\ OldCalls
    BY <2>1, KeyKinds, NoNewCall
  <2>4. Running
    BY <1>13, Working DEF Work, Requests
  <2> QED BY <2>1, <2>2, <2>3, <2>4, Kinds, DeliveryElsewhere
<1>2. ASSUME NEW t \in Thread, NEW k \in WireId \cup EventId, ToolMessage(t, k) PROVE DeliveryInv'
  <2>1. /\ chain' = chain /\ pending' \in {pending, Without(k)}
        /\ UNCHANGED <<closed, seen, forgotten, failures>>
        /\ req[t].at \in AtRest
    BY <1>2 DEF ToolMessage, AtRest, Begin, Idle
  <2>2. req'[t].key \in {k, None} /\ Alone(t)
    BY <1>2 DEF ToolMessage, Alone, Goto, Enter, ServeTypeOK
  <2>3. req[t].key = None /\ OldCalls
    BY <2>1, KeyKinds, NoNewCall
  <2>4. Running
    BY <1>2, Working DEF Work, Requests
  <2>5. \A x \in Delivered : x \in DOMAIN pending => x \in DOMAIN pending'
    BY <2>1, WithoutType, Kinds
  <2> QED BY <2>1, <2>2, <2>3, <2>4, <2>5, Kinds, DeliveryElsewhere
<1>7. ASSUME NEW t \in Thread, NEW k \in WireId \cup EventId, EventResult(t, k) PROVE DeliveryInv'
  <2>1. /\ chain' = chain /\ pending' \in {pending, Without(k)}
        /\ UNCHANGED <<closed, seen, forgotten, failures>>
        /\ req[t].at \in AtRest
    BY <1>7 DEF EventResult, AtRest, Begin, Idle
  <2>2. req'[t].key \in {k, None} /\ Alone(t)
    BY <1>7 DEF EventResult, Alone, Goto, Enter, ServeTypeOK
  <2>3. req[t].key = None /\ OldCalls
    BY <2>1, KeyKinds, NoNewCall
  <2>4. Running
    BY <1>7, Working DEF Work, Requests
  <2>5. \A x \in Delivered : x \in DOMAIN pending => x \in DOMAIN pending'
    BY <2>1, WithoutType, Kinds
  <2> QED BY <2>1, <2>2, <2>3, <2>4, <2>5, Kinds, DeliveryElsewhere
<1>4. ASSUME NEW t \in Thread, ReplyHasCall(t) \/ NoCall(t) PROVE DeliveryInv'
  <2>1. /\ pending' = pending /\ UNCHANGED <<closed, seen, forgotten, failures>>
        /\ req[t].at \in AtRest
        /\ chain' = chain \/ chain' = Append(chain, OfferedRecord)
    BY <1>4 DEF ReplyHasCall, NoCall, AtRest, state
  <2>2. req'[t].key \in WireId \cup {None} /\ Alone(t)
    BY <1>4 DEF ReplyHasCall, NoCall, Alone, Goto, Enter, ServeTypeOK
  <2>3. req[t].key = None /\ OldCalls
    BY <2>1, KeyKinds, NoNewCall, OfferedIsRecord
  <2>4. Running
    BY <1>4, Working DEF Work
  <2> QED BY <2>1, <2>2, <2>3, <2>4, Kinds, DeliveryElsewhere
<1>6. ASSUME NEW t \in Thread, NEW k \in EventId, EventCall(t, k) PROVE DeliveryInv'
  <2>1. /\ chain' = chain /\ pending' = pending
        /\ UNCHANGED <<closed, seen, forgotten, failures>> /\ req[t].at \in AtRest
    BY <1>6 DEF EventCall, AtRest, Begin, Idle, state
  <2>2. req'[t].key = k /\ Alone(t)
    BY <1>6 DEF EventCall, Alone, Enter, ServeTypeOK
  <2>3. req[t].key = None /\ OldCalls
    BY <2>1, KeyKinds, NoNewCall
  <2>4. Running
    BY <1>6, Working DEF Requests
  <2> QED BY <2>1, <2>2, <2>3, <2>4, Kinds, DeliveryElsewhere
<1>8. ASSUME NEW t \in Thread, EventRejected(t) PROVE DeliveryInv'
  <2>1. /\ chain' = chain /\ UNCHANGED <<closed, seen, forgotten, failures>>
        /\ pending' \in {pending, With(req[t].key, req[t].ref)}
        /\ req[t].key \in WireId \cup EventId
    BY <1>8 DEF EventRejected, StepInv, Fits
  <2>2. req'[t].key = None /\ Alone(t)
    BY <1>8, GotoRest DEF EventRejected, AtRest, Alone
  <2>3. OldCalls
    BY <2>1, NoNewCall
  <2>4. Running
    BY <1>8, Working DEF Work
  <2>5. \A x \in Delivered : x \in DOMAIN pending => x \in DOMAIN pending'
    BY <2>1 DEF With
  <2> QED BY <2>1, <2>2, <2>3, <2>4, <2>5, Kinds, DeliveryElsewhere
<1>9. ASSUME NEW t \in Thread, NEW k \in HookKey, NEW e \in {"Pre", "Post"}, Hook(t, k, e)
      PROVE  DeliveryInv'
  <2>1. /\ chain' = chain /\ pending' = pending /\ Running
        /\ UNCHANGED <<closed, seen, forgotten, failures>>
        /\ lock[k[1]] = None /\ k \notin ToSet(closed[k[1]])
        /\ req[t].key = None
    BY <1>9 DEF Hook, Begin, Idle, Known, Running
  <2>2. /\ req'[t].key = k /\ Alone(t)
        /\ req'[t].at \in WritesCall => k \notin DOMAIN pending
    BY <1>9 DEF Hook, Alone, Enter, ServeTypeOK, WritesCall
  <2>3. \A u \in Thread : req[u].key # k
    BY <2>1, KeyKinds, IdAssumption DEF IngestLockInv, HookKey
  <2>4. Accounted(k) /\ req'[t].at \in WritesCall => k \in forgotten
    BY <2>1, <2>2, <2>3, Kinds DEF Accounted
  <2>5. ASSUME NEW x \in Delivered, Accounted(x) PROVE Accounted(x)'
    BY <2>1, <2>2, <2>5, Kinds DEF Accounted, Alone
  <2>6. OldCalls
    BY <2>1, NoNewCall
  <2>7. \A u \in Thread :
          /\ req'[u].at \in WritesCall /\ req'[u].key \in Delivered
          /\ Accounted(req'[u].key)
          => \/ req'[u].key \in forgotten'
             \/ req[u].key = req'[u].key /\ req[u].at \in WritesCall
    BY <2>1, <2>2, <2>4 DEF Alone
  <2> QED BY <2>1, <2>5, <2>6, <2>7, DeliveryFrame
<1>10. ASSUME NEW t \in Thread, HookPop(t) PROVE DeliveryInv'
  <2> DEFINE k == req[t].key
  <2>1. k \in HookKey /\ k # None /\ k \in Key /\ k \notin EventId
    BY <1>10, Kinds DEF HookPop, StepInv, Fits, InHook, Delivered
  <2>2. k \in DOMAIN pending
    BY <1>10, <2>1 DEF HookPop, OneKeyInv, OwnKey
  <2>3. /\ chain' = chain /\ pending' = Without(k)
        /\ UNCHANGED <<closed, seen, forgotten, failures>>
        /\ Enter(t, "hook_result", k, pending[k])
    BY <1>10, <2>2 DEF HookPop
  <2>4. req'[t].key = k /\ req'[t].at = "hook_result" /\ Alone(t)
    BY <2>3 DEF Alone, Enter, ServeTypeOK
  <2>5. /\ "hook_result" \in Holding /\ "hook_result" \notin WritesCall
        /\ \A x : x # k /\ x \in DOMAIN pending => x \in DOMAIN pending'
    BY <2>3 DEF Holding, WritesResult, WritesCall, Without
  <2>6. ASSUME NEW x \in Delivered, Accounted(x) PROVE Accounted(x)'
    <3>1. CASE x = k
      BY <2>4, <2>5, <3>1 DEF Accounted
    <3>2. CASE x # k
      BY <2>3, <2>4, <2>5, <2>6, <3>2 DEF Accounted, Alone
    <3> QED BY <3>1, <3>2
  <2>7. OldCalls /\ Running
    BY <1>10, <2>3, NoNewCall, Working DEF Work
  <2> QED BY <2>3, <2>4, <2>5, <2>6, <2>7, DeliveryFrame DEF Alone
<1>12. ASSUME NEW t \in Thread, NEW s \in Span, ToolSpan(t, s) PROVE DeliveryInv'
  <2>1. /\ chain' = chain /\ pending' = pending
        /\ UNCHANGED <<closed, seen, forgotten, failures>>
        /\ s \notin ToSet(seen) /\ req[t].at = "batch"
    BY <1>12 DEF ToolSpan, state
  <2>2. req'[t].key = s /\ Alone(t)
    BY <1>12 DEF ToolSpan, Alone, Enter, ServeTypeOK
  <2>3. req[t].key = None /\ \A u \in Thread : req[u].key # s
    BY <2>1, KeyKinds, IdAssumption DEF IngestLockInv, InBatch, AtRest
  <2>4. Accounted(s) => s \in forgotten
    BY <2>1, <2>3, Kinds DEF Accounted
  <2>5. ASSUME NEW x \in Delivered, Accounted(x) PROVE Accounted(x)'
    BY <2>1, <2>2, <2>3, <2>5, Kinds DEF Accounted, Alone
  <2>6. OldCalls /\ Running
    BY <1>12, <2>1, NoNewCall, Working DEF Requests
  <2>7. \A u \in Thread :
          /\ req'[u].at \in WritesCall /\ req'[u].key \in Delivered
          /\ Accounted(req'[u].key)
          => \/ req'[u].key \in forgotten'
             \/ req[u].key = req'[u].key /\ req[u].at \in WritesCall
    BY <2>1, <2>2, <2>4 DEF Alone
  <2> QED BY <2>1, <2>5, <2>6, <2>7, DeliveryFrame
<1>14. ASSUME NEW t \in Thread, WriteCall(t) PROVE DeliveryInv'
  <2> DEFINE k == req[t].key
  <2>1. /\ pending' = pending /\ UNCHANGED <<closed, seen, forgotten, failures>>
        /\ req[t].at \in WritesCall
    BY <1>14 DEF WriteCall
  <2>2. /\ req'[t].key = k /\ Alone(t)
        /\ req'[t].at \in Holding /\ req'[t].at \notin WritesCall
    BY <1>14 DEF WriteCall, Alone, Enter, ServeTypeOK, Holding, WritesResult, WritesCall
  <2>3. PICK r \in Record : r.kind = "call" /\ r.id = k /\ chain' = Append(chain, r)
    BY <1>14, Names DEF WriteCall, CallRecord, Record, ServeTypeOK
  <2>4. /\ Called' = Called \cup {Len(chain) + 1}
        /\ \A i \in DOMAIN chain : chain'[i] = chain[i]
        /\ chain'[Len(chain) + 1] = r
    BY <2>3, ChainGrows, AppendRecord
  <2>5. Running /\ Running'
    BY <1>14, Working DEF Work
  <2>6. \A x \in Delivered : Accounted(x) => Accounted(x)'
    BY <2>1, <2>2 DEF Accounted, Alone
  <2>7. Accounted(k)'
    BY <2>2 DEF Accounted
  <2>8. k \in Delivered => k # None /\ k \notin EventId
    BY Kinds
  <2>9. k \in Delivered => \A u \in Thread : req'[u].key = k => req'[u].at \notin WritesCall
    BY <2>2, <2>8 DEF OneKeyInv, OwnKey, Alone
  <2>10. ASSUME failures = 0, NEW i \in Called', chain'[i].id \in HookKey \cup Span
         PROVE  /\ Accounted(chain[i].id)'
                /\ \A u \in Thread : req'[u].key = chain'[i].id /\ req'[u].at \in WritesCall
                      => chain'[i].id \in forgotten'
    <3>1. CASE i = Len(chain) + 1
      <4>1. chain'[i].id = req[t].key /\ chain'[i].id = req'[t].key
        BY <2>2, <2>3, <2>4, <3>1
      <4>2. Accounted(chain[i].id)'
        BY <2>7, <4>1
      <4> QED BY <2>9, <2>10, <4>1, <4>2 DEF Delivered
    <3>2. CASE i \in Called
      <4>1. chain'[i] = chain[i] /\ chain[i].id \in Delivered
        BY <2>4, <2>10, <3>2 DEF Called, Delivered
      <4>2. /\ Accounted(chain[i].id)
            /\ \A u \in Thread : req[u].key = chain[i].id /\ req[u].at \in WritesCall
                  => chain[i].id \in forgotten
        BY <2>5, <2>10, <3>2, <4>1 DEF DeliveryInv, Delivered
      <4>3. Accounted(chain[i].id)'
        BY <2>6, <4>1, <4>2
      <4> QED BY <2>1, <2>2, <4>1, <4>2, <4>3 DEF Alone
    <3> QED BY <2>4, <2>10, <3>1, <3>2
  <2> QED BY <2>1, <2>10 DEF DeliveryInv
<1>15. ASSUME NEW t \in Thread, Bind(t) PROVE DeliveryInv'
  <2> DEFINE k == req[t].key
  <2>1. /\ chain' = chain /\ pending' = With(k, req[t].ref)
        /\ UNCHANGED <<closed, seen, forgotten, failures>>
    BY <1>15 DEF Bind, Bound
  <2>2. /\ Alone(t) /\ req'[t].at \notin WritesCall
    BY <1>15 DEF Bind, Alone, Goto, Enter, ServeTypeOK, WritesCall
  <2>3. k \in DOMAIN pending' /\ \A x \in DOMAIN pending : x \in DOMAIN pending'
    BY <2>1 DEF With
  <2>4. ASSUME NEW x \in Delivered, Accounted(x) PROVE Accounted(x)'
    <3>1. CASE x = k
      BY <2>3, <3>1 DEF Accounted
    <3>2. CASE x # k
      BY <2>1, <2>2, <2>3, <2>4, <3>2 DEF Accounted, Alone
    <3> QED BY <3>1, <3>2
  <2>5. OldCalls /\ Running
    BY <1>15, <2>1, NoNewCall, Working DEF Work
  <2> QED BY <2>1, <2>2, <2>4, <2>5, DeliveryFrame DEF Alone
<1>16. ASSUME NEW t \in Thread, WriteResult(t) PROVE DeliveryInv'
  <2>1. /\ UNCHANGED <<closed, seen, forgotten, failures>> /\ pending' = pending
        /\ chain' = Append(chain, ResultRecord(req[t].key, req[t].ref))
        /\ req[t].key \in WireId \cup EventId /\ req[t].ref \in Ref
    BY <1>16 DEF WriteResult, StepInv, Fits, ServeTypeOK
  <2>2. req'[t].key = None /\ Alone(t)
    BY <1>16, GotoRest DEF WriteResult, AtRest, Alone
  <2>3. OldCalls
    <3>1. ResultRecord(req[t].key, req[t].ref) \in Record
      BY <2>1, ResultIsRecord DEF Key
    <3> QED BY <2>1, <3>1, NoNewCall DEF ResultRecord
  <2>4. Running
    BY <1>16, Working DEF Work
  <2> QED BY <2>1, <2>2, <2>3, <2>4, Kinds, DeliveryElsewhere
<1>17. ASSUME NEW t \in Thread, HookResult(t) PROVE DeliveryInv'
  <2> DEFINE k == req[t].key
             c == k[1]
  <2>1. k \in HookKey /\ c \in Client /\ req[t].ref \in Ref /\ req[t].at \notin WritesCall
    BY <1>17 DEF HookResult, StepInv, Fits, InHook, HookKey, ServeTypeOK, WritesCall
  <2>2. /\ chain' = Append(chain, ResultRecord(k, req[t].ref))
        /\ UNCHANGED <<pending, seen, failures>>
        /\ \E m : /\ closed' = [closed EXCEPT ![c] = m]
                  /\ forgotten' = forgotten \cup ((ToSet(closed[c]) \cup {k}) \ ToSet(m))
    BY <1>17 DEF HookResult
  <2>3. req'[t].key = None /\ Alone(t)
    BY <1>17, GotoRest DEF HookResult, AtRest, Alone
  <2>4. /\ \A d \in Client \ {c} : closed'[d] = closed[d]
        /\ ToSet(closed[c]) \cup {k} \subseteq ToSet(closed'[c]) \cup forgotten'
        /\ forgotten \subseteq forgotten'
    BY <2>1, <2>2 DEF ServeTypeOK
  <2>5. ASSUME NEW x \in Delivered, Accounted(x) PROVE Accounted(x)'
    <3>1. CASE x = k
      BY <2>1, <2>4, <3>1 DEF Accounted
    <3>2. CASE x # k /\ x \in HookKey /\ x \in ToSet(closed[x[1]])
      <4>1. x[1] \in Client
        BY <3>2 DEF HookKey
      <4>2. x \in ToSet(closed'[x[1]]) \/ x \in forgotten'
        BY <2>4, <3>2, <4>1
      <4> QED BY <3>2, <4>2 DEF Accounted
    <3>3. CASE x # k /\ ~(x \in HookKey /\ x \in ToSet(closed[x[1]]))
      BY <2>2, <2>3, <2>4, <2>5, <3>3 DEF Accounted, Alone
    <3> QED BY <3>1, <3>2, <3>3
  <2>6. OldCalls
    <3>1. ResultRecord(k, req[t].ref) \in Record
      BY <2>1, ResultIsRecord, Kinds
    <3> QED BY <2>2, <3>1, NoNewCall DEF ResultRecord
  <2>7. Running
    BY <1>17, Working DEF Work
  <2> QED BY <2>2, <2>3, <2>4, <2>5, <2>6, <2>7, Kinds, DeliveryFrame DEF Alone
<1>18. ASSUME NEW t \in Thread, SpanResult(t) PROVE DeliveryInv'
  <2> DEFINE k == req[t].key
  <2>1. k \in Span /\ req[t].ref \in Ref
    BY <1>18 DEF SpanResult, StepInv, Fits, ServeTypeOK
  <2>2. /\ chain' = Append(chain, ResultRecord(k, req[t].ref))
        /\ UNCHANGED <<pending, closed, failures>>
        /\ forgotten' = forgotten \cup ((ToSet(seen) \cup {k}) \ ToSet(seen'))
    BY <1>18 DEF SpanResult
  <2>3. req'[t].key = None /\ Alone(t)
    BY <1>18, GotoRest DEF SpanResult, AtRest, Alone
  <2>4. /\ ToSet(seen) \cup {k} \subseteq ToSet(seen') \cup forgotten'
        /\ forgotten \subseteq forgotten'
    BY <2>2
  <2>5. ASSUME NEW x \in Delivered, Accounted(x) PROVE Accounted(x)'
    <3>1. CASE x = k \/ x \in ToSet(seen)
      BY <2>4, <3>1 DEF Accounted
    <3>2. CASE x # k /\ x \notin ToSet(seen)
      BY <2>2, <2>3, <2>4, <2>5, <3>2 DEF Accounted, Alone
    <3> QED BY <3>1, <3>2
  <2>6. OldCalls
    <3>1. ResultRecord(k, req[t].ref) \in Record
      BY <2>1, ResultIsRecord
    <3> QED BY <2>2, <3>1, NoNewCall DEF ResultRecord
  <2>7. Running
    BY <1>18, Working DEF Work
  <2> QED BY <2>2, <2>3, <2>4, <2>5, <2>6, <2>7, Kinds, DeliveryFrame DEF Alone
<1>19. ASSUME NEW t \in Thread, WriteFails(t) PROVE DeliveryInv'
  <2>1. failures' # 0
    BY <1>19, ServeAssumption DEF WriteFails, ServeTypeOK
  <2> QED BY <2>1 DEF DeliveryInv
<1>20. CASE Stop
  BY <1>20 DEF Stop, state, DeliveryInv, Accounted, Running, Called
<1>21. ASSUME CancelPending \/ CancelFails \/ Closed PROVE DeliveryInv'
  <2>1. ~Running'
    BY <1>21 DEF CancelPending, CancelFails, Closed, Running
  <2> QED BY <2>1 DEF DeliveryInv
<1>22. ASSUME NEW k \in Key, Cancel(k) PROVE DeliveryInv'
  <2>1. ~Running'
    BY <1>22 DEF Cancel, Running
  <2> QED BY <2>1 DEF DeliveryInv
<1> QED
  BY <1>0, <1>1, <1>2, <1>3, <1>4, <1>6, <1>7, <1>8, <1>9, <1>10, <1>11, <1>12, <1>13,
     <1>14, <1>15, <1>16, <1>17, <1>18, <1>19, <1>20, <1>21, <1>22
  DEF ServeNext, Work, Requests, Shutdown

\* Every step keeps one call for a delivery.
LEMMA OnePairStep ==
    /\ ServeTypeOK /\ StepInv /\ PhaseInv /\ OneKeyInv /\ HeldInv /\ DeliveryInv
    /\ OnePairPerDelivery /\ [ServeNext]_serveVars
    => OnePairPerDelivery'
<1> SUFFICES ASSUME ServeTypeOK, StepInv, PhaseInv, OneKeyInv, HeldInv, DeliveryInv,
                    OnePairPerDelivery, [ServeNext]_serveVars,
                    NEW i \in Called', NEW j \in Called', i < j,
                    chain'[i].id = chain'[j].id, chain'[i].id \in HookKey \cup Span,
                    ~(failures' > 0)
             PROVE  chain'[i].id \in forgotten'
  BY DEF OnePairPerDelivery
<1>1. failures = 0 /\ failures' = 0 /\ forgotten \subseteq forgotten'
  BY Monotone, ServeAssumption DEF ServeTypeOK
<1>2. ASSUME OldCalls PROVE chain'[i].id \in forgotten'
  <2>1. i \in Called /\ j \in Called /\ chain'[i] = chain[i] /\ chain'[j] = chain[j]
    BY <1>2 DEF OldCalls
  <2> QED BY <1>1, <2>1 DEF OnePairPerDelivery
<1>3. CASE UNCHANGED serveVars
  BY <1>2, <1>3, NoNewCall DEF serveVars, state
<1>4. ASSUME NEW t \in Thread, Work(t) \/ Requests(t) \/ WriteFails(t)
      PROVE  chain'[i].id \in forgotten'
  <2>0. Effect(t) /\ Running
    BY <1>4, Effects, Working
  <2>1. CASE \E r \in Record : Records(t, r)
    <3>1. PICK r \in Record : Records(t, r)
      BY <2>1
    <3>2. /\ r.id = req[t].key /\ req[t].at \in WritesCall
          /\ Called' = Called \cup {Len(chain) + 1}
          /\ \A x \in DOMAIN chain : chain'[x] = chain[x]
          /\ chain'[Len(chain) + 1] = r
          /\ DOMAIN chain = 1..Len(chain) /\ Len(chain) \in Nat
      BY <3>1, ChainGrows, AppendRecord DEF Records
    <3>3. i \in Called /\ chain'[i] = chain[i]
      BY <3>2 DEF Called
    <3>4. CASE j \in Called
      <4>1. chain'[j] = chain[j]
        BY <3>2, <3>4 DEF Called
      <4> QED BY <1>1, <3>3, <3>4, <4>1 DEF OnePairPerDelivery
    <3>5. CASE j = Len(chain) + 1
      <4>1. chain[i].id = req[t].key
        BY <3>2, <3>3, <3>5
      <4> QED BY <1>1, <2>0, <3>2, <3>3, <4>1 DEF DeliveryInv
    <3> QED BY <3>2, <3>4, <3>5
  <2>2. CASE Answers(t)
    <3>1. ResultRecord(req[t].key, req[t].ref) \in Record
      BY <2>2, ResultIsRecord DEF Answers, ServeTypeOK
    <3>2. OldCalls
      BY <2>2, <3>1, NoNewCall DEF Answers, ResultRecord
    <3> QED BY <1>2, <3>2
  <2>3. CASE Moves(t)
    BY <1>2, <2>3, OfferedIsRecord, NoNewCall DEF Moves
  <2>4. CASE chain' = chain
    BY <1>2, <2>4, NoNewCall
  <2> QED BY <2>0, <2>1, <2>2, <2>3, <2>4 DEF Effect, Takes, Keeps, Drops
<1>5. CASE Stop \/ CancelPending \/ CancelFails \/ Closed
  <2>1. chain' = chain
    BY <1>5 DEF Stop, CancelPending, CancelFails, Closed, state
  <2> QED BY <1>2, <2>1, NoNewCall
<1>6. ASSUME NEW k \in Key, Cancel(k) PROVE chain'[i].id \in forgotten'
  <2>1. pending[k] \in Ref /\ chain' = Append(chain, ResultRecord(k, pending[k]))
    BY <1>6 DEF Cancel, ServeTypeOK
  <2>2. ResultRecord(k, pending[k]) \in Record
    BY <2>1, ResultIsRecord
  <2>3. OldCalls
    BY <2>1, <2>2, NoNewCall DEF ResultRecord
  <2> QED BY <1>2, <2>3
<1> QED BY <1>3, <1>4, <1>5, <1>6 DEF ServeNext, Shutdown

-----------------------------------------------------------------------------
(* The theorems.                                                            *)

\* The invariant holds at first.
LEMMA InitInv == ServeInit => ServeInv
<1> SUFFICES ASSUME ServeInit PROVE ServeInv
  OBVIOUS
<1>1. /\ chain = <<>> /\ Len(chain) = 0 /\ DOMAIN chain = {} /\ DOMAIN pending = {}
      /\ Called = {} /\ Results = {} /\ Answered = {}
  BY DEF ServeInit, Called, Results, Answered
<1>2. /\ NoRef \in Ref /\ "idle" \in Steps /\ Idle.at = "idle" /\ Idle.key = None
      /\ Idle.ref = NoRef
      /\ \A t \in Thread : req[t] = Idle
      /\ Idle \in [at : Steps, key : Key \cup Span \cup {None}, ref : Ref]
  BY Names DEF ServeInit
<1>3. ServeTypeOK
  BY <1>1, <1>2, ServeAssumption DEF ServeInit, ServeTypeOK
<1>4. StepInv
  BY <1>2 DEF StepInv, Fits, AtRest, Holding, WritesResult, InHook
<1>5. PhaseInv
  BY DEF ServeInit, PhaseInv, Running, Cancelling
<1>6. IngestLockInv
  BY <1>2, IdAssumption DEF ServeInit, IngestLockInv, InHook, InBatch
<1>7. HeldInv
  BY <1>1, <1>2 DEF HeldInv
<1>8. OpenInv
  BY <1>1, <1>2 DEF ServeInit, OpenInv, Cancelling
<1>9. OneKeyInv
  BY <1>2 DEF OneKeyInv, OwnKey
<1>10. OrphanInv
  <2>1. Orphans = {}
    BY <1>1 DEF Orphans
  <2> QED BY <2>1, FS_EmptySet DEF ServeInit, OrphanInv
<1>11. BoundToItsCall /\ DeliveryInv /\ OnePairPerDelivery
  BY <1>1 DEF BoundToItsCall, DeliveryInv, OnePairPerDelivery
<1> QED BY <1>3, <1>4, <1>5, <1>6, <1>7, <1>8, <1>9, <1>10, <1>11 DEF ServeInv

\* Every step keeps it.
LEMMA StepInvariant == ServeInv /\ [ServeNext]_serveVars => ServeInv'
<1> SUFFICES ASSUME ServeInv, [ServeNext]_serveVars PROVE ServeInv'
  OBVIOUS
<1>1. ServeTypeOK' /\ StepInv' /\ PhaseInv' /\ OneKeyInv' /\ HeldInv'
  BY TypeStep, StepStep, PhaseStep, OneKeyStep, HeldStep DEF ServeInv
<1>2. IngestLockInv'
  BY <1>1, LockStep DEF ServeInv
<1>3. BoundToItsCall' /\ OpenInv' /\ OrphanInv'
  BY <1>1, BoundStep, OpenStep, OrphanStep DEF ServeInv
<1>4. DeliveryInv' /\ OnePairPerDelivery'
  BY DeliveryStep, OnePairStep DEF ServeInv
<1> QED BY <1>1, <1>2, <1>3, <1>4 DEF ServeInv

\* The endpoint keeps the whole inductive invariant, whatever the threads, the
\* ids, the clients and the sizes of its memories.
THEOREM InductiveInvariant == ServeSpec => []ServeInv
BY InitInv, StepInvariant, PTL DEF ServeSpec

\* What waits, and what is answered, belongs to the call it was told for.
THEOREM ResultsBound == ServeSpec => []BoundToItsCall
<1>1. ServeInv => BoundToItsCall
  BY DEF ServeInv
<1> QED BY <1>1, InductiveInvariant, PTL

\* A delivery that comes again makes no second pair.
THEOREM OnePair == ServeSpec => []OnePairPerDelivery
<1>1. ServeInv => OnePairPerDelivery
  BY DEF ServeInv
<1> QED BY <1>1, InductiveInvariant, PTL

\* A closed serve leaves no call without a result, but one for a record that
\* could not be written, those that an event client told a bad digest for, and
\* those under an id that it used again.
THEOREM AllClosed == ServeSpec => []EveryCallClosed
<1>1. ServeInv => EveryCallClosed
  <2> SUFFICES ASSUME ServeInv, phase = "closed"
               PROVE  Cardinality(Called \ (Answered \cup spoiled \cup SharesItsId)) <= failures
    BY DEF EveryCallClosed
  <2>1. DOMAIN pending = {} /\ \A t \in Thread : req[t].ref = NoRef
    BY DEF ServeInv, PhaseInv, Running, Idle
  <2>2. Held = {}
    BY <2>1 DEF Held
  <2>3. Orphans = Called \ (Answered \cup spoiled \cup SharesItsId)
    BY <2>2 DEF Orphans
  <2> QED BY <2>3 DEF ServeInv, OrphanInv
<1> QED BY <1>1, InductiveInvariant, PTL

-----------------------------------------------------------------------------
(* The chain is a record of calls.                                          *)

\* The results as the ledger sees them.
Pairs == {<<i, chain[i].of>> : i \in Results}

\* The pairs after one more record.
LEMMA PairsGrow ==
    ASSUME ServeTypeOK, NEW r \in Record, chain' = Append(chain, r)
    PROVE  Pairs' = Pairs \cup (IF r.kind = "result" THEN {<<Len(chain) + 1, r.of>>} ELSE {})
<1>1. /\ \A i \in Results : chain'[i] = chain[i]
      /\ chain'[Len(chain) + 1] = r
      /\ Results' = Results \cup (IF r.kind = "result" THEN {Len(chain) + 1} ELSE {})
  BY AppendRecord, ChainGrows DEF Results
<1>2. CASE r.kind = "result"
  <2>1. Results' = Results \cup {Len(chain) + 1}
    BY <1>1, <1>2
  <2> QED BY <1>1, <1>2, <2>1 DEF Pairs
<1>3. CASE r.kind # "result"
  BY <1>1, <1>3 DEF Pairs
<1> QED BY <1>2, <1>3

\* A true result of a call that had none is a step of the ledger.
LEMMA NewPair ==
    ASSUME ServeTypeOK, NEW ref \in Ref, NEW k \in Key \cup Span, IsTrue(k, ref),
           ref.call \notin Answered, chain' = Append(chain, ResultRecord(k, ref))
    PROVE  Ledger!Result
<1> DEFINE r == ResultRecord(k, ref)
           n == <<Len(chain) + 1, ref.call>>
<1>1. r \in Record /\ r.kind = "result" /\ r.of = ref.call /\ chain' = Append(chain, r)
  BY TrueResult
<1> HIDE DEF r
<1>2. Called' = Called /\ Pairs' = Pairs \cup {n}
  BY <1>1, ChainGrows, PairsGrow
<1>3. n \notin Pairs
  <2>1. Len(chain) + 1 \notin Results
    BY DEF Results, ServeTypeOK
  <2> QED BY <2>1 DEF Pairs
<1>4. n[2] \in Called \ Ledger!Resolved
  BY DEF IsTrue, Ledger!Resolved, Answered
<1>5. n \in Pairs' \ Pairs
  BY <1>2, <1>3
<1> QED BY <1>2, <1>4, <1>5 DEF Ledger!Result, Pairs

\* A step without call and result is none.
LEMMA NoPair ==
    ASSUME ServeTypeOK, \/ chain' = chain
                        \/ \E r \in Record : r.kind = "offered" /\ chain' = Append(chain, r)
    PROVE  UNCHANGED Ledger!vars
<1>1. CASE chain' = chain
  BY <1>1 DEF Ledger!vars, Called, Results
<1>2. ASSUME NEW r \in Record, r.kind = "offered", chain' = Append(chain, r)
      PROVE  UNCHANGED Ledger!vars
  <2>1. Called' = Called /\ Pairs' = Pairs
    BY <1>2, ChainGrows, PairsGrow
  <2> QED BY <2>1 DEF Ledger!vars, Pairs
<1> QED BY <1>1, <1>2

\* Every step is one of the ledger, or none.
LEMMA LedgerStep ==
    "cancel_fails" \notin Careless /\ ServeInv /\ [ServeNext]_serveVars => [Ledger!Next]_(Ledger!vars)
<1> SUFFICES ASSUME "cancel_fails" \notin Careless, ServeInv, [ServeNext]_serveVars
             PROVE  [Ledger!Next]_(Ledger!vars)
  OBVIOUS
<1> USE DEF ServeInv
<1>1. CASE UNCHANGED serveVars
  BY <1>1, NoPair DEF serveVars, state
<1>2. ASSUME NEW t \in Thread, Work(t) \/ Requests(t) \/ WriteFails(t)
      PROVE  [Ledger!Next]_(Ledger!vars)
  <2>0. Effect(t) /\ Running /\ Alone(t)
    BY <1>2, Effects, Working DEF Effect
  <2>1. ASSUME NEW r \in Record, Records(t, r) PROVE Ledger!Call
    <3>1. Called' = Called \cup {Len(chain) + 1} /\ Pairs' = Pairs
      BY <2>1, ChainGrows, PairsGrow DEF Records
    <3>2. Len(chain) + 1 \notin Called
      BY DEF Called, ServeTypeOK
    <3> QED BY <3>1, <3>2 DEF Ledger!Call, Pairs
  <2>2. CASE Answers(t)
    <3>1. /\ req[t].key \in Key \cup Span /\ req[t].ref \in Ref
          /\ IsTrue(req[t].key, req[t].ref) /\ req[t].ref.call \in Held
      BY <2>0, <2>2, HeldAnswers DEF ServeTypeOK, Answers
    <3>2. req[t].ref.call \notin Answered
      BY <2>0, <3>1 DEF OpenInv
    <3>3. chain' = Append(chain, ResultRecord(req[t].key, req[t].ref))
      BY <2>2 DEF Answers
    <3> QED BY <3>1, <3>2, <3>3, NewPair DEF Ledger!Next
  <2>3. CASE Moves(t)
    BY <2>3, OfferedIsRecord, NoPair DEF Moves
  <2>4. CASE chain' = chain
    BY <2>4, NoPair
  <2> QED BY <2>0, <2>1, <2>2, <2>3, <2>4 DEF Effect, Takes, Keeps, Drops, Ledger!Next
<1>3. CASE Stop \/ CancelPending \/ CancelFails \/ Closed
  <2>1. chain' = chain
    BY <1>3 DEF Stop, CancelPending, CancelFails, Closed, state
  <2> QED BY <2>1, NoPair
<1>4. ASSUME NEW k \in Key, Cancel(k) PROVE Ledger!Result
  <2>1. /\ pending[k] \in Ref /\ IsTrue(k, pending[k]) /\ k \in Key \cup Span
        /\ chain' = Append(chain, ResultRecord(k, pending[k]))
    BY <1>4 DEF Cancel, ServeTypeOK, HeldInv
  <2>2. pending[k].call \notin Answered
    BY <1>4 DEF Cancel, Cancelling, OpenInv, ServeTypeOK
  <2> QED BY <2>1, <2>2, NewPair
<1> QED BY <1>1, <1>2, <1>3, <1>4 DEF ServeNext, Shutdown, Ledger!Next

\* The chain of a serve, taken as its calls and results only, is a record of
\* calls, unless a cancellation breaks off in the middle and is begun again.
THEOREM Refinement == "cancel_fails" \notin Careless => (ServeSpec => ImplementsCallLedger)
<1> SUFFICES ASSUME "cancel_fails" \notin Careless PROVE ServeSpec => ImplementsCallLedger
  OBVIOUS
<1>1. ServeInit => Ledger!Init
  BY DEF ServeInit, Ledger!Init, Called, Results
<1>2. ServeInv /\ [ServeNext]_serveVars => [Ledger!Next]_(Ledger!vars)
  BY LedgerStep
<1> QED BY <1>1, <1>2, InductiveInvariant, PTL DEF ServeSpec, ImplementsCallLedger, Ledger!Spec

=============================================================================
