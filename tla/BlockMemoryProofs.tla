------------------------- MODULE BlockMemoryProofs -------------------------
(***************************************************************************)
(* Proofs about BlockMemory, for any number of sessions and calls, any     *)
(* conversations and any budget.                                           *)
(*                                                                         *)
(* OnlyFaultsBlock: nothing but a fault of its own makes a session stand   *)
(* in the others' way.  Each action touches one session: lemma Elsewhere   *)
(* says that the invariant then only has to be shown for that session.     *)
(*                                                                         *)
(* FitStaysSound: what fit() keeps and evicts is right for conversations   *)
(* of any length.  That the recursive functions of ContextWindow exist,    *)
(* and what they return, is shown by the least place where they would not. *)
(*                                                                         *)
(* StoredStaysThere: what an add reports stored is in the file.            *)
(***************************************************************************)
EXTENDS BlockMemory, SequenceTheorems, WellFoundedInduction, TLAPS

\* The fields of the two records, whatever their values.
IsState(r) == r = [memory |-> r.memory, pending |-> r.pending, inTxn |-> r.inTxn,
                   reading |-> r.reading, failed |-> r.failed]
IsCall(r) == r = [pc |-> r.pc, evicted |-> r.evicted, query |-> r.query, todo |-> r.todo,
                  outcome |-> r.outcome]

TypeInv ==
    /\ running \in SUBSET Sessions
    /\ DOMAIN session = Sessions /\ session = [s \in Sessions |-> session[s]]
    /\ \A s \in Sessions : IsState(session[s])
    /\ lock \in [Sessions -> {"none", "reserved", "pending"}]
    /\ DOMAIN call = Calls /\ call = [c \in Calls |-> call[c]]
    /\ \A c \in Calls : IsCall(call[c])

\* The call that has the session's connection is storing something.
Adds(s) == \E c \in CallsOf(s) : Lent(c) /\ At(c, "adding") /\ Stored(c)

\* Without a transaction nothing is pending and nothing is locked.  An open one has
\* a cause: an add that failed, or one that is under way.
Cause(s) ==
    IF session[s].inTxn
    THEN s \in running /\ (session[s].failed \/ Adds(s))
    ELSE session[s].pending = <<>> /\ ~ session[s].reading /\ ~ Locked(s)

\* A call that has inserted all it had has the write lock.
Inserted(c) ==
    /\ Here(c) \notin running => At(c, "idle")
    /\ call[c].todo # <<>> => Stored(c)
    /\ At(c, "adding") /\ call[c].todo = <<>> /\ Stored(c) => Lent(c) /\ Locked(Here(c))

OneWriter == \A s, t \in Sessions : Locked(s) /\ Locked(t) => s = t

\* The strengthening that makes LockOnlyFromFault inductive.
IInv ==
    /\ TypeInv
    /\ \A s \in Sessions : Cause(s)
    /\ \A c \in Calls : Inserted(c)
    /\ OneWriter

-----------------------------------------------------------------------------
LEMMA Initially == Init => IInv
<1> SUFFICES ASSUME Init PROVE IInv
  OBVIOUS
<1>1. /\ \A s \in Sessions : session[s] = Fresh(None) /\ lock[s] = "none"
      /\ \A c \in Calls : call[c] = IdleCall
  BY DEF Init
<1>2. TypeInv
  BY DEF Init, TypeInv, IsState, IsCall, Fresh, IdleCall
<1>3. ASSUME NEW s \in Sessions PROVE Cause(s)
  BY <1>1 DEF Cause, Locked, Fresh
<1>4. ASSUME NEW c \in Calls PROVE Inserted(c)
  BY <1>1 DEF Inserted, At, IdleCall, Stored, ToStore
<1>5. OneWriter
  BY <1>1 DEF OneWriter, Locked
<1> QED BY <1>2, <1>3, <1>4, <1>5 DEF IInv

\* What a step of one session has to show.
LEMMA Elsewhere ==
    ASSUME IInv, TypeInv', NEW s \in Sessions,
           \A t \in Sessions \ {s} :
              session'[t] = session[t] /\ lock'[t] = lock[t] /\ (t \in running' <=> t \in running),
           \A d \in Calls : Session[d] # s => call'[d] = call[d],
           Cause(s)', \A c \in CallsOf(s) : Inserted(c)',
           Locked(s)' => Locked(s) \/ \A t \in Sessions \ {s} : ~ Locked(t)
    PROVE  IInv'
<1>1. ASSUME NEW t \in Sessions \ {s} PROVE Cause(t)'
  <2>1. \A d \in CallsOf(t) : call'[d] = call[d] /\ session'[Session[d]] = session[Session[d]]
    BY <1>1 DEF CallsOf
  <2>2. Adds(t) => Adds(t)'
    BY <2>1 DEF Adds, CallsOf, Lent, State, Here, At, Stored, ToStore
  <2>3. Cause(t)
    BY DEF IInv
  <2> QED BY <1>1, <2>2, <2>3 DEF Cause, Locked
<1>2. ASSUME NEW d \in Calls, Session[d] # s PROVE Inserted(d)'
  <2>1. Session[d] \in Sessions \ {s} /\ call'[d] = call[d] /\ session'[Session[d]] = session[Session[d]]
    BY <1>2, SessionAssumption
  <2>2. Inserted(d)
    BY DEF IInv
  <2> QED BY <2>1, <2>2 DEF Inserted, Lent, State, Here, At, Stored, ToStore, Locked
<1>3. \A d \in Calls : Inserted(d)'
  BY <1>2 DEF CallsOf
<1>4. OneWriter'
  BY DEF IInv, OneWriter, Locked
<1> QED BY <1>1, <1>3, <1>4 DEF IInv, CallsOf

\* What a step of one call has to show.
LEMMA OtherCalls ==
    ASSUME IInv, TypeInv', NEW c \in Calls, NEW s \in Sessions, s = Session[c],
           running' = running,
           \A t \in Sessions \ {s} : session'[t] = session[t] /\ lock'[t] = lock[t],
           \A d \in Calls \ {c} : call'[d] = call[d],
           session'[s].memory = session[s].memory,
           Locked(s) => Locked(s)' \/ Lent(c),
           Locked(s)' => Locked(s) \/ \A t \in Sessions \ {s} : ~ Locked(t),
           Cause(s)', Inserted(c)'
    PROVE  IInv'
<1>1. ASSUME NEW d \in CallsOf(s), d # c PROVE Inserted(d)'
  <2>1. Inserted(d) /\ call'[d] = call[d] /\ Here(d) = s
    BY <1>1 DEF IInv, CallsOf, Here
  <2> QED BY <2>1, <1>1 DEF Inserted, Lent, State, Here, At, Stored, ToStore
<1>2. \A d \in Calls : Session[d] # s => call'[d] = call[d]
  OBVIOUS
<1> QED BY <1>1, <1>2, Elsewhere

LEMMA Own == ASSUME NEW c \in Calls PROVE Session[c] \in Sessions /\ c \in CallsOf(Session[c])
BY SessionAssumption DEF CallsOf

LEMMA StartKeeps ==
    ASSUME IInv, NEW c \in Calls, Start(c)
    PROVE  IInv'
<1> DEFINE s == Session[c]
<1>1. TypeInv'
  <2>1. PICK memory : session' = [session EXCEPT ![s] = Fresh(memory)]
    BY DEF Start, Here
  <2>2. running' \in SUBSET Sessions /\ lock' = lock /\ call' = call
    BY Own DEF Start, IInv, TypeInv, Here
  <2>3. ASSUME NEW t \in Sessions PROVE IsState(session'[t])
    BY <2>1, Own DEF IInv, TypeInv, IsState, Fresh
  <2>4. DOMAIN session' = Sessions /\ session' = [t \in Sessions |-> session'[t]]
    BY <2>1 DEF IInv, TypeInv
  <2> QED BY <2>2, <2>3, <2>4 DEF IInv, TypeInv
<1>2. /\ s \notin running /\ running' = running \cup {s} /\ lock' = lock /\ call' = call
      /\ \A t \in Sessions \ {s} : session'[t] = session[t]
  BY Own DEF Start, IInv, TypeInv, Here
<1>3. ~ session'[s].inTxn /\ session'[s].pending = <<>> /\ ~ session'[s].reading
  BY Own DEF Start, IInv, TypeInv, Here, Fresh
<1>4. ~ Locked(s)
  BY <1>2, Own DEF IInv, Cause
<1>5. ASSUME NEW d \in CallsOf(s) PROVE Inserted(d)'
  <2>1. At(d, "idle") /\ (call[d].todo # <<>> => Stored(d))
    BY <1>2 DEF IInv, Inserted, CallsOf, Here
  <2> QED BY <2>1, <1>2 DEF Inserted, At, Stored, ToStore
<1> HIDE DEF s
<1>6. Cause(s)'
  BY <1>2, <1>3, <1>4 DEF Cause, Locked
<1> QED BY <1>1, <1>2, <1>4, <1>5, <1>6, Own, Elsewhere DEF s, Locked

LEMMA ExitKeeps ==
    ASSUME IInv, NEW s \in Sessions, Exit(s)
    PROVE  IInv'
<1>1. TypeInv'
  BY DEF Exit, IInv, TypeInv, IsState, IsCall, Fresh, IdleCall
<1>2. /\ running' = running \ {s} /\ lock'[s] = "none"
      /\ \A t \in Sessions \ {s} : session'[t] = session[t] /\ lock'[t] = lock[t]
  BY DEF Exit, IInv, TypeInv
<1>3. ~ session'[s].inTxn /\ session'[s].pending = <<>> /\ ~ session'[s].reading
  BY DEF Exit, IInv, TypeInv, Fresh
<1>4. \A d \in Calls : call'[d] = IF Session[d] = s THEN IdleCall ELSE call[d]
  BY DEF Exit
<1>5. ASSUME NEW d \in CallsOf(s) PROVE Inserted(d)'
  BY <1>4 DEF Inserted, At, Stored, ToStore, IdleCall, CallsOf
<1>6. Cause(s)'
  BY <1>2, <1>3 DEF Cause, Locked
<1> QED BY <1>1, <1>2, <1>4, <1>5, <1>6, Elsewhere DEF Locked

LEMMA ChatKeeps ==
    ASSUME IInv, NEW c \in Calls, Chat(c)
    PROVE  IInv'
<1> DEFINE s == Session[c]
<1>1. TypeInv'
  <2>1. running' = running /\ session' = session /\ lock' = lock
    BY DEF Chat
  <2>2. PICK conv \in Talks :
            LET evicted == Evicted[conv] IN
            call' = [call EXCEPT ![c] =
                IF NeedsMemory(c, evicted)
                THEN [@ EXCEPT !.pc = "adding", !.evicted = evicted, !.query = HasQuery(conv),
                               !.todo = Storable(evicted)]
                ELSE [@ EXCEPT !.pc = "streaming"]]
    BY DEF Chat
  <2>3. DOMAIN call' = Calls /\ call' = [d \in Calls |-> call'[d]]
    BY <2>2 DEF IInv, TypeInv
  <2>4. ASSUME NEW d \in Calls PROVE IsCall(call'[d])
    BY <2>2 DEF IInv, TypeInv, IsCall
  <2> QED BY <2>1, <2>3, <2>4 DEF IInv, TypeInv
<1>2. /\ running' = running /\ session' = session /\ lock' = lock
      /\ \A d \in Calls \ {c} : call'[d] = call[d]
  BY DEF Chat, IInv, TypeInv, Added
<1>3. /\ ~ At(c, "adding") \/ ~ Stored(c)
      /\ Inserted(c)
  BY DEF Chat, IInv, At
<1>4. Inserted(c)'
  BY <1>2, <1>3, Own DEF Chat, IInv, TypeInv, IsCall, IdleCall, Added, Inserted, At, Here, Stored, ToStore
<1>5. Cause(s)'
  <2>1. Adds(s) => Adds(s)'
    BY <1>2, <1>3 DEF Adds, CallsOf, Lent, State, Here, At, Stored, ToStore
  <2> HIDE DEF s
  <2> QED BY <1>2, <2>1, Own DEF IInv, Cause, Locked, s
<1> QED BY <1>1, <1>2, <1>4, <1>5, Own, OtherCalls DEF Locked

LEMMA NothingStoredKeeps ==
    ASSUME IInv, NEW c \in Calls, NothingStored(c)
    PROVE  IInv'
<1> DEFINE s == Session[c]
<1>1. TypeInv'
  BY Own DEF NothingStored, IInv, TypeInv, IsState, IsCall, IdleCall, Added
<1>2. /\ running' = running /\ session' = session /\ lock' = lock
      /\ \A d \in Calls \ {c} : call'[d] = call[d]
  BY DEF NothingStored, IInv, TypeInv, Added
<1>3. /\ ~ At(c, "adding") \/ ~ Stored(c)
      /\ Inserted(c)
  BY DEF NothingStored, IInv, At
<1>4. Inserted(c)'
  BY <1>2, <1>3, Own DEF NothingStored, IInv, TypeInv, IsCall, IdleCall, Added, Inserted, At, Here, Stored, ToStore
<1>5. Cause(s)'
  <2>1. Adds(s) => Adds(s)'
    BY <1>2, <1>3 DEF Adds, CallsOf, Lent, State, Here, At, Stored, ToStore
  <2> HIDE DEF s
  <2> QED BY <1>2, <2>1, Own DEF IInv, Cause, Locked, s
<1> QED BY <1>1, <1>2, <1>4, <1>5, Own, OtherCalls DEF Locked

LEMMA RecallsNothingKeeps ==
    ASSUME IInv, NEW c \in Calls, RecallsNothing(c)
    PROVE  IInv'
<1> DEFINE s == Session[c]
<1>1. TypeInv'
  BY Own DEF RecallsNothing, IInv, TypeInv, IsState, IsCall, IdleCall, Added
<1>2. /\ running' = running /\ session' = session /\ lock' = lock
      /\ \A d \in Calls \ {c} : call'[d] = call[d]
  BY DEF RecallsNothing, IInv, TypeInv, Added
<1>3. /\ ~ At(c, "adding") \/ ~ Stored(c)
      /\ Inserted(c)
  BY DEF RecallsNothing, IInv, At
<1>4. Inserted(c)'
  BY <1>2, <1>3, Own DEF RecallsNothing, IInv, TypeInv, IsCall, IdleCall, Added, Inserted, At, Here, Stored, ToStore
<1>5. Cause(s)'
  <2>1. Adds(s) => Adds(s)'
    BY <1>2, <1>3 DEF Adds, CallsOf, Lent, State, Here, At, Stored, ToStore
  <2> HIDE DEF s
  <2> QED BY <1>2, <2>1, Own DEF IInv, Cause, Locked, s
<1> QED BY <1>1, <1>2, <1>4, <1>5, Own, OtherCalls DEF Locked

LEMMA StreamEndKeeps ==
    ASSUME IInv, NEW c \in Calls, StreamEnd(c)
    PROVE  IInv'
<1> DEFINE s == Session[c]
<1>1. TypeInv'
  BY Own DEF StreamEnd, IInv, TypeInv, IsState, IsCall, IdleCall, Added
<1>2. /\ running' = running /\ session' = session /\ lock' = lock
      /\ \A d \in Calls \ {c} : call'[d] = call[d]
  BY DEF StreamEnd, IInv, TypeInv, Added
<1>3. /\ ~ At(c, "adding") \/ ~ Stored(c)
      /\ Inserted(c)
  BY DEF StreamEnd, IInv, At
<1>4. Inserted(c)'
  BY <1>2, <1>3, Own DEF StreamEnd, IInv, TypeInv, IsCall, IdleCall, Added, Inserted, At, Here, Stored, ToStore
<1>5. Cause(s)'
  <2>1. Adds(s) => Adds(s)'
    BY <1>2, <1>3 DEF Adds, CallsOf, Lent, State, Here, At, Stored, ToStore
  <2> HIDE DEF s
  <2> QED BY <1>2, <2>1, Own DEF IInv, Cause, Locked, s
<1> QED BY <1>1, <1>2, <1>4, <1>5, Own, OtherCalls DEF Locked

LEMMA InsertKeeps ==
    ASSUME IInv, NEW c \in Calls, Insert(c)
    PROVE  IInv'
<1> DEFINE s == Session[c]
<1>1. TypeInv'
  <2>1. running' = running /\ lock' \in [Sessions -> {"none", "reserved", "pending"}]
    BY DEF Insert, IInv, TypeInv
  <2>2. PICK pending : session' = [session EXCEPT ![s].pending = pending, ![s].inTxn = TRUE,
                                                 ![s].reading = TRUE]
    BY DEF Insert, Here
  <2>3. PICK todo : call' = [call EXCEPT ![c].todo = todo]
    BY DEF Insert
  <2>4. DOMAIN call' = Calls /\ call' = [d \in Calls |-> call'[d]]
    BY <2>3 DEF IInv, TypeInv
  <2>5. \A d \in Calls : IsCall(call'[d])
    BY <2>3 DEF IInv, TypeInv, IsCall
  <2>6. DOMAIN session' = Sessions /\ session' = [t \in Sessions |-> session'[t]]
    BY <2>2 DEF IInv, TypeInv
  <2>7. \A t \in Sessions : IsState(session'[t])
    <3>1. /\ s \in Sessions /\ DOMAIN session = Sessions
          /\ \A t \in Sessions : IsState(session[t])
      BY Own DEF IInv, TypeInv
    <3>2. /\ \A t \in Sessions \ {s} : session'[t] = session[t]
          /\ session'[s] = [session[s] EXCEPT !.pending = pending, !.inTxn = TRUE, !.reading = TRUE]
      BY <2>2, <3>1
    <3>3. IsState(session'[s])
      BY <3>1, <3>2 DEF IsState
    <3> QED BY <3>1, <3>2, <3>3
  <2> QED BY <2>1, <2>4, <2>5, <2>6, <2>7 DEF IInv, TypeInv
<1>2. /\ \A t \in Sessions \ {s} : session'[t] = session[t] /\ lock'[t] = lock[t] /\ ~ Locked(t)
      /\ lock'[s] \in {"reserved", "pending"} /\ running' = running
  BY Own DEF Insert, IInv, TypeInv, Here, Locked, Others
<1>3. session[s].memory = c /\ session'[s].memory = c /\ session'[s].inTxn
  <2>1. PICK pending : session' = [session EXCEPT ![s].pending = pending, ![s].inTxn = TRUE,
                                                 ![s].reading = TRUE]
    BY DEF Insert, Here
  <2>2. s \in DOMAIN session /\ IsState(session[s]) /\ session[s].memory = c
    BY Own DEF Insert, IInv, TypeInv, Here, State, Lent
  <2> QED BY <2>1, <2>2 DEF IsState
<1>4. \A d \in Calls \ {c} : call'[d] = call[d]
  BY DEF Insert, IInv, TypeInv
<1>5. call[c].pc = "adding" /\ call'[c].pc = "adding" /\ call'[c].evicted = call[c].evicted /\ call[c].todo # <<>>
  BY DEF Insert, IInv, TypeInv, IsCall, At
<1>6. s \in running /\ Stored(c) /\ Stored(c)'
  BY <1>5 DEF IInv, Inserted, Here, At, Stored, ToStore
<1>7. Cause(s)'
  <2> HIDE DEF s
  <2> QED BY <1>2, <1>3, <1>5, <1>6, Own DEF Cause, Adds, Lent, State, Here, At, s
<1>8. Inserted(c)'
  BY <1>2, <1>3, <1>5, <1>6 DEF Inserted, Lent, State, Here, Locked, At
<1> QED BY <1>1, <1>2, <1>3, <1>4, <1>7, <1>8, Own, OtherCalls DEF Locked

LEMMA InsertFailsKeeps ==
    ASSUME IInv, NEW c \in Calls, InsertFails(c)
    PROVE  IInv'
<1> DEFINE s == Session[c]
<1>1. TypeInv'
  <2>1. running' = running /\ lock' \in [Sessions -> {"none", "reserved", "pending"}]
    BY DEF InsertFails, IInv, TypeInv
  <2>2. PICK inTxn, failed : session' = [session EXCEPT ![s].inTxn = inTxn, ![s].failed = failed]
    BY DEF InsertFails, Here
  <2>3. PICK pc : call' = [call EXCEPT ![c].outcome = "failed", ![c].todo = <<>>, ![c].pc = pc]
    BY DEF InsertFails, Added
  <2>4. DOMAIN call' = Calls /\ call' = [d \in Calls |-> call'[d]]
    BY <2>3 DEF IInv, TypeInv
  <2>5. \A d \in Calls : IsCall(call'[d])
    BY <2>3 DEF IInv, TypeInv, IsCall
  <2>6. DOMAIN session' = Sessions /\ session' = [t \in Sessions |-> session'[t]]
    BY <2>2 DEF IInv, TypeInv
  <2>7. \A t \in Sessions : IsState(session'[t])
    <3>1. /\ s \in Sessions /\ DOMAIN session = Sessions
          /\ \A t \in Sessions : IsState(session[t])
      BY Own DEF IInv, TypeInv
    <3>2. /\ \A t \in Sessions \ {s} : session'[t] = session[t]
          /\ session'[s] = [session[s] EXCEPT !.inTxn = inTxn, !.failed = failed]
      BY <2>2, <3>1
    <3>3. IsState(session'[s])
      BY <3>1, <3>2 DEF IsState
    <3> QED BY <3>1, <3>2, <3>3
  <2> QED BY <2>1, <2>4, <2>5, <2>6, <2>7 DEF IInv, TypeInv
<1>2. /\ \A t \in Sessions \ {s} : session'[t] = session[t]
      /\ lock' = lock /\ running' = running
  BY Own DEF InsertFails, IInv, TypeInv, Here
<1>3. /\ session'[s].memory = session[s].memory
      /\ session'[s].inTxn = (session[s].inTxn \/ Lent(c))
      /\ session'[s].failed = (session[s].failed \/ Lent(c))
      /\ session'[s].pending = session[s].pending /\ session'[s].reading = session[s].reading
  <2>1. s \in DOMAIN session /\ IsState(session[s])
    BY Own DEF IInv, TypeInv
  <2>2. session'[s].memory = session[s].memory /\ session'[s].pending = session[s].pending
    BY <2>1 DEF InsertFails, Here, IsState
  <2>3. session'[s].inTxn = (session[s].inTxn \/ Lent(c))
    BY <2>1 DEF InsertFails, Here, IsState
  <2>4. session'[s].failed = (session[s].failed \/ Lent(c))
    BY <2>1 DEF InsertFails, Here, IsState
  <2>5. session'[s].reading = session[s].reading
    BY <2>1 DEF InsertFails, Here, IsState
  <2> QED BY <2>2, <2>3, <2>4, <2>5
<1>4. \A d \in Calls \ {c} : call'[d] = call[d]
  BY DEF InsertFails, IInv, TypeInv, Added
<1>5. At(c, "adding") /\ ~ At(c, "adding")' /\ ~ At(c, "idle") /\ call'[c].todo = <<>>
  BY DEF InsertFails, IInv, TypeInv, IsCall, At, Added
<1>6. s \in running
  BY <1>5 DEF IInv, Inserted, Here
<1>7. Cause(s)'
  <2>1. Adds(s) => Adds(s)' \/ Lent(c)
    BY <1>3, <1>4 DEF Adds, CallsOf, Lent, State, Here, At, Stored, ToStore
  <2> HIDE DEF s
  <2> QED BY <1>2, <1>3, <1>6, <2>1, Own DEF IInv, Cause, Locked, s
<1>8. Inserted(c)'
  BY <1>2, <1>5, <1>6 DEF Inserted, Here
<1> QED BY <1>1, <1>2, <1>3, <1>4, <1>7, <1>8, Own, OtherCalls DEF Locked

LEMMA EmbedFailsKeeps ==
    ASSUME IInv, NEW c \in Calls, EmbedFails(c)
    PROVE  IInv'
<1> DEFINE s == Session[c]
<1>1. TypeInv'
  <2>1. running' = running /\ lock' \in [Sessions -> {"none", "reserved", "pending"}]
    BY DEF EmbedFails, IInv, TypeInv
  <2>2. PICK failed : session' = [session EXCEPT ![s].failed = failed]
    BY DEF EmbedFails, Here
  <2>3. PICK pc : call' = [call EXCEPT ![c].outcome = "failed", ![c].todo = <<>>, ![c].pc = pc]
    BY DEF EmbedFails, Added
  <2>4. DOMAIN call' = Calls /\ call' = [d \in Calls |-> call'[d]]
    BY <2>3 DEF IInv, TypeInv
  <2>5. \A d \in Calls : IsCall(call'[d])
    BY <2>3 DEF IInv, TypeInv, IsCall
  <2>6. DOMAIN session' = Sessions /\ session' = [t \in Sessions |-> session'[t]]
    BY <2>2 DEF IInv, TypeInv
  <2>7. \A t \in Sessions : IsState(session'[t])
    <3>1. /\ s \in Sessions /\ DOMAIN session = Sessions
          /\ \A t \in Sessions : IsState(session[t])
      BY Own DEF IInv, TypeInv
    <3>2. /\ \A t \in Sessions \ {s} : session'[t] = session[t]
          /\ session'[s] = [session[s] EXCEPT !.failed = failed]
      BY <2>2, <3>1
    <3>3. IsState(session'[s])
      BY <3>1, <3>2 DEF IsState
    <3> QED BY <3>1, <3>2, <3>3
  <2> QED BY <2>1, <2>4, <2>5, <2>6, <2>7 DEF IInv, TypeInv
<1>2. /\ \A t \in Sessions \ {s} : session'[t] = session[t]
      /\ lock' = lock /\ running' = running
  BY Own DEF EmbedFails, IInv, TypeInv, Here
<1>3. /\ session'[s].memory = session[s].memory
      /\ session'[s].inTxn = session[s].inTxn
      /\ session'[s].failed = (session[s].failed \/ Lent(c))
      /\ session'[s].pending = session[s].pending /\ session'[s].reading = session[s].reading
  <2>1. s \in DOMAIN session /\ IsState(session[s])
    BY Own DEF IInv, TypeInv
  <2>2. session'[s].memory = session[s].memory /\ session'[s].pending = session[s].pending
    BY <2>1 DEF EmbedFails, Here, IsState
  <2>3. session'[s].inTxn = session[s].inTxn
    BY <2>1 DEF EmbedFails, Here, IsState
  <2>4. session'[s].failed = (session[s].failed \/ Lent(c))
    BY <2>1 DEF EmbedFails, Here, IsState
  <2>5. session'[s].reading = session[s].reading
    BY <2>1 DEF EmbedFails, Here, IsState
  <2> QED BY <2>2, <2>3, <2>4, <2>5
<1>4. \A d \in Calls \ {c} : call'[d] = call[d]
  BY DEF EmbedFails, IInv, TypeInv, Added
<1>5. At(c, "adding") /\ ~ At(c, "adding")' /\ ~ At(c, "idle") /\ call'[c].todo = <<>>
  BY DEF EmbedFails, IInv, TypeInv, IsCall, At, Added
<1>6. s \in running
  BY <1>5 DEF IInv, Inserted, Here
<1>7. Cause(s)'
  <2>1. Adds(s) => Adds(s)' \/ Lent(c)
    BY <1>3, <1>4 DEF Adds, CallsOf, Lent, State, Here, At, Stored, ToStore
  <2> HIDE DEF s
  <2> QED BY <1>2, <1>3, <1>6, <2>1, Own DEF IInv, Cause, Locked, s
<1>8. Inserted(c)'
  BY <1>2, <1>5, <1>6 DEF Inserted, Here
<1> QED BY <1>1, <1>2, <1>3, <1>4, <1>7, <1>8, Own, OtherCalls DEF Locked

LEMMA CommitKeeps ==
    ASSUME IInv, NEW c \in Calls, Commit(c)
    PROVE  IInv'
<1> DEFINE s == Session[c]
<1>1. TypeInv'
  <2>1. running' = running /\ lock' \in [Sessions -> {"none", "reserved", "pending"}]
    BY DEF Commit, IInv, TypeInv
  <2>2. PICK pending : session' = [session EXCEPT ![s].pending = pending, ![s].inTxn = FALSE,
                                                 ![s].reading = FALSE, ![s].failed = FALSE]
    BY DEF Commit, Here
  <2>3. PICK pc : call' = [call EXCEPT ![c].outcome = "stored", ![c].todo = <<>>, ![c].pc = pc]
    BY DEF Commit, Added
  <2>4. DOMAIN call' = Calls /\ call' = [d \in Calls |-> call'[d]]
    BY <2>3 DEF IInv, TypeInv
  <2>5. \A d \in Calls : IsCall(call'[d])
    BY <2>3 DEF IInv, TypeInv, IsCall
  <2>6. DOMAIN session' = Sessions /\ session' = [t \in Sessions |-> session'[t]]
    BY <2>2 DEF IInv, TypeInv
  <2>7. \A t \in Sessions : IsState(session'[t])
    <3>1. /\ s \in Sessions /\ DOMAIN session = Sessions
          /\ \A t \in Sessions : IsState(session[t])
      BY Own DEF IInv, TypeInv
    <3>2. /\ \A t \in Sessions \ {s} : session'[t] = session[t]
          /\ session'[s] = [session[s] EXCEPT !.pending = pending, !.inTxn = FALSE, !.reading = FALSE,
                                         !.failed = FALSE]
      BY <2>2, <3>1
    <3>3. IsState(session'[s])
      BY <3>1, <3>2 DEF IsState
    <3> QED BY <3>1, <3>2, <3>3
  <2> QED BY <2>1, <2>4, <2>5, <2>6, <2>7 DEF IInv, TypeInv
<1>2. /\ \A t \in Sessions \ {s} : session'[t] = session[t] /\ lock'[t] = lock[t]
      /\ lock'[s] = "none" /\ running' = running
  BY Own DEF Commit, IInv, TypeInv, Here
<1>3. /\ session'[s].memory = session[s].memory
      /\ ~ session'[s].inTxn /\ session'[s].pending = <<>> /\ ~ session'[s].reading
  <2>1. s \in DOMAIN session /\ IsState(session[s])
    BY Own DEF IInv, TypeInv
  <2>2. session'[s].memory = session[s].memory /\ session'[s].pending = <<>>
    BY <2>1 DEF Commit, Here, IsState
  <2>3. ~ session'[s].inTxn
    BY <2>1 DEF Commit, Here, IsState
  <2>4. ~ session'[s].reading
    BY <2>1 DEF Commit, Here, IsState
  <2> QED BY <2>2, <2>3, <2>4
<1>4. \A d \in Calls \ {c} : call'[d] = call[d]
  BY DEF Commit, IInv, TypeInv, Added
<1>5. At(c, "adding") /\ ~ At(c, "adding")' /\ ~ At(c, "idle") /\ call'[c].todo = <<>>
  BY DEF Commit, IInv, TypeInv, IsCall, At, Added
<1>6. s \in running /\ Lent(c)
  BY <1>5 DEF Commit, IInv, Inserted, Here, At
<1>7. Cause(s)'
  <2> HIDE DEF s
  <2> QED BY <1>2, <1>3 DEF Cause, Locked
<1>8. Inserted(c)'
  BY <1>2, <1>5, <1>6 DEF Inserted, Here
<1> QED BY <1>1, <1>2, <1>3, <1>4, <1>6, <1>7, <1>8, Own, OtherCalls DEF Locked

LEMMA CommitFailsKeeps ==
    ASSUME IInv, NEW c \in Calls, CommitFails(c)
    PROVE  IInv'
<1> DEFINE s == Session[c]
<1>1. TypeInv'
  <2>1. running' = running /\ lock' \in [Sessions -> {"none", "reserved", "pending"}]
    BY DEF CommitFails, IInv, TypeInv
  <2>2. PICK failed : session' = [session EXCEPT ![s].failed = failed]
    BY DEF CommitFails, Here
  <2>3. PICK pc : call' = [call EXCEPT ![c].outcome = "failed", ![c].todo = <<>>, ![c].pc = pc]
    BY DEF CommitFails, Added
  <2>4. DOMAIN call' = Calls /\ call' = [d \in Calls |-> call'[d]]
    BY <2>3 DEF IInv, TypeInv
  <2>5. \A d \in Calls : IsCall(call'[d])
    BY <2>3 DEF IInv, TypeInv, IsCall
  <2>6. DOMAIN session' = Sessions /\ session' = [t \in Sessions |-> session'[t]]
    BY <2>2 DEF IInv, TypeInv
  <2>7. \A t \in Sessions : IsState(session'[t])
    <3>1. /\ s \in Sessions /\ DOMAIN session = Sessions
          /\ \A t \in Sessions : IsState(session[t])
      BY Own DEF IInv, TypeInv
    <3>2. /\ \A t \in Sessions \ {s} : session'[t] = session[t]
          /\ session'[s] = [session[s] EXCEPT !.failed = failed]
      BY <2>2, <3>1
    <3>3. IsState(session'[s])
      BY <3>1, <3>2 DEF IsState
    <3> QED BY <3>1, <3>2, <3>3
  <2> QED BY <2>1, <2>4, <2>5, <2>6, <2>7 DEF IInv, TypeInv
<1>2. /\ \A t \in Sessions \ {s} : session'[t] = session[t] /\ lock'[t] = lock[t]
      /\ lock'[s] = "pending" /\ running' = running
  BY Own DEF CommitFails, IInv, TypeInv, Here
<1>3. /\ session'[s].memory = session[s].memory
      /\ session'[s].inTxn = session[s].inTxn /\ session'[s].failed
  BY Own DEF CommitFails, IInv, TypeInv, IsState, Here
<1>4. \A d \in Calls \ {c} : call'[d] = call[d]
  BY DEF CommitFails, IInv, TypeInv, Added
<1>5. At(c, "adding") /\ ~ At(c, "adding")' /\ ~ At(c, "idle") /\ call'[c].todo = <<>>
  BY DEF CommitFails, IInv, TypeInv, IsCall, At, Added
<1>6. s \in running /\ Locked(s)
  BY <1>5 DEF CommitFails, IInv, Inserted, Here, At
<1>7. Cause(s)'
  <2>1. session[s].inTxn
    BY <1>6, Own DEF IInv, Cause
  <2> HIDE DEF s
  <2> QED BY <1>2, <1>3, <1>6, <2>1 DEF Cause
<1>8. Inserted(c)'
  BY <1>2, <1>5, <1>6 DEF Inserted, Here
<1> QED BY <1>1, <1>2, <1>3, <1>4, <1>6, <1>7, <1>8, Own, OtherCalls DEF Locked

LEMMA RetrieveKeeps ==
    ASSUME IInv, NEW c \in Calls, Retrieve(c)
    PROVE  IInv'
<1> DEFINE s == Session[c]
<1>1. TypeInv'
  <2>1. running' = running /\ lock' = lock
    BY DEF Retrieve
  <2>2. call' = [call EXCEPT ![c].pc = "streaming"]
    BY DEF Retrieve
  <2>3. session' = [session EXCEPT ![s].reading = @ \/ session[s].inTxn]
    BY DEF Retrieve, Here
  <2>4. DOMAIN call' = Calls /\ call' = [d \in Calls |-> call'[d]]
    BY <2>2 DEF IInv, TypeInv
  <2>5. \A d \in Calls : IsCall(call'[d])
    BY <2>2 DEF IInv, TypeInv, IsCall
  <2>6. DOMAIN session' = Sessions /\ session' = [t \in Sessions |-> session'[t]]
    BY <2>3 DEF IInv, TypeInv
  <2>7. \A t \in Sessions : IsState(session'[t])
    <3>1. /\ s \in Sessions /\ DOMAIN session = Sessions
          /\ \A t \in Sessions : IsState(session[t])
      BY Own DEF IInv, TypeInv
    <3>2. /\ \A t \in Sessions \ {s} : session'[t] = session[t]
          /\ session'[s] = [session[s] EXCEPT !.reading = @ \/ session[s].inTxn]
      BY <2>3, <3>1
    <3>3. IsState(session'[s])
      BY <3>1, <3>2 DEF IsState
    <3> QED BY <3>1, <3>2, <3>3
  <2> QED BY <2>1, <2>4, <2>5, <2>6, <2>7 DEF IInv, TypeInv
<1>2. /\ \A t \in Sessions \ {s} : session'[t] = session[t]
      /\ lock' = lock /\ running' = running
  BY Own DEF Retrieve, IInv, TypeInv, Here
<1>3. /\ session'[s].memory = session[s].memory
      /\ session'[s].inTxn = session[s].inTxn /\ session'[s].failed = session[s].failed
      /\ session'[s].pending = session[s].pending
      /\ session'[s].reading = (session[s].reading \/ session[s].inTxn)
  <2>1. s \in DOMAIN session /\ IsState(session[s])
    BY Own DEF IInv, TypeInv
  <2>2. session'[s].memory = session[s].memory /\ session'[s].pending = session[s].pending
    BY <2>1 DEF Retrieve, Here, IsState
  <2>3. session'[s].inTxn = session[s].inTxn /\ session'[s].failed = session[s].failed
    BY <2>1 DEF Retrieve, Here, IsState
  <2>4. session'[s].reading = (session[s].reading \/ session[s].inTxn)
    BY <2>1 DEF Retrieve, Here, IsState
  <2> QED BY <2>2, <2>3, <2>4
<1>4. \A d \in Calls \ {c} : call'[d] = call[d]
  BY DEF Retrieve, IInv, TypeInv
<1>5. /\ ~ At(c, "adding") /\ ~ At(c, "adding")' /\ ~ At(c, "idle")
      /\ call'[c].todo = call[c].todo /\ call'[c].evicted = call[c].evicted
  <2>1. IsCall(call[c]) /\ c \in DOMAIN call
    BY DEF IInv, TypeInv
  <2>2. call' = [call EXCEPT ![c].pc = "streaming"]
    BY DEF Retrieve
  <2>3. call[c].pc = "recalling" /\ call'[c].pc = "streaming"
    BY <2>1, <2>2 DEF Retrieve, At, IsCall
  <2>4. call'[c].todo = call[c].todo /\ call'[c].evicted = call[c].evicted
    BY <2>1, <2>2 DEF IsCall
  <2> QED BY <2>3, <2>4 DEF At
<1>6. s \in running /\ Inserted(c)
  BY <1>5 DEF IInv, Inserted, Here
<1>7. Cause(s)'
  <2>1. Adds(s) => Adds(s)'
    BY <1>3, <1>4, <1>5 DEF Adds, CallsOf, Lent, State, Here, At, Stored, ToStore
  <2> HIDE DEF s
  <2> QED BY <1>2, <1>3, <1>6, <2>1, Own DEF IInv, Cause, Locked, s
<1>8. Inserted(c)'
  BY <1>2, <1>5, <1>6 DEF Inserted, Here, Stored, ToStore
<1> QED BY <1>1, <1>2, <1>3, <1>4, <1>7, <1>8, Own, OtherCalls DEF Locked

LEMMA Inductive == IInv /\ [Next]_vars => IInv'
<1> SUFFICES ASSUME IInv, [Next]_vars PROVE IInv'
  OBVIOUS
<1>1. CASE UNCHANGED vars
  BY <1>1 DEF vars, IInv, TypeInv, Cause, Adds, CallsOf, Inserted, OneWriter, Locked, Lent, State,
      Here, At, Stored, ToStore
<1>2. ASSUME NEW c \in Calls, Start(c) \/ Chat(c) \/ EmbedFails(c) \/ Step(c) PROVE IInv'
  BY <1>2, StartKeeps, ChatKeeps, InsertKeeps, InsertFailsKeeps, EmbedFailsKeeps, NothingStoredKeeps,
      CommitKeeps, CommitFailsKeeps, RetrieveKeeps, RecallsNothingKeeps, StreamEndKeeps DEF Step
<1>3. ASSUME NEW s \in Sessions, Exit(s) PROVE IInv'
  BY <1>3, ExitKeeps
<1> QED BY <1>1, <1>2, <1>3 DEF Next

\* A session has the store locked, or a transaction open, only while it adds or
\* after an add of its own has failed; and the store has one writer at most.
THEOREM OnlyFaultsBlock == Spec => []LockOnlyFromFault
<1>1. IInv => LockOnlyFromFault
  BY DEF IInv, OneWriter, Cause, Adds, LockOnlyFromFault
<1> QED BY <1>1, Initially, Inductive, PTL DEF Spec

-----------------------------------------------------------------------------
(* Sequences of messages.                                                   *)

\* A set of natural numbers that is not empty has a least member.
LEMMA LeastNat ==
    ASSUME NEW S, S \subseteq Nat, S # {}
    PROVE  \E x \in S : \A y \in S : x <= y
<1> DEFINE Less == {ss \in Nat \X Nat : ss[1] < ss[2]}
<1>1. IsWellFoundedOn(Less, Nat)
  BY NatLessThanWellFounded DEF OpToRel
<1> HIDE DEF Less
<1>2. \E x \in S : \A y \in S : ~(<<y, x>> \in Less)
  BY <1>1, WFMin
<1>3. PICK x \in S : \A y \in S : ~(<<y, x>> \in Less)
  BY <1>2
<1>4. \A y \in S : ~(y < x)
  BY <1>3 DEF Less
<1> QED BY <1>4

\* The messages of a sequence have ids, and come in their order.
InOrder(s) == \A i, j \in 1..Len(s) : i < j => s[i].id < s[j].id

\* A sequence of messages, place by place.
LEMMA MessageFacts ==
    ASSUME NEW s \in Seq(Message)
    PROVE  /\ Len(s) \in Nat /\ DOMAIN s = 1..Len(s)
           /\ \A i \in 1..Len(s) : s[i] \in Message /\ s[i].id \in Nat /\ s[i].size \in Nat
           /\ ToSet(s) = {s[i] : i \in 1..Len(s)}
<1>1. Len(s) \in Nat /\ DOMAIN s = 1..Len(s)
  BY LenProperties
<1>2. ASSUME NEW i \in 1..Len(s) PROVE s[i] \in Message /\ s[i].id \in Nat /\ s[i].size \in Nat
  <2>1. s[i] \in Message
    BY ElementOfSeq
  <2> QED BY <2>1 DEF Message
<1> QED BY <1>1, <1>2 DEF ToSet

\* What two sequences make, one after the other.
LEMMA JoinFacts ==
    ASSUME NEW s \in Seq(Message), NEW t \in Seq(Message)
    PROVE  /\ s \o t \in Seq(Message) /\ Len(s \o t) = Len(s) + Len(t)
           /\ \A i \in 1..Len(s) : (s \o t)[i] = s[i]
           /\ \A i \in 1..Len(t) : (s \o t)[Len(s) + i] = t[i]
           /\ ToSet(s \o t) = ToSet(s) \cup ToSet(t)
<1>1. /\ s \o t \in Seq(Message) /\ Len(s \o t) = Len(s) + Len(t)
      /\ \A i \in 1..(Len(s) + Len(t)) : (s \o t)[i] = IF i <= Len(s) THEN s[i] ELSE t[i - Len(s)]
  BY ConcatProperties, Zenon
<1>2. PICK a \in Nat, b \in Nat : a = Len(s) /\ b = Len(t)
  BY MessageFacts
<1>3. PICK u : u = s \o t
  OBVIOUS
<1>4. \A i \in 1..a : u[i] = s[i]
  BY <1>1, <1>2, <1>3
<1>5. \A i \in 1..b : u[a + i] = t[i]
  <2> TAKE i \in 1..b
  <2>1. a + i \in 1..(a + b) /\ ~(a + i <= a) /\ (a + i) - a = i
    OBVIOUS
  <2> QED BY <1>1, <1>2, <1>3, <2>1
<1>6. ToSet(u) = ToSet(s) \cup ToSet(t)
  <2>1. /\ ToSet(u) = {u[i] : i \in 1..(a + b)}
        /\ ToSet(s) = {s[i] : i \in 1..a} /\ ToSet(t) = {t[i] : i \in 1..b}
    BY <1>1, <1>2, <1>3, MessageFacts
  <2>2. ASSUME NEW x \in ToSet(u) PROVE x \in ToSet(s) \cup ToSet(t)
    <3>1. PICK i \in 1..(a + b) : x = u[i]
      BY <2>1
    <3>2. CASE i <= a
      <4>1. i \in 1..a
        BY <3>2
      <4> QED BY <1>4, <2>1, <3>1, <4>1
    <3>3. CASE ~(i <= a)
      <4>1. PICK k \in 1..b : i = a + k
        <5>1. i - a \in 1..b /\ i = a + (i - a)
          BY <3>3
        <5> QED BY <5>1
      <4> QED BY <1>5, <2>1, <3>1, <4>1
    <3> QED BY <3>2, <3>3
  <2>3. ASSUME NEW x \in ToSet(s) PROVE x \in ToSet(u)
    <3>1. PICK i \in 1..a : x = s[i]
      BY <2>1
    <3>2. i \in 1..(a + b)
      OBVIOUS
    <3> QED BY <1>4, <2>1, <3>1, <3>2
  <2>4. ASSUME NEW x \in ToSet(t) PROVE x \in ToSet(u)
    <3>1. PICK i \in 1..b : x = t[i]
      BY <2>1
    <3>2. a + i \in 1..(a + b)
      OBVIOUS
    <3> QED BY <1>5, <2>1, <3>1, <3>2
  <2> QED BY <2>2, <2>3, <2>4
<1> QED BY <1>1, <1>2, <1>3, <1>4, <1>5, <1>6

\* They are in order if each is, and the second comes after the first.
LEMMA JoinInOrder ==
    ASSUME NEW s \in Seq(Message), NEW t \in Seq(Message), InOrder(s), InOrder(t),
           \A x \in ToSet(s), y \in ToSet(t) : x.id < y.id
    PROVE  InOrder(s \o t)
<1>1. PICK a \in Nat, b \in Nat : a = Len(s) /\ b = Len(t)
  BY MessageFacts
<1>2. PICK u : u = s \o t
  OBVIOUS
<1>3. /\ Len(u) = a + b
      /\ \A i \in 1..a : u[i] = s[i]
      /\ \A i \in 1..b : u[a + i] = t[i]
  BY <1>1, <1>2, JoinFacts
<1>4. ASSUME NEW i \in 1..(a + b), NEW j \in 1..(a + b), i < j PROVE u[i].id < u[j].id
  <2>1. CASE j <= a
    <3>1. i \in 1..a /\ j \in 1..a
      BY <1>4, <2>1
    <3> QED BY <1>1, <1>3, <1>4, <3>1 DEF InOrder
  <2>2. CASE i <= a /\ ~(j <= a)
    <3>1. i \in 1..a
      BY <2>2
    <3>2. PICK k \in 1..b : j = a + k
      <4>1. j - a \in 1..b /\ j = a + (j - a)
        BY <2>2
      <4> QED BY <4>1
    <3>3. s[i] \in ToSet(s) /\ t[k] \in ToSet(t)
      BY <1>1, <3>1, MessageFacts
    <3> QED BY <1>3, <3>1, <3>2, <3>3
  <2>3. CASE ~(i <= a)
    <3>1. PICK k \in 1..b, l \in 1..b : i = a + k /\ j = a + l /\ k < l
      <4>1. /\ i - a \in 1..b /\ i = a + (i - a) /\ j - a \in 1..b /\ j = a + (j - a)
            /\ i - a < j - a
        BY <1>4, <2>3
      <4> QED BY <4>1
    <3> QED BY <1>1, <1>3, <3>1 DEF InOrder
  <2> QED BY <2>1, <2>2, <2>3
<1> QED BY <1>2, <1>3, <1>4 DEF InOrder

\* A set of messages has one order only.
LEMMA FirstAgrees ==
    ASSUME NEW s \in Seq(Message), NEW t \in Seq(Message), InOrder(s), InOrder(t),
           ToSet(s) = ToSet(t)
    PROVE  \A k \in 1..Len(s) : k <= Len(t) /\ s[k] = t[k]
<1> DEFINE D == {k \in 1..Len(s) : ~(k <= Len(t) /\ s[k] = t[k])}
<1>1. PICK a \in Nat, b \in Nat : a = Len(s) /\ b = Len(t)
  BY MessageFacts
<1>2. /\ ToSet(s) = {s[i] : i \in 1..a} /\ ToSet(t) = {t[i] : i \in 1..b}
      /\ \A i \in 1..a : s[i].id \in Nat
      /\ \A i \in 1..b : t[i].id \in Nat
  BY <1>1, MessageFacts
<1>3. /\ \A i, j \in 1..a : i < j => s[i].id < s[j].id
      /\ \A i, j \in 1..b : i < j => t[i].id < t[j].id
  BY <1>1 DEF InOrder
<1> SUFFICES ASSUME D # {} PROVE FALSE
  OBVIOUS
<1>4. D \subseteq Nat
  BY <1>1
<1>5. PICK x \in D : \A y \in D : x <= y
  BY <1>4, LeastNat
<1>6. x \in 1..a /\ ~(x <= b /\ s[x] = t[x])
  BY <1>1, <1>5
<1>7. \A i \in 1..a : i < x => i <= b /\ s[i] = t[i]
  <2> TAKE i \in 1..a
  <2>1. i < x => i \notin D
    BY <1>5, <1>6
  <2> QED BY <1>1, <2>1
<1> HIDE DEF D
<1>8. PICK y \in 1..b : s[x] = t[y]
  BY <1>2, <1>6
<1>9. ~(y < x)
  <2> SUFFICES ASSUME y < x PROVE FALSE
    OBVIOUS
  <2>1. y \in 1..a
    BY <1>6
  <2>2. s[y] = s[x] /\ s[y].id < s[x].id /\ s[x].id \in Nat
    BY <1>2, <1>3, <1>6, <1>7, <1>8, <2>1
  <2> QED BY <2>2
<1>10. x <= b /\ x \in 1..b
  BY <1>6, <1>8, <1>9
<1>11. PICK z \in 1..a : t[x] = s[z]
  BY <1>2, <1>10
<1>12. ~(z < x)
  <2> SUFFICES ASSUME z < x PROVE FALSE
    OBVIOUS
  <2>1. z \in 1..b
    BY <1>10
  <2>2. t[z] = t[x] /\ t[z].id < t[x].id /\ t[x].id \in Nat
    BY <1>2, <1>3, <1>7, <1>10, <1>11, <2>1
  <2> QED BY <2>2
<1>13. z # x => s[x].id < s[z].id
  BY <1>3, <1>6, <1>12
<1>14. y # x => t[x].id < t[y].id
  BY <1>3, <1>9, <1>10
<1>15. PICK p \in Nat, q \in Nat : p = s[x].id /\ q = t[x].id /\ p = t[y].id /\ q = s[z].id
  BY <1>2, <1>6, <1>8, <1>10, <1>11
<1>16. (z = x \/ p < q) /\ (y = x \/ q < p)
  BY <1>13, <1>14, <1>15
<1>17. z = x \/ y = x
  BY <1>16
<1> QED BY <1>6, <1>8, <1>10, <1>11, <1>17

\* ... so that two of the same set are the same.
LEMMA SameOrder ==
    ASSUME NEW s \in Seq(Message), NEW t \in Seq(Message), InOrder(s), InOrder(t),
           ToSet(s) = ToSet(t)
    PROVE  s = t
<1>1. /\ \A k \in 1..Len(s) : k <= Len(t) /\ s[k] = t[k]
      /\ \A k \in 1..Len(t) : k <= Len(s) /\ t[k] = s[k]
  BY FirstAgrees
<1>2. PICK a \in Nat, b \in Nat : a = Len(s) /\ b = Len(t)
  BY MessageFacts
<1>3. a = b
  <2>1. a # 0 => a <= b
    BY <1>1, <1>2
  <2>2. b # 0 => b <= a
    BY <1>1, <1>2
  <2> QED BY <2>1, <2>2
<1>4. Len(s) = Len(t) /\ \A i \in 1..Len(s) : s[i] = t[i]
  BY <1>1, <1>2, <1>3
<1> QED BY <1>4, SeqEqual

-----------------------------------------------------------------------------
(* What a sequence of messages costs (Tokens).                              *)

\* f says what the first messages of s cost, for any number of them up to n.
SumUp(f, s, n) == f = [i \in 0..n |-> IF i = 0 THEN 0 ELSE f[i - 1] + Cost(s[i])]

\* There is one.
LEMMA SumIs ==
    ASSUME NEW s, NEW n \in Nat
    PROVE  \E f : SumUp(f, s, n)
<1> DEFINE D == {k \in Nat : ~ \E f : SumUp(f, s, k)}
<1> SUFFICES ASSUME D # {} PROVE FALSE
  OBVIOUS
<1>1. D \subseteq Nat
  OBVIOUS
<1>2. PICK x \in D : \A y \in D : x <= y
  BY <1>1, LeastNat
<1>3. x \in Nat /\ ~ \E f : SumUp(f, s, x)
  BY <1>2
<1>4. x # 0
  <2> SUFFICES ASSUME x = 0 PROVE FALSE
    OBVIOUS
  <2> DEFINE g == [i \in 0..0 |-> 0]
  <2>1. g = [i \in 0..0 |-> IF i = 0 THEN 0 ELSE g[i - 1] + Cost(s[i])]
    OBVIOUS
  <2>2. SumUp(g, s, 0)
    BY <2>1 DEF SumUp
  <2> QED BY <1>3, <2>2
<1>5. PICK f : SumUp(f, s, x - 1)
  <2>1. x - 1 \in Nat /\ ~(x <= x - 1)
    BY <1>3, <1>4
  <2>2. x - 1 \notin D
    BY <1>2, <2>1
  <2> QED BY <2>1, <2>2
<1> HIDE DEF D
<1> DEFINE g == [i \in 0..x |-> IF i = x THEN f[x - 1] + Cost(s[x]) ELSE f[i]]
<1>6. \A i \in 0..(x - 1) : f[i] = IF i = 0 THEN 0 ELSE f[i - 1] + Cost(s[i])
  BY <1>5 DEF SumUp
<1>7. ASSUME NEW i \in 0..x PROVE g[i] = IF i = 0 THEN 0 ELSE g[i - 1] + Cost(s[i])
  <2>1. CASE i = 0
    BY <1>3, <1>4, <1>6, <2>1
  <2>2. CASE i = x
    <3>1. x - 1 \in 0..x /\ x - 1 # x
      BY <1>3, <1>4
    <3> QED BY <1>4, <2>2, <3>1
  <2>3. CASE i # 0 /\ i # x
    <3>1. i \in 0..(x - 1) /\ i - 1 \in 0..x /\ i - 1 # x
      BY <1>3, <2>3
    <3>2. g[i] = f[i] /\ g[i - 1] = f[i - 1]
      BY <2>3, <3>1
    <3> HIDE DEF g
    <3> QED BY <1>6, <2>3, <3>1, <3>2
  <2> QED BY <2>1, <2>2, <2>3
<1>8. g = [i \in 0..x |-> g[i]]
  OBVIOUS
<1> HIDE DEF g
<1>9. SumUp(g, s, x)
  BY <1>7, <1>8 DEF SumUp
<1> QED BY <1>3, <1>9

\* What it says, number by number.
LEMMA SumFacts ==
    ASSUME NEW s \in Seq(Message), NEW n \in 0..Len(s), NEW f, SumUp(f, s, n)
    PROVE  /\ f[0] = 0
           /\ \A i \in 1..n : f[i] = f[i - 1] + Cost(s[i]) /\ Cost(s[i]) \in Nat
           /\ \A i \in 0..n : f[i] \in Nat
<1>1. PICK a \in Nat : a = Len(s) /\ n \in Nat /\ n <= a
  BY MessageFacts
<1>2. \A i \in 0..n : f[i] = IF i = 0 THEN 0 ELSE f[i - 1] + Cost(s[i])
  BY DEF SumUp
<1>3. f[0] = 0
  BY <1>1, <1>2
<1>4. ASSUME NEW i \in 1..n PROVE f[i] = f[i - 1] + Cost(s[i]) /\ Cost(s[i]) \in Nat
  <2>1. i \in 0..n /\ i # 0 /\ i \in 1..a
    BY <1>1
  <2>2. s[i].size \in Nat
    BY <1>1, <2>1, MessageFacts
  <2> QED BY <1>2, <2>1, <2>2, WindowAssumption DEF Cost
<1> DEFINE D == {k \in 0..n : f[k] \notin Nat}
<1>5. D = {}
  <2> SUFFICES ASSUME D # {} PROVE FALSE
    OBVIOUS
  <2>1. D \subseteq Nat
    BY <1>1
  <2>2. PICK x \in D : \A y \in D : x <= y
    BY <2>1, LeastNat
  <2>3. x \in 0..n /\ f[x] \notin Nat
    BY <2>2
  <2>4. x # 0 /\ x \in 1..n
    BY <1>1, <1>3, <2>3
  <2>5. x - 1 \in 0..n /\ ~(x <= x - 1)
    BY <1>1, <2>4
  <2>6. f[x - 1] \in Nat
    BY <2>2, <2>5
  <2> HIDE DEF D
  <2> QED BY <1>4, <2>3, <2>4, <2>6
<1> QED BY <1>3, <1>4, <1>5

\* Tokens is such a sum, of all the messages.
LEMMA TokensIs ==
    ASSUME NEW s \in Seq(Message)
    PROVE  \E f : SumUp(f, s, Len(s)) /\ Tokens(s) = f[Len(s)]
<1>1. Tokens(s) = (CHOOSE f : SumUp(f, s, Len(s)))[Len(s)]
  BY DEF Tokens, SumUp
<1>2. Len(s) \in Nat
  BY MessageFacts
<1> QED BY <1>1, <1>2, SumIs

\* It is a number, and that of two sequences is the sum of theirs.
LEMMA TokensJoin ==
    ASSUME NEW s \in Seq(Message), NEW t \in Seq(Message)
    PROVE  Tokens(s) \in Nat /\ Tokens(t) \in Nat /\ Tokens(s \o t) = Tokens(s) + Tokens(t)
<1>1. PICK a \in Nat, b \in Nat : a = Len(s) /\ b = Len(t)
  BY MessageFacts
<1>2. PICK u \in Seq(Message) : u = s \o t
  BY JoinFacts
<1>3. Len(u) = a + b /\ \A i \in 1..a : u[i] = s[i]
  BY <1>1, <1>2, JoinFacts
<1>4. \A i \in 1..b : u[a + i] = t[i]
  BY <1>1, <1>2, JoinFacts
<1>5. PICK f : SumUp(f, s, a) /\ Tokens(s) = f[a]
  BY <1>1, TokensIs
<1>6. PICK g : SumUp(g, t, b) /\ Tokens(t) = g[b]
  BY <1>1, TokensIs
<1>7. PICK h : SumUp(h, u, a + b) /\ Tokens(u) = h[a + b]
  BY <1>3, TokensIs
<1>8. /\ f[0] = 0 /\ \A i \in 1..a : f[i] = f[i - 1] + Cost(s[i])
      /\ \A i \in 0..a : f[i] \in Nat
  <2>1. a \in 0..Len(s)
    BY <1>1
  <2> QED BY <1>5, <2>1, SumFacts
<1>9. /\ g[0] = 0 /\ \A i \in 1..b : g[i] = g[i - 1] + Cost(t[i]) /\ Cost(t[i]) \in Nat
      /\ \A i \in 0..b : g[i] \in Nat
  <2>1. b \in 0..Len(t)
    BY <1>1
  <2> QED BY <1>6, <2>1, SumFacts
<1>10. /\ h[0] = 0 /\ \A i \in 1..(a + b) : h[i] = h[i - 1] + Cost(u[i])
  <2>1. a + b \in 0..Len(u)
    BY <1>1, <1>3
  <2> QED BY <1>7, <2>1, SumFacts
<1>11. \A k \in 0..a : h[k] = f[k]
  <2> DEFINE D == {k \in 0..a : h[k] # f[k]}
  <2> SUFFICES ASSUME D # {} PROVE FALSE
    OBVIOUS
  <2>1. D \subseteq Nat
    OBVIOUS
  <2>2. PICK x \in D : \A y \in D : x <= y
    BY <2>1, LeastNat
  <2>3. x \in 0..a /\ h[x] # f[x]
    BY <2>2
  <2>4. x # 0 /\ x \in 1..a /\ x \in 1..(a + b)
    BY <1>8, <1>10, <2>3
  <2>5. x - 1 \in 0..a /\ ~(x <= x - 1)
    BY <2>4
  <2>6. h[x - 1] = f[x - 1]
    BY <2>2, <2>5
  <2> HIDE DEF D
  <2> QED BY <1>3, <1>8, <1>10, <2>3, <2>4, <2>6
<1>12. \A k \in 0..b : h[a + k] = f[a] + g[k]
  <2> DEFINE D == {k \in 0..b : h[a + k] # f[a] + g[k]}
  <2> SUFFICES ASSUME D # {} PROVE FALSE
    OBVIOUS
  <2>1. D \subseteq Nat
    OBVIOUS
  <2>2. PICK x \in D : \A y \in D : x <= y
    BY <2>1, LeastNat
  <2>3. x \in 0..b /\ h[a + x] # f[a] + g[x]
    BY <2>2
  <2>4. x # 0
    <3>1. h[a] = f[a] /\ f[a] \in Nat /\ a + 0 = a
      BY <1>8, <1>11
    <3> QED BY <1>9, <2>3, <3>1
  <2>5. x \in 1..b /\ a + x \in 1..(a + b) /\ x - 1 \in 0..b /\ ~(x <= x - 1)
    BY <2>3, <2>4
  <2>6. h[a + (x - 1)] = f[a] + g[x - 1]
    BY <2>2, <2>5
  <2> HIDE DEF D
  <2>7. h[a + x] = h[(a + x) - 1] + Cost(u[a + x]) /\ (a + x) - 1 = a + (x - 1)
    BY <1>10, <2>5
  <2>8. u[a + x] = t[x] /\ g[x] = g[x - 1] + Cost(t[x]) /\ Cost(t[x]) \in Nat
    BY <1>4, <1>9, <2>5
  <2>9. PICK p \in Nat, q \in Nat, r \in Nat : p = f[a] /\ q = g[x - 1] /\ r = Cost(t[x])
    <3>1. f[a] \in Nat /\ g[x - 1] \in Nat /\ Cost(t[x]) \in Nat
      <4>1. a \in 0..a
        OBVIOUS
      <4> QED BY <1>8, <1>9, <2>5, <2>8, <4>1
    <3> QED BY <3>1, Zenon
  <2>10. (p + q) + r = p + (q + r)
    OBVIOUS
  <2>11. h[a + x] = (p + q) + r
    BY <2>6, <2>7, <2>8, <2>9
  <2>12. f[a] + g[x] = p + (q + r)
    BY <2>8, <2>9
  <2> QED BY <2>3, <2>10, <2>11, <2>12
<1>13. b \in 0..b /\ a \in 0..a
  OBVIOUS
<1> QED BY <1>2, <1>5, <1>6, <1>7, <1>8, <1>9, <1>12, <1>13

\* No message costs nothing, and one what it costs.
LEMMA TokensOfFew ==
    /\ Tokens(<<>>) = 0
    /\ \A m \in Message : Tokens(<<m>>) = Cost(m) /\ Cost(m) \in Nat
<1>1. Tokens(<<>>) = 0
  <2>1. PICK s : s = <<>>
    OBVIOUS
  <2>4. s \in Seq(Message) /\ Len(s) = 0
    BY <2>1
  <2>2. PICK f : SumUp(f, s, 0) /\ Tokens(s) = f[0]
    BY <2>4, TokensIs
  <2>3. 0 \in 0..Len(s)
    BY <2>4
  <2> QED BY <2>1, <2>2, <2>3, <2>4, SumFacts
<1>2. ASSUME NEW m \in Message PROVE Tokens(<<m>>) = Cost(m) /\ Cost(m) \in Nat
  <2>1. PICK s : s = <<m>>
    OBVIOUS
  <2>5. s \in Seq(Message) /\ Len(s) = 1 /\ s[1] = m
    BY <2>1
  <2>2. PICK f : SumUp(f, s, 1) /\ Tokens(s) = f[1]
    BY <2>5, TokensIs
  <2>3. f[0] = 0 /\ \A i \in 1..1 : f[i] = f[i - 1] + Cost(s[i]) /\ Cost(s[i]) \in Nat
    <3>1. 1 \in 0..Len(s)
      BY <2>5
    <3> QED BY <2>2, <2>5, <3>1, SumFacts
  <2>4. f[1] = f[0] + Cost(s[1]) /\ Cost(s[1]) \in Nat
    <3>1. 1 \in 1..1 /\ 1 - 1 = 0
      OBVIOUS
    <3> QED BY <2>3, <3>1
  <2> QED BY <2>1, <2>2, <2>3, <2>4, <2>5
<1> QED BY <1>1, <1>2

-----------------------------------------------------------------------------
(* What is chosen of a sequence (Chosen).                                   *)

\* f says what is chosen of the first messages, for any number of them up to n.
Choice(f, s, set, n) ==
    f = [i \in 0..n |-> IF i = 0 THEN <<>>
                        ELSE IF s[i] \in set THEN Append(f[i - 1], s[i]) ELSE f[i - 1]]

\* There is one.
LEMMA ChoiceIs ==
    ASSUME NEW s, NEW set, NEW n \in Nat
    PROVE  \E f : Choice(f, s, set, n)
<1> DEFINE D == {k \in Nat : ~ \E f : Choice(f, s, set, k)}
<1> SUFFICES ASSUME D # {} PROVE FALSE
  OBVIOUS
<1>1. D \subseteq Nat
  OBVIOUS
<1>2. PICK x \in D : \A y \in D : x <= y
  BY <1>1, LeastNat
<1>3. x \in Nat /\ ~ \E f : Choice(f, s, set, x)
  BY <1>2
<1>4. x # 0
  <2> SUFFICES ASSUME x = 0 PROVE FALSE
    OBVIOUS
  <2> DEFINE g == [i \in 0..0 |-> <<>>]
  <2>1. g = [i \in 0..0 |-> IF i = 0 THEN <<>>
                            ELSE IF s[i] \in set THEN Append(g[i - 1], s[i]) ELSE g[i - 1]]
    OBVIOUS
  <2>2. Choice(g, s, set, 0)
    BY <2>1 DEF Choice
  <2> QED BY <1>3, <2>2
<1>5. PICK f : Choice(f, s, set, x - 1)
  <2>1. x - 1 \in Nat /\ ~(x <= x - 1)
    BY <1>3, <1>4
  <2>2. x - 1 \notin D
    BY <1>2, <2>1
  <2> QED BY <2>1, <2>2
<1> HIDE DEF D
<1> DEFINE g == [i \in 0..x |-> IF i = x THEN (IF s[x] \in set THEN Append(f[x - 1], s[x]) ELSE f[x - 1])
                                ELSE f[i]]
<1>6. \A i \in 0..(x - 1) : f[i] = IF i = 0 THEN <<>>
                                   ELSE IF s[i] \in set THEN Append(f[i - 1], s[i]) ELSE f[i - 1]
  BY <1>5 DEF Choice
<1>7. ASSUME NEW i \in 0..x
      PROVE  g[i] = IF i = 0 THEN <<>>
                    ELSE IF s[i] \in set THEN Append(g[i - 1], s[i]) ELSE g[i - 1]
  <2>1. CASE i = 0
    BY <1>3, <1>4, <1>6, <2>1
  <2>2. CASE i = x
    <3>1. x - 1 \in 0..x /\ x - 1 # x
      BY <1>3, <1>4
    <3> QED BY <1>4, <2>2, <3>1
  <2>3. CASE i # 0 /\ i # x
    <3>1. i \in 0..(x - 1) /\ i - 1 \in 0..x /\ i - 1 # x
      BY <1>3, <2>3
    <3>2. g[i] = f[i] /\ g[i - 1] = f[i - 1]
      BY <2>3, <3>1
    <3> HIDE DEF g
    <3> QED BY <1>6, <2>3, <3>1, <3>2
  <2> QED BY <2>1, <2>2, <2>3
<1>8. g = [i \in 0..x |-> g[i]]
  OBVIOUS
<1> HIDE DEF g
<1>9. Choice(g, s, set, x)
  BY <1>7, <1>8 DEF Choice
<1> QED BY <1>3, <1>9

\* The messages at the first k places.
FirstOf(s, k) == {s[i] : i \in 1..k}

\* r is what is chosen of the first k messages.
ChosenOf(r, s, set, k) == /\ r \in Seq(Message) /\ ToSet(r) = FirstOf(s, k) \cap set
                          /\ InOrder(s) => InOrder(r)

\* One message more.
LEMMA ChosenNext ==
    ASSUME NEW s \in Seq(Message), NEW set, NEW k \in 1..Len(s), NEW r, ChosenOf(r, s, set, k - 1)
    PROVE  ChosenOf(IF s[k] \in set THEN Append(r, s[k]) ELSE r, s, set, k)
<1>1. PICK n \in Nat : n = Len(s) /\ k \in 1..n /\ k \in Nat
  BY MessageFacts
<1>2. /\ r \in Seq(Message) /\ ToSet(r) = FirstOf(s, k - 1) \cap set
      /\ InOrder(s) => InOrder(r)
  BY DEF ChosenOf
<1>3. s[k] \in Message
  BY MessageFacts
<1>4. FirstOf(s, k) = FirstOf(s, k - 1) \cup {s[k]}
  <2>1. 1..k = (1..(k - 1)) \cup {k}
    BY <1>1
  <2> QED BY <2>1 DEF FirstOf
<1>5. CASE s[k] \notin set
  BY <1>2, <1>4, <1>5 DEF ChosenOf
<1>6. CASE s[k] \in set
  <2>1. PICK t : t = <<s[k]>>
    OBVIOUS
  <2>2. t \in Seq(Message) /\ Len(t) = 1 /\ t[1] = s[k]
    BY <1>3, <2>1
  <2>3. Append(r, s[k]) = r \o t
    BY <1>2, <1>3, <2>1, AppendIsConcat
  <2>4. ToSet(t) = {s[k]}
    <3>1. ToSet(t) = {t[i] : i \in 1..1}
      BY <2>2, MessageFacts
    <3>2. 1..1 = {1}
      OBVIOUS
    <3> QED BY <2>2, <3>1, <3>2
  <2>5. InOrder(t)
    BY <2>2 DEF InOrder
  <2>6. ToSet(r \o t) = FirstOf(s, k) \cap set
    BY <1>2, <1>4, <1>6, <2>2, <2>4, JoinFacts
  <2>7. ASSUME InOrder(s) PROVE InOrder(r \o t)
    <3>1. ASSUME NEW x \in ToSet(r), NEW y \in ToSet(t) PROVE x.id < y.id
      <4>1. PICK i \in 1..(k - 1) : x = s[i]
        BY <1>2 DEF FirstOf
      <4>2. y = s[k] /\ i \in 1..Len(s) /\ i < k
        BY <1>1, <2>4
      <4> QED BY <2>7, <4>1, <4>2 DEF InOrder
    <3> QED BY <1>2, <2>2, <2>5, <2>7, <3>1, JoinInOrder
  <2>8. r \o t \in Seq(Message)
    BY <1>2, <2>2, JoinFacts
  <2> QED BY <1>6, <2>3, <2>6, <2>7, <2>8 DEF ChosenOf
<1> QED BY <1>5, <1>6

\* Those of the messages that are in the set, in their order.
LEMMA ChosenFacts ==
    ASSUME NEW s \in Seq(Message), NEW set
    PROVE  /\ Chosen(s, set) \in Seq(Message)
           /\ ToSet(Chosen(s, set)) = ToSet(s) \cap set
           /\ InOrder(s) => InOrder(Chosen(s, set))
<1>1. PICK n \in Nat : n = Len(s)
  BY MessageFacts
<1>2. Chosen(s, set) = (CHOOSE f : Choice(f, s, set, Len(s)))[Len(s)]
  BY DEF Chosen, Choice
<1>3. PICK f : Choice(f, s, set, n) /\ Chosen(s, set) = f[n]
  BY <1>1, <1>2, ChoiceIs
<1>4. \A i \in 0..n : f[i] = IF i = 0 THEN <<>>
                             ELSE IF s[i] \in set THEN Append(f[i - 1], s[i]) ELSE f[i - 1]
  BY <1>3 DEF Choice
<1>5. ChosenOf(f[0], s, set, 0)
  <2>1. PICK r : r = f[0]
    OBVIOUS
  <2>2. r = <<>>
    BY <1>4, <2>1
  <2>3. r \in Seq(Message) /\ Len(r) = 0
    BY <2>2
  <2>4. ToSet(r) = {} /\ FirstOf(s, 0) = {}
    <3>1. 1..0 = {}
      OBVIOUS
    <3> QED BY <2>3, <3>1, MessageFacts DEF FirstOf
  <2>5. InOrder(r)
    BY <2>3 DEF InOrder
  <2> QED BY <2>1, <2>3, <2>4, <2>5 DEF ChosenOf
<1>6. \A k \in 0..n : ChosenOf(f[k], s, set, k)
  <2> DEFINE D == {k \in 0..n : ~ ChosenOf(f[k], s, set, k)}
  <2> SUFFICES ASSUME D # {} PROVE FALSE
    OBVIOUS
  <2>1. D \subseteq Nat
    OBVIOUS
  <2>2. PICK x \in D : \A y \in D : x <= y
    BY <2>1, LeastNat
  <2>3. x \in 0..n /\ ~ ChosenOf(f[x], s, set, x)
    BY <2>2
  <2>4. x # 0 /\ x \in 1..n
    BY <1>5, <2>3
  <2>5. x - 1 \in 0..n /\ ~(x <= x - 1)
    BY <2>4
  <2>6. ChosenOf(f[x - 1], s, set, x - 1)
    BY <2>2, <2>5
  <2> HIDE DEF D
  <2>7. PICK r : r = f[x - 1]
    OBVIOUS
  <2>8. ChosenOf(IF s[x] \in set THEN Append(r, s[x]) ELSE r, s, set, x)
    BY <1>1, <2>4, <2>6, <2>7, ChosenNext
  <2>9. f[x] = IF s[x] \in set THEN Append(r, s[x]) ELSE r
    BY <1>4, <2>3, <2>4, <2>7
  <2> QED BY <2>3, <2>8, <2>9, Zenon
<1>7. ChosenOf(f[n], s, set, n)
  BY <1>6
<1>8. FirstOf(s, n) = ToSet(s)
  BY <1>1, MessageFacts DEF FirstOf
<1> QED BY <1>3, <1>7, <1>8 DEF ChosenOf

-----------------------------------------------------------------------------
(* The walk over the middle (Walked).                                       *)

\* A message that comes before the others is put before them.
LEMMA Prepended ==
    ASSUME NEW m \in Message, NEW s \in Seq(Message), InOrder(s), \A x \in ToSet(s) : m.id < x.id
    PROVE  /\ <<m>> \o s \in Seq(Message) /\ InOrder(<<m>> \o s)
           /\ ToSet(<<m>> \o s) = {m} \cup ToSet(s)
           /\ Tokens(<<m>> \o s) = Cost(m) + Tokens(s)
           /\ Cost(m) \in Nat /\ Tokens(s) \in Nat
<1>1. PICK t : t = <<m>>
  OBVIOUS
<1>2. t \in Seq(Message) /\ Len(t) = 1 /\ t[1] = m
  BY <1>1
<1>3. ToSet(t) = {m}
  <2>1. ToSet(t) = {t[i] : i \in 1..1}
    BY <1>2, MessageFacts
  <2>2. 1..1 = {1}
    OBVIOUS
  <2> QED BY <1>2, <2>1, <2>2
<1>4. InOrder(t)
  BY <1>2 DEF InOrder
<1>5. t \o s \in Seq(Message) /\ ToSet(t \o s) = {m} \cup ToSet(s)
  BY <1>2, <1>3, JoinFacts
<1>6. InOrder(t \o s)
  BY <1>2, <1>3, <1>4, JoinInOrder
<1>7. Tokens(t) = Cost(m) /\ Cost(m) \in Nat
  BY <1>1, TokensOfFew
<1>8. Tokens(t \o s) = Tokens(t) + Tokens(s) /\ Tokens(s) \in Nat
  BY <1>2, TokensJoin
<1> QED BY <1>1, <1>5, <1>6, <1>7, <1>8

\* A message would not have fitted beside the newer ones that are kept.
NoRoom(m, kept, base) ==
    \E newer \in Seq(Message) :
        /\ InOrder(newer) /\ ToSet(newer) = {n \in ToSet(kept) : n.id > m.id}
        /\ base + Tokens(newer) + Cost(m) > Budget

\* What has been kept and evicted of a set of messages.
Split(kept, evicted, sum, base, set) ==
    /\ kept \in Seq(Message) /\ evicted \in Seq(Message) /\ InOrder(kept) /\ InOrder(evicted)
    /\ ToSet(kept) \cup ToSet(evicted) = set /\ ToSet(kept) \cap ToSet(evicted) = {}
    /\ sum = base + Tokens(kept) /\ (sum > Budget => kept = <<>>)
    /\ \A m \in ToSet(evicted) : NoRoom(m, kept, base)

\* A message before them is kept, if it fits.
LEMMA Keeps ==
    ASSUME NEW kept, NEW evicted, NEW sum, NEW base \in Nat, NEW set, Split(kept, evicted, sum, base, set),
           NEW m \in Message, \A x \in set : x.id \in Nat /\ m.id < x.id,
           sum + Cost(m) <= Budget
    PROVE  Split(<<m>> \o kept, evicted, sum + Cost(m), base, set \cup {m})
<1>1. /\ kept \in Seq(Message) /\ evicted \in Seq(Message) /\ InOrder(kept) /\ InOrder(evicted)
      /\ ToSet(kept) \cup ToSet(evicted) = set /\ ToSet(kept) \cap ToSet(evicted) = {}
      /\ sum = base + Tokens(kept)
      /\ \A e \in ToSet(evicted) : NoRoom(e, kept, base)
  BY DEF Split
<1>2. PICK more : more = <<m>> \o kept
  OBVIOUS
<1>3. /\ more \in Seq(Message) /\ InOrder(more) /\ ToSet(more) = {m} \cup ToSet(kept)
      /\ Tokens(more) = Cost(m) + Tokens(kept) /\ Cost(m) \in Nat /\ Tokens(kept) \in Nat
  BY <1>1, <1>2, Prepended
<1>4. m.id \in Nat
  BY DEF Message
<1>5. m \notin set
  BY <1>4
<1>6. ToSet(more) \cup ToSet(evicted) = set \cup {m} /\ ToSet(more) \cap ToSet(evicted) = {}
  BY <1>1, <1>3, <1>5
<1>7. sum + Cost(m) = base + Tokens(more)
  <2>1. PICK p \in Nat, q \in Nat : p = Cost(m) /\ q = Tokens(kept)
    BY <1>3
  <2>2. (base + q) + p = base + (p + q)
    OBVIOUS
  <2> QED BY <1>1, <1>3, <2>1, <2>2
<1>8. ~(sum + Cost(m) > Budget)
  <2>1. PICK p \in Nat, q \in Nat : p = Cost(m) /\ q = Tokens(kept)
    BY <1>3
  <2>2. sum = base + q /\ Budget \in Nat
    BY <1>1, <2>1, WindowAssumption
  <2> QED BY <2>1, <2>2
<1>9. ASSUME NEW e \in ToSet(evicted) PROVE NoRoom(e, more, base)
  <2>1. PICK newer \in Seq(Message) :
            /\ InOrder(newer) /\ ToSet(newer) = {n \in ToSet(kept) : n.id > e.id}
            /\ base + Tokens(newer) + Cost(e) > Budget
    BY <1>1 DEF NoRoom
  <2>2. e.id \in Nat /\ m.id < e.id
    BY <1>1
  <2>3. ~(m.id > e.id)
    BY <1>4, <2>2
  <2>4. {n \in ToSet(more) : n.id > e.id} = {n \in ToSet(kept) : n.id > e.id}
    BY <1>3, <2>3
  <2> QED BY <2>1, <2>4 DEF NoRoom
<1>10. Split(more, evicted, sum + Cost(m), base, set \cup {m})
  BY <1>1, <1>3, <1>6, <1>7, <1>8, <1>9 DEF Split
<1> QED BY <1>2, <1>10

\* ... and evicted if not.
LEMMA Evicts ==
    ASSUME NEW kept, NEW evicted, NEW sum, NEW base \in Nat, NEW set, Split(kept, evicted, sum, base, set),
           NEW m \in Message, \A x \in set : x.id \in Nat /\ m.id < x.id,
           ~(sum + Cost(m) <= Budget)
    PROVE  Split(kept, <<m>> \o evicted, sum, base, set \cup {m})
<1>1. /\ kept \in Seq(Message) /\ evicted \in Seq(Message) /\ InOrder(kept) /\ InOrder(evicted)
      /\ ToSet(kept) \cup ToSet(evicted) = set /\ ToSet(kept) \cap ToSet(evicted) = {}
      /\ sum = base + Tokens(kept) /\ (sum > Budget => kept = <<>>)
      /\ \A e \in ToSet(evicted) : NoRoom(e, kept, base)
  BY DEF Split
<1>2. PICK more : more = <<m>> \o evicted
  OBVIOUS
<1>3. /\ more \in Seq(Message) /\ InOrder(more) /\ ToSet(more) = {m} \cup ToSet(evicted)
      /\ Cost(m) \in Nat
  BY <1>1, <1>2, Prepended
<1>4. m.id \in Nat
  BY DEF Message
<1>5. m \notin set
  BY <1>4
<1>6. ToSet(kept) \cup ToSet(more) = set \cup {m} /\ ToSet(kept) \cap ToSet(more) = {}
  BY <1>1, <1>3, <1>5
<1>7. NoRoom(m, kept, base)
  <2>1. {n \in ToSet(kept) : n.id > m.id} = ToSet(kept)
    BY <1>1, <1>4
  <2>2. base + Tokens(kept) + Cost(m) > Budget
    <3>1. PICK p \in Nat, q \in Nat : p = Cost(m) /\ q = Tokens(kept)
      BY <1>1, <1>3, TokensJoin
    <3>2. sum = base + q /\ Budget \in Nat
      BY <1>1, <3>1, WindowAssumption
    <3> QED BY <3>1, <3>2
  <2> QED BY <1>1, <2>1, <2>2 DEF NoRoom
<1>8. \A e \in ToSet(more) : NoRoom(e, kept, base)
  BY <1>1, <1>3, <1>7
<1>9. Split(kept, more, sum, base, set \cup {m})
  BY <1>1, <1>3, <1>6, <1>8 DEF Split
<1> QED BY <1>2, <1>9

\* What the walk has in hand.
InHand(acc, base, set) ==
    \E kept, evicted, sum : /\ acc = [kept |-> kept, evicted |-> evicted, running |-> sum]
                            /\ Split(kept, evicted, sum, base, set)

\* One step of the walk.
LEMMA WalkKeeps ==
    ASSUME NEW acc, NEW base \in Nat, NEW set, InHand(acc, base, set),
           NEW m \in Message, \A x \in set : x.id \in Nat /\ m.id < x.id
    PROVE  InHand(Walk(m, acc), base, set \cup {m})
<1>1. PICK kept, evicted, sum : /\ acc = [kept |-> kept, evicted |-> evicted, running |-> sum]
                                /\ Split(kept, evicted, sum, base, set)
  BY DEF InHand
<1>2. CASE sum + Cost(m) <= Budget
  <2>1. Walk(m, acc) = [kept |-> <<m>> \o kept, evicted |-> evicted, running |-> sum + Cost(m)]
    BY <1>1, <1>2 DEF Walk
  <2>2. Split(<<m>> \o kept, evicted, sum + Cost(m), base, set \cup {m})
    BY <1>1, <1>2, Keeps
  <2> QED BY <2>1, <2>2 DEF InHand
<1>3. CASE ~(sum + Cost(m) <= Budget)
  <2>1. Walk(m, acc) = [kept |-> kept, evicted |-> <<m>> \o evicted, running |-> sum]
    BY <1>1, <1>3 DEF Walk
  <2>2. Split(kept, <<m>> \o evicted, sum, base, set \cup {m})
    BY <1>1, <1>3, Evicts
  <2> QED BY <2>1, <2>2 DEF InHand
<1> QED BY <1>2, <1>3

\* f says what the walk has in hand after k messages, for any k up to n.
WalkUp(f, mid, base, n) ==
    f = [k \in 0..n |-> IF k = 0 THEN NotWalked(base) ELSE Walk(mid[Len(mid) - k + 1], f[k - 1])]

\* There is one.
LEMMA WalkIs ==
    ASSUME NEW mid, NEW base, NEW n \in Nat
    PROVE  \E f : WalkUp(f, mid, base, n)
<1> DEFINE At1(k) == mid[Len(mid) - k + 1]
           D == {k \in Nat : ~ \E f : WalkUp(f, mid, base, k)}
<1> SUFFICES ASSUME D # {} PROVE FALSE
  OBVIOUS
<1>1. D \subseteq Nat
  OBVIOUS
<1>2. PICK x \in D : \A y \in D : x <= y
  BY <1>1, LeastNat
<1>3. x \in Nat /\ ~ \E f : WalkUp(f, mid, base, x)
  BY <1>2
<1>4. x # 0
  <2> SUFFICES ASSUME x = 0 PROVE FALSE
    OBVIOUS
  <2> DEFINE g == [k \in 0..0 |-> NotWalked(base)]
  <2>1. g = [k \in 0..0 |-> IF k = 0 THEN NotWalked(base) ELSE Walk(mid[Len(mid) - k + 1], g[k - 1])]
    OBVIOUS
  <2>2. WalkUp(g, mid, base, 0)
    BY <2>1 DEF WalkUp
  <2> QED BY <1>3, <2>2
<1>5. PICK f : WalkUp(f, mid, base, x - 1)
  <2>1. x - 1 \in Nat /\ ~(x <= x - 1)
    BY <1>3, <1>4
  <2>2. x - 1 \notin D
    BY <1>2, <2>1
  <2> QED BY <2>1, <2>2
<1> HIDE DEF D
<1>6. \A k \in 0..(x - 1) : f[k] = IF k = 0 THEN NotWalked(base) ELSE Walk(At1(k), f[k - 1])
  BY <1>5 DEF WalkUp
<1>7. \A h : /\ h = [k \in 0..x |-> h[k]]
             /\ \A k \in 0..x : h[k] = IF k = 0 THEN NotWalked(base) ELSE Walk(At1(k), h[k - 1])
             => WalkUp(h, mid, base, x)
  BY DEF WalkUp
<1> HIDE DEF At1
<1> DEFINE g == [k \in 0..x |-> IF k = x THEN Walk(At1(x), f[x - 1]) ELSE f[k]]
<1>8. ASSUME NEW k \in 0..x
      PROVE  g[k] = IF k = 0 THEN NotWalked(base) ELSE Walk(At1(k), g[k - 1])
  <2>1. CASE k = 0
    BY <1>3, <1>4, <1>6, <2>1
  <2>2. CASE k = x
    <3>1. x - 1 \in 0..x /\ x - 1 # x
      BY <1>3, <1>4
    <3> QED BY <1>4, <2>2, <3>1
  <2>3. CASE k # 0 /\ k # x
    <3>1. k \in 0..(x - 1) /\ k - 1 \in 0..x /\ k - 1 # x
      BY <1>3, <2>3
    <3>2. g[k] = f[k] /\ g[k - 1] = f[k - 1]
      BY <2>3, <3>1
    <3> HIDE DEF g
    <3> QED BY <1>6, <2>3, <3>1, <3>2
  <2> QED BY <2>1, <2>2, <2>3
<1>9. g = [k \in 0..x |-> g[k]]
  OBVIOUS
<1> HIDE DEF g
<1>10. WalkUp(g, mid, base, x)
  BY <1>7, <1>8, <1>9
<1> QED BY <1>3, <1>10

\* The last k messages of a sequence.
LastOf(s, k) == {s[i] : i \in (Len(s) - k + 1)..Len(s)}

\* What the walk has in hand when it is over.
LEMMA WalkedFacts ==
    ASSUME NEW mid \in Seq(Message), InOrder(mid), NEW base \in Nat
    PROVE  InHand(Walked(mid, base), base, ToSet(mid))
<1>1. PICK n \in Nat : n = Len(mid)
  BY MessageFacts
<1>2. Walked(mid, base) = (CHOOSE f : WalkUp(f, mid, base, Len(mid)))[Len(mid)]
  BY DEF Walked, WalkUp
<1>3. PICK f : WalkUp(f, mid, base, n) /\ Walked(mid, base) = f[n]
  BY <1>1, <1>2, WalkIs
<1>4. \A k \in 0..n : f[k] = IF k = 0 THEN NotWalked(base) ELSE Walk(mid[n - k + 1], f[k - 1])
  BY <1>1, <1>3 DEF WalkUp
<1>5. InHand(f[0], base, LastOf(mid, 0))
  <2>1. PICK s : s = <<>>
    OBVIOUS
  <2>2. s \in Seq(Message) /\ Len(s) = 0
    BY <2>1
  <2>3. ToSet(s) = {} /\ InOrder(s)
    <3>1. 1..0 = {}
      OBVIOUS
    <3> QED BY <2>2, <3>1, MessageFacts DEF InOrder
  <2>4. LastOf(mid, 0) = {}
    <3>1. (n - 0 + 1)..n = {}
      OBVIOUS
    <3> QED BY <1>1, <3>1 DEF LastOf
  <2>5. base = base + Tokens(s)
    BY <2>1, TokensOfFew
  <2>6. Split(s, s, base, base, {})
    BY <2>1, <2>2, <2>3, <2>5 DEF Split
  <2>7. f[0] = [kept |-> s, evicted |-> s, running |-> base]
    BY <1>4, <2>1 DEF NotWalked
  <2> QED BY <2>4, <2>6, <2>7 DEF InHand
<1>6. \A k \in 0..n : InHand(f[k], base, LastOf(mid, k))
  <2> DEFINE D == {k \in 0..n : ~ InHand(f[k], base, LastOf(mid, k))}
  <2> SUFFICES ASSUME D # {} PROVE FALSE
    OBVIOUS
  <2>1. D \subseteq Nat
    OBVIOUS
  <2>2. PICK x \in D : \A y \in D : x <= y
    BY <2>1, LeastNat
  <2>3. x \in 0..n /\ ~ InHand(f[x], base, LastOf(mid, x))
    BY <2>2
  <2>4. x # 0 /\ x \in 1..n
    BY <1>5, <2>3
  <2>5. x - 1 \in 0..n /\ ~(x <= x - 1)
    BY <2>4
  <2>6. InHand(f[x - 1], base, LastOf(mid, x - 1))
    BY <2>2, <2>5
  <2> HIDE DEF D
  <2>7. PICK p \in 1..n : p = n - x + 1
    BY <2>4
  <2>8. LastOf(mid, x) = LastOf(mid, x - 1) \cup {mid[p]}
    <3>1. n - (x - 1) + 1 = p + 1 /\ p..n = ((p + 1)..n) \cup {p}
      BY <2>4, <2>7
    <3>2. LastOf(mid, x) = {mid[i] : i \in p..n} /\ LastOf(mid, x - 1) = {mid[i] : i \in (p + 1)..n}
      BY <1>1, <2>7, <3>1 DEF LastOf
    <3> QED BY <3>1, <3>2
  <2>9. mid[p] \in Message
    BY <1>1, MessageFacts
  <2>10. \A y \in LastOf(mid, x - 1) : y.id \in Nat /\ mid[p].id < y.id
    <3> TAKE y \in LastOf(mid, x - 1)
    <3>1. n - (x - 1) + 1 = p + 1
      BY <2>4, <2>7
    <3>2. PICK i \in (p + 1)..n : y = mid[i]
      BY <1>1, <3>1 DEF LastOf
    <3>3. i \in 1..n /\ p < i
      OBVIOUS
    <3> QED BY <1>1, <3>2, <3>3, MessageFacts DEF InOrder
  <2>11. PICK m : m = mid[p]
    OBVIOUS
  <2>12. InHand(Walk(m, f[x - 1]), base, LastOf(mid, x - 1) \cup {m})
    <3>1. PICK acc, set : acc = f[x - 1] /\ set = LastOf(mid, x - 1)
      OBVIOUS
    <3>2. InHand(acc, base, set) /\ m \in Message /\ \A y \in set : y.id \in Nat /\ m.id < y.id
      BY <2>6, <2>9, <2>10, <2>11, <3>1
    <3>3. InHand(Walk(m, acc), base, set \cup {m})
      BY <3>2, WalkKeeps
    <3> QED BY <3>1, <3>3
  <2>13. f[x] = Walk(m, f[x - 1])
    BY <1>4, <2>3, <2>4, <2>7, <2>11
  <2> QED BY <2>3, <2>8, <2>11, <2>12, <2>13
<1>7. LastOf(mid, n) = ToSet(mid)
  <2>1. n - n + 1 = 1
    OBVIOUS
  <2> QED BY <1>1, <2>1, MessageFacts DEF LastOf
<1> QED BY <1>3, <1>6, <1>7

-----------------------------------------------------------------------------
(* The fit (FitIsSound).                                                    *)

\* A piece of a conversation: its messages from place a + 1 to b, in order.
LEMMA PieceOf ==
    ASSUME NEW msgs, Conversation(msgs), NEW a \in 0..Len(msgs), NEW b \in a..Len(msgs)
    PROVE  /\ SubSeq(msgs, a + 1, b) \in Seq(Message) /\ InOrder(SubSeq(msgs, a + 1, b))
           /\ ToSet(SubSeq(msgs, a + 1, b)) = {msgs[i] : i \in (a + 1)..b}
<1>1. msgs \in Seq(Message) /\ \A i \in 1..Len(msgs) : msgs[i].id = i
  BY DEF Conversation
<1>2. PICK n \in Nat : n = Len(msgs) /\ a \in Nat /\ b \in Nat /\ a <= b /\ b <= n
  BY <1>1, MessageFacts
<1>3. PICK c \in Nat : c = a + 1
  BY <1>2
<1>4. PICK s : s = SubSeq(msgs, c, b)
  OBVIOUS
<1>5. /\ s \in Seq(Message) /\ Len(s) = b - a
      /\ \A i \in 1..(b - a) : s[i] = msgs[a + i]
  <2>1. \A i \in c..b : msgs[i] \in Message
    BY <1>1, <1>2, <1>3, MessageFacts
  <2>2. c \in Int /\ b \in Int
    BY <1>2
  <2>3. /\ s \in Seq(Message) /\ Len(s) = IF c <= b THEN b - c + 1 ELSE 0
        /\ \A i \in 1..(b - c + 1) : s[i] = msgs[c + i - 1]
    BY <1>4, <2>1, <2>2, SubSeqProperties
  <2>4. b - c + 1 = b - a /\ (IF c <= b THEN b - c + 1 ELSE 0) = b - a /\ \A i \in Nat : c + i - 1 = a + i
    BY <1>2, <1>3
  <2>5. \A i \in 1..(b - a) : s[i] = msgs[a + i]
    <3> TAKE i \in 1..(b - a)
    <3>1. i \in 1..(b - c + 1) /\ c + i - 1 = a + i
      BY <2>4
    <3> QED BY <2>3, <3>1
  <2> QED BY <2>3, <2>4, <2>5
<1>6. \A i \in 1..(b - a) : a + i \in 1..n
  BY <1>2
<1>7. InOrder(s)
  <2>1. \A i \in 1..(b - a) : s[i].id = a + i
    BY <1>1, <1>2, <1>5, <1>6
  <2>2. \A i, j \in 1..(b - a) : i < j => a + i < a + j
    BY <1>2
  <2> QED BY <1>5, <2>1, <2>2 DEF InOrder
<1>8. ToSet(s) = {msgs[i] : i \in (a + 1)..b}
  <2>1. ToSet(s) = {s[i] : i \in 1..(b - a)}
    BY <1>5, MessageFacts
  <2>2. ASSUME NEW i \in (a + 1)..b PROVE msgs[i] \in ToSet(s)
    <3>1. i - a \in 1..(b - a) /\ a + (i - a) = i
      BY <1>2
    <3> QED BY <1>5, <2>1, <3>1
  <2>3. ASSUME NEW i \in 1..(b - a) PROVE s[i] \in {msgs[j] : j \in (a + 1)..b}
    <3>1. a + i \in (a + 1)..b
      BY <1>2
    <3> QED BY <1>5, <3>1
  <2> QED BY <2>1, <2>2, <2>3
<1> QED BY <1>3, <1>4, <1>5, <1>7, <1>8

\* The sink ends where the middle begins, the middle where the window does.
LEMMA Places ==
    ASSUME NEW msgs, Conversation(msgs)
    PROVE  /\ Len(msgs) \in Nat
           /\ SinkEnd(msgs) \in 0..Len(msgs)
           /\ WindowStart(msgs) \in SinkEnd(msgs)..Len(msgs)
<1>1. Len(msgs) \in Nat
  BY MessageFacts DEF Conversation
<1>2. LeadSystem(msgs) \in Nat
  <2> DEFINE others == {i \in 1..Len(msgs) : msgs[i].role # "system"}
  <2>1. CASE others = {}
    BY <1>1, <2>1 DEF LeadSystem
  <2>2. CASE others # {}
    <3>1. others \subseteq Nat
      BY <1>1
    <3>2. \E i \in others : \A j \in others : i <= j
      BY <2>2, <3>1, LeastNat
    <3>3. PICK i \in others : i = CHOOSE k \in others : \A j \in others : k <= j
      BY <3>2
    <3>4. i - 1 \in Nat
      BY <1>1, <3>3
    <3>5. LeadSystem(msgs) = i - 1
      BY <2>2, <3>3 DEF LeadSystem
    <3> QED BY <3>4, <3>5
  <2> QED BY <2>1, <2>2
<1>3. SinkMessages \in Nat /\ WindowMessages \in Nat
  BY WindowAssumption
<1>4. SinkEnd(msgs) \in 0..Len(msgs)
  BY <1>1, <1>2, <1>3 DEF SinkEnd, Least, Greatest
<1>5. WindowStart(msgs) \in SinkEnd(msgs)..Len(msgs)
  BY <1>1, <1>3, <1>4 DEF WindowStart, Greatest
<1> QED BY <1>1, <1>4, <1>5

\* The three parts of a conversation, each before the next.
Parts(msgs, sink, middle, window) ==
    /\ sink \in Seq(Message) /\ middle \in Seq(Message) /\ window \in Seq(Message)
    /\ InOrder(sink) /\ InOrder(middle) /\ InOrder(window)
    /\ ToSet(sink) \cup ToSet(middle) \cup ToSet(window) = ToSet(msgs)
    /\ \A x \in ToSet(sink), y \in ToSet(middle) : x.id < y.id
    /\ \A x \in ToSet(sink), y \in ToSet(window) : x.id < y.id
    /\ \A x \in ToSet(middle), y \in ToSet(window) : x.id < y.id
    /\ \A x \in ToSet(msgs) : x.id \in Nat

\* The partition makes them.
LEMMA PartsAre ==
    ASSUME NEW msgs, Conversation(msgs)
    PROVE  Parts(msgs, Sink(msgs), Middle(msgs), Window(msgs))
<1>1. msgs \in Seq(Message) /\ \A i \in 1..Len(msgs) : msgs[i].id = i
  BY DEF Conversation
<1>2. PICK n \in Nat, a \in Nat, b \in Nat :
          /\ n = Len(msgs) /\ a = SinkEnd(msgs) /\ b = WindowStart(msgs)
          /\ a <= b /\ b <= n
  <2>1. /\ Len(msgs) \in Nat /\ SinkEnd(msgs) \in 0..Len(msgs)
        /\ WindowStart(msgs) \in SinkEnd(msgs)..Len(msgs)
    BY Places
  <2> QED BY <2>1
<1>3. PICK s, m, w : s = Sink(msgs) /\ m = Middle(msgs) /\ w = Window(msgs)
  OBVIOUS
<1>4. s \in Seq(Message) /\ InOrder(s) /\ ToSet(s) = {msgs[i] : i \in 1..a}
  <2>1. 0 \in 0..Len(msgs) /\ a \in 0..Len(msgs) /\ 0 + 1 = 1
    BY <1>2
  <2>2. s = SubSeq(msgs, 0 + 1, a)
    BY <1>2, <1>3 DEF Sink
  <2> QED BY <2>1, <2>2, PieceOf
<1>5. m \in Seq(Message) /\ InOrder(m) /\ ToSet(m) = {msgs[i] : i \in (a + 1)..b}
  <2>1. a \in 0..Len(msgs) /\ b \in a..Len(msgs)
    BY <1>2
  <2>2. m = SubSeq(msgs, a + 1, b)
    BY <1>2, <1>3 DEF Middle
  <2> QED BY <2>1, <2>2, PieceOf
<1>6. w \in Seq(Message) /\ InOrder(w) /\ ToSet(w) = {msgs[i] : i \in (b + 1)..n}
  <2>1. b \in 0..Len(msgs) /\ n \in b..Len(msgs)
    BY <1>2
  <2>2. w = SubSeq(msgs, b + 1, n)
    BY <1>2, <1>3 DEF Window
  <2> QED BY <2>1, <2>2, PieceOf
<1>7. ToSet(msgs) = {msgs[i] : i \in 1..n}
  BY <1>1, <1>2, MessageFacts
<1>8. \A i \in 1..n : msgs[i].id = i /\ i \in Nat
  BY <1>1, <1>2
<1>9. ToSet(s) \cup ToSet(m) \cup ToSet(w) = ToSet(msgs)
  <2>1. 1..n = (1..a) \cup ((a + 1)..b) \cup ((b + 1)..n)
    BY <1>2
  <2> QED BY <1>4, <1>5, <1>6, <1>7, <2>1
<1>10. /\ \A x \in ToSet(s) : x.id \in 1..a
       /\ \A x \in ToSet(m) : x.id \in (a + 1)..b
       /\ \A x \in ToSet(w) : x.id \in (b + 1)..n
       /\ \A x \in ToSet(msgs) : x.id \in Nat
  <2>1. 1..a \subseteq 1..n /\ (a + 1)..b \subseteq 1..n /\ (b + 1)..n \subseteq 1..n
    BY <1>2
  <2> QED BY <1>4, <1>5, <1>6, <1>7, <1>8, <2>1
<1>11. /\ \A i \in 1..a, j \in (a + 1)..b : i < j
       /\ \A i \in 1..a, j \in (b + 1)..n : i < j
       /\ \A i \in (a + 1)..b, j \in (b + 1)..n : i < j
  BY <1>2
<1>12. /\ \A x \in ToSet(s), y \in ToSet(m) : x.id < y.id
       /\ \A x \in ToSet(s), y \in ToSet(w) : x.id < y.id
       /\ \A x \in ToSet(m), y \in ToSet(w) : x.id < y.id
  BY <1>10, <1>11
<1> QED BY <1>3, <1>4, <1>5, <1>6, <1>9, <1>10, <1>12 DEF Parts

\* Messages of the middle between the sink and the window.
LEMMA Between ==
    ASSUME NEW msgs, NEW s, NEW m, NEW w, Parts(msgs, s, m, w),
           NEW some \in Seq(Message), InOrder(some), ToSet(some) \subseteq ToSet(m)
    PROVE  /\ s \o some \o w \in Seq(Message) /\ InOrder(s \o some \o w)
           /\ ToSet(s \o some \o w) = ToSet(s) \cup ToSet(some) \cup ToSet(w)
           /\ Tokens(s \o some \o w) = Tokens(s) + Tokens(w) + Tokens(some)
           /\ Tokens(s) + Tokens(w) \in Nat /\ Tokens(some) \in Nat
<1>1. /\ s \in Seq(Message) /\ w \in Seq(Message) /\ InOrder(s) /\ InOrder(w)
      /\ \A x \in ToSet(s), y \in ToSet(some) : x.id < y.id
      /\ \A x \in ToSet(s), y \in ToSet(w) : x.id < y.id
      /\ \A x \in ToSet(some), y \in ToSet(w) : x.id < y.id
  BY DEF Parts
<1>2. PICK t : t = s \o some
  OBVIOUS
<1>3. /\ t \in Seq(Message) /\ InOrder(t) /\ ToSet(t) = ToSet(s) \cup ToSet(some)
      /\ Tokens(t) = Tokens(s) + Tokens(some) /\ Tokens(s) \in Nat /\ Tokens(some) \in Nat
  BY <1>1, <1>2, JoinFacts, JoinInOrder, TokensJoin
<1>4. \A x \in ToSet(t), y \in ToSet(w) : x.id < y.id
  BY <1>1, <1>3
<1>5. /\ t \o w \in Seq(Message) /\ InOrder(t \o w) /\ ToSet(t \o w) = ToSet(t) \cup ToSet(w)
      /\ Tokens(t \o w) = Tokens(t) + Tokens(w) /\ Tokens(w) \in Nat
  BY <1>1, <1>3, <1>4, JoinFacts, JoinInOrder, TokensJoin
<1>6. PICK p \in Nat, q \in Nat, r \in Nat : p = Tokens(s) /\ q = Tokens(some) /\ r = Tokens(w)
  BY <1>3, <1>5
<1>7. (p + q) + r = p + r + q /\ p + r \in Nat
  OBVIOUS
<1>8. Tokens(t \o w) = Tokens(s) + Tokens(w) + Tokens(some)
  BY <1>3, <1>5, <1>6, <1>7
<1> QED BY <1>2, <1>3, <1>5, <1>6, <1>7, <1>8

\* A conversation is in order.
LEMMA ConversationInOrder ==
    ASSUME NEW msgs, Conversation(msgs)
    PROVE  msgs \in Seq(Message) /\ InOrder(msgs)
<1>1. Len(msgs) \in Nat
  BY MessageFacts DEF Conversation
<1> QED BY <1>1 DEF Conversation, InOrder

\* What FitIsSound says of one conversation.
Fitted(conv, messages, evictions, tokens) ==
    LET sent == ToSet(messages)
        evicted == ToSet(evictions)
        protected == ToSet(Sink(conv)) \cup ToSet(Window(conv))
        Beside(m) == Chosen(messages, protected \cup {n \in sent : n.id > m.id})
    IN  /\ sent \cup evicted = ToSet(conv) /\ sent \cap evicted = {}
        /\ messages = Chosen(conv, sent) /\ evictions = Chosen(conv, evicted)
        /\ protected \subseteq sent
        /\ tokens = Tokens(messages)
        /\ tokens > Budget => sent = protected
        /\ \A m \in evicted : Tokens(Beside(m)) + Cost(m) > Budget

\* fit() does it, for every conversation.
LEMMA FitFits ==
    ASSUME NEW conv, Conversation(conv)
    PROVE  /\ Fitted(conv, Fit(conv).messages, Fit(conv).evicted, Fit(conv).tokens)
           /\ Fit(conv).evicted \in Seq(Message)
<1>1. PICK s, m, w : s = Sink(conv) /\ m = Middle(conv) /\ w = Window(conv)
  OBVIOUS
<1>2. Parts(conv, s, m, w)
  BY <1>1, PartsAre
<1>3. /\ s \in Seq(Message) /\ m \in Seq(Message) /\ w \in Seq(Message) /\ InOrder(m)
      /\ ToSet(s) \cup ToSet(m) \cup ToSet(w) = ToSet(conv)
      /\ \A x \in ToSet(conv) : x.id \in Nat
  BY <1>2 DEF Parts
<1>4. PICK base \in Nat : base = Tokens(s) + Tokens(w)
  BY <1>3, TokensJoin
<1>5. PICK kept, evicted, sum :
          /\ Walked(m, base) = [kept |-> kept, evicted |-> evicted, running |-> sum]
          /\ Split(kept, evicted, sum, base, ToSet(m))
  BY <1>3, WalkedFacts DEF InHand
<1>6. /\ kept \in Seq(Message) /\ evicted \in Seq(Message) /\ InOrder(kept) /\ InOrder(evicted)
      /\ ToSet(kept) \cup ToSet(evicted) = ToSet(m) /\ ToSet(kept) \cap ToSet(evicted) = {}
      /\ sum = base + Tokens(kept) /\ (sum > Budget => kept = <<>>)
      /\ \A x \in ToSet(evicted) : NoRoom(x, kept, base)
  BY <1>5 DEF Split
<1>7. PICK final : final = s \o kept \o w
  OBVIOUS
<1>8. Fit(conv) = [messages |-> final, evicted |-> evicted, tokens |-> Tokens(final)]
  <2>1. PICK walked : walked = Walked(m, base)
    OBVIOUS
  <2>2. walked.kept = kept /\ walked.evicted = evicted
    BY <1>5, <2>1
  <2>3. Fit(conv) = [messages |-> s \o walked.kept \o w, evicted |-> walked.evicted,
                     tokens |-> Tokens(s \o walked.kept \o w)]
    BY <1>1, <1>4, <2>1 DEF Fit
  <2> QED BY <1>7, <2>2, <2>3
<1>9. /\ final \in Seq(Message) /\ InOrder(final)
      /\ ToSet(final) = ToSet(s) \cup ToSet(kept) \cup ToSet(w)
      /\ Tokens(final) = base + Tokens(kept)
  BY <1>2, <1>4, <1>6, <1>7, Between
<1>10. conv \in Seq(Message) /\ InOrder(conv)
  BY ConversationInOrder
<1> DEFINE protected == ToSet(s) \cup ToSet(w)
<1>11. protected \cap ToSet(m) = {}
  <2> SUFFICES ASSUME NEW x \in ToSet(m), x \in protected PROVE FALSE
    OBVIOUS
  <2>1. x.id < x.id /\ x.id \in Nat
    BY <1>2, <1>3 DEF Parts
  <2> QED BY <2>1
<1>12. ToSet(final) \cup ToSet(evicted) = ToSet(conv) /\ ToSet(final) \cap ToSet(evicted) = {}
  BY <1>3, <1>6, <1>9, <1>11
<1>13. final = Chosen(conv, ToSet(final)) /\ evicted = Chosen(conv, ToSet(evicted))
  <2>1. ASSUME NEW t \in Seq(Message), InOrder(t), ToSet(t) \subseteq ToSet(conv)
        PROVE  t = Chosen(conv, ToSet(t))
    <3>1. PICK c : c = Chosen(conv, ToSet(t))
      OBVIOUS
    <3>3. c \in Seq(Message) /\ InOrder(c) /\ ToSet(c) = ToSet(conv) \cap ToSet(t)
      BY <1>10, <3>1, ChosenFacts
    <3>2. c \in Seq(Message) /\ InOrder(c) /\ ToSet(c) = ToSet(t)
      BY <2>1, <3>3
    <3> QED BY <2>1, <3>1, <3>2, SameOrder
  <2> QED BY <1>6, <1>9, <1>12, <2>1
<1>14. Tokens(final) > Budget => ToSet(final) = protected
  <2> SUFFICES ASSUME Tokens(final) > Budget PROVE ToSet(final) = protected
    OBVIOUS
  <2>1. kept = <<>>
    BY <1>6, <1>9
  <2>2. Len(kept) = 0 /\ 1..0 = {}
    BY <2>1
  <2>3. ToSet(kept) = {}
    <3>1. ToSet(kept) = {kept[i] : i \in 1..Len(kept)}
      BY <1>6, MessageFacts
    <3> QED BY <2>2, <3>1
  <2> QED BY <1>9, <2>3
<1>15. ASSUME NEW x \in ToSet(evicted)
       PROVE  Tokens(Chosen(final, protected \cup {n \in ToSet(final) : n.id > x.id})) + Cost(x) > Budget
  <2>1. PICK newer \in Seq(Message) :
            /\ InOrder(newer) /\ ToSet(newer) = {n \in ToSet(kept) : n.id > x.id}
            /\ base + Tokens(newer) + Cost(x) > Budget
    BY <1>6 DEF NoRoom
  <2>2. PICK t : t = s \o newer \o w
    OBVIOUS
  <2>3. /\ t \in Seq(Message) /\ InOrder(t)
        /\ ToSet(t) = ToSet(s) \cup ToSet(newer) \cup ToSet(w)
        /\ Tokens(t) = base + Tokens(newer)
    <3>1. ToSet(newer) \subseteq ToSet(m)
      BY <1>6, <2>1
    <3> QED BY <1>2, <1>4, <2>1, <2>2, <3>1, Between
  <2>4. PICK set : set = protected \cup {n \in ToSet(final) : n.id > x.id}
    OBVIOUS
  <2>5. ToSet(final) \cap set = ToSet(t)
    BY <1>9, <2>1, <2>3, <2>4
  <2>6. PICK c : c = Chosen(final, set)
    OBVIOUS
  <2>7. c \in Seq(Message) /\ InOrder(c) /\ ToSet(c) = ToSet(t)
    BY <1>9, <2>5, <2>6, ChosenFacts
  <2>8. c = t
    BY <2>3, <2>7, SameOrder
  <2> QED BY <2>1, <2>3, <2>4, <2>6, <2>8
<1>16. protected \subseteq ToSet(final)
  BY <1>9
<1>17. protected = ToSet(Sink(conv)) \cup ToSet(Window(conv))
  BY <1>1
<1> HIDE DEF protected
<1>18. Fitted(conv, final, evicted, Tokens(final))
  BY <1>12, <1>13, <1>14, <1>15, <1>16, <1>17 DEF Fitted
<1> QED BY <1>6, <1>8, <1>18

\* The fit of any conversation is sound: nothing is lost or sent twice, the opening
\* and the latest messages are sent, and what is evicted would not have fitted.
THEOREM FitStaysSound == Spec => []FitIsSound
<1>1. FitIsSound
  <2>1. ASSUME NEW conv \in Conversations
        PROVE  Fitted(conv, Fit(conv).messages, Fit(conv).evicted, Fit(conv).tokens)
    BY TalkAssumption, FitFits
  <2> QED BY <2>1 DEF FitIsSound, Fitted
<1> QED BY <1>1, PTL

-----------------------------------------------------------------------------
(* What is stored (StoredIsThere).                                          *)

\* What is left to store of all is the end of it.
Rest(all, todo) ==
    /\ Len(todo) <= Len(all)
    /\ \A k \in 1..Len(todo) : todo[k] = all[Len(all) - Len(todo) + k]

\* What is stored already is the end of what is pending.
Written(all, todo, pending) ==
    /\ Len(all) - Len(todo) <= Len(pending)
    /\ \A k \in 1..(Len(all) - Len(todo)) :
          pending[Len(pending) - (Len(all) - Len(todo)) + k] = all[k].id

\* Somewhere in the blocks are all of them.
There(all, blocks) ==
    \E i \in 0..Len(blocks) : /\ i + Len(all) <= Len(blocks)
                              /\ \A k \in 1..Len(all) : blocks[i + k] = all[k].id

DataInv ==
    /\ rows \in Seq(Nat)
    /\ \A s \in Sessions : session[s].pending \in Seq(Nat)
    /\ \A c \in Calls : call[c].evicted \in Seq(Message) /\ call[c].todo \in Seq(Message)

\* A call that adds has the rest before it, and behind it, in its session's
\* transaction, what it has inserted; only the thread that owns the connection has
\* inserted anything.
Storing(c) ==
    /\ At(c, "idle") \/ At(c, "adding") => call[c].outcome = "none"
    /\ At(c, "adding") => Rest(ToStore(c), call[c].todo)
    /\ At(c, "adding") /\ Lent(c) => Written(ToStore(c), call[c].todo, State(c).pending)
    /\ call[c].outcome = "stored" => There(ToStore(c), rows)

\* The strengthening that makes StoredIsThere inductive.
StoreInv == IInv /\ DataInv /\ \A c \in Calls : Storing(c)

-----------------------------------------------------------------------------
\* The ids of a session's blocks, place by place.
LEMMA BlockFacts ==
    ASSUME NEW p \in Seq(Nat)
    PROVE  Len(p) \in Nat /\ \A i \in 1..Len(p) : p[i] \in Nat
BY LenProperties, ElementOfSeq

\* What one message more makes of what is pending.
LEMMA AppendFacts ==
    ASSUME NEW p \in Seq(Nat), NEW id \in Nat
    PROVE  /\ Append(p, id) \in Seq(Nat) /\ Len(Append(p, id)) = Len(p) + 1
           /\ \A i \in 1..Len(p) : Append(p, id)[i] = p[i]
           /\ Append(p, id)[Len(p) + 1] = id
OBVIOUS

\* What two sequences of blocks make, one after the other.
LEMMA BlocksJoin ==
    ASSUME NEW r \in Seq(Nat), NEW p \in Seq(Nat)
    PROVE  /\ r \o p \in Seq(Nat) /\ Len(r \o p) = Len(r) + Len(p)
           /\ \A i \in 1..Len(r) : (r \o p)[i] = r[i]
           /\ \A i \in 1..Len(p) : (r \o p)[Len(r) + i] = p[i]
<1>1. /\ r \o p \in Seq(Nat) /\ Len(r \o p) = Len(r) + Len(p)
      /\ \A i \in 1..(Len(r) + Len(p)) : (r \o p)[i] = IF i <= Len(r) THEN r[i] ELSE p[i - Len(r)]
  BY ConcatProperties, Zenon
<1>2. PICK a \in Nat, b \in Nat : a = Len(r) /\ b = Len(p)
  BY BlockFacts
<1>3. PICK u : u = r \o p
  OBVIOUS
<1>4. \A i \in 1..a : u[i] = r[i]
  BY <1>1, <1>2, <1>3
<1>5. \A i \in 1..b : u[a + i] = p[i]
  <2> TAKE i \in 1..b
  <2>1. a + i \in 1..(a + b) /\ ~(a + i <= a) /\ (a + i) - a = i
    OBVIOUS
  <2> QED BY <1>1, <1>2, <1>3, <2>1
<1> QED BY <1>1, <1>2, <1>3, <1>4, <1>5

\* When nothing is stored yet, all is left to store.
LEMMA StoreBegins ==
    ASSUME NEW all \in Seq(Message), NEW p \in Seq(Nat)
    PROVE  Rest(all, all) /\ Written(all, all, p)
<1>1. PICK n \in Nat, q \in Nat : n = Len(all) /\ q = Len(p)
  BY MessageFacts, BlockFacts
<1>2. n - n = 0 /\ \A k \in 1..n : n - n + k = k
  OBVIOUS
<1>3. 1..0 = {}
  OBVIOUS
<1> QED BY <1>1, <1>2, <1>3 DEF Rest, Written

\* One message is stored.
LEMMA StoreGoesOn ==
    ASSUME NEW all \in Seq(Message), NEW todo \in Seq(Message), todo # <<>>, Rest(all, todo)
    PROVE  /\ Tail(todo) \in Seq(Message) /\ Head(todo).id \in Nat /\ Rest(all, Tail(todo))
           /\ \A p \in Seq(Nat) :
                Written(all, todo, p) => Written(all, Tail(todo), Append(p, Head(todo).id))
<1>1. PICK n \in Nat, t \in Nat : n = Len(all) /\ t = Len(todo)
  BY MessageFacts
<1>2. /\ Tail(todo) \in Seq(Message) /\ Len(Tail(todo)) = t - 1
      /\ \A i \in 1..(t - 1) : Tail(todo)[i] = todo[i + 1]
  BY <1>1, HeadTailProperties
<1>3. t # 0
  BY <1>1, EmptySeq
<1>4. t <= n /\ \A k \in 1..t : todo[k] = all[n - t + k]
  BY <1>1 DEF Rest
<1>5. PICK tail, h : tail = Tail(todo) /\ h = Head(todo)
  OBVIOUS
<1>6. 1 \in 1..t /\ h = todo[1]
  BY <1>1, <1>3, <1>5
<1>7. h.id \in Nat /\ h = all[n - t + 1]
  BY <1>1, <1>4, <1>6, MessageFacts
<1>8. Rest(all, tail)
  <2>1. ASSUME NEW k \in 1..(t - 1) PROVE tail[k] = all[n - (t - 1) + k]
    <3>1. k + 1 \in 1..t /\ n - t + (k + 1) = n - (t - 1) + k
      OBVIOUS
    <3> QED BY <1>2, <1>4, <1>5, <3>1
  <2>2. t - 1 <= n
    BY <1>4
  <2> QED BY <1>1, <1>2, <1>5, <2>1, <2>2 DEF Rest
<1>9. ASSUME NEW p \in Seq(Nat), Written(all, todo, p) PROVE Written(all, tail, Append(p, h.id))
  <2>0. PICK u : u = Append(p, h.id)
    OBVIOUS
  <2>1. PICK q \in Nat : q = Len(p) /\ u = Append(p, h.id)
    BY <2>0, BlockFacts
  <2>2. Len(u) = q + 1 /\ (\A i \in 1..q : u[i] = p[i]) /\ u[q + 1] = h.id
    BY <1>7, <2>1, AppendFacts
  <2>3. n - t <= q /\ \A k \in 1..(n - t) : p[q - (n - t) + k] = all[k].id
    BY <1>1, <1>9, <2>1 DEF Written
  <2>4. PICK w \in Nat : w = n - t
    BY <1>4
  <2>5. n - (t - 1) = w + 1
    BY <2>4
  <2>6. ASSUME NEW k \in 1..(w + 1) PROVE u[(q + 1) - (w + 1) + k] = all[k].id
    <3>1. CASE k = w + 1
      <4>1. (q + 1) - (w + 1) + k = q + 1 /\ k = n - t + 1
        BY <2>4, <3>1
      <4> QED BY <1>7, <2>2, <4>1
    <3>2. CASE k # w + 1
      <4>1. k \in 1..w /\ (q + 1) - (w + 1) + k = q - w + k /\ q - w + k \in 1..q
        BY <2>3, <2>4, <3>2
      <4> QED BY <2>2, <2>3, <2>4, <4>1
    <3> QED BY <3>1, <3>2
  <2>7. w + 1 <= q + 1
    BY <2>3, <2>4
  <2>8. /\ n - (t - 1) <= q + 1
        /\ \A k \in 1..(n - (t - 1)) : u[(q + 1) - (n - (t - 1)) + k] = all[k].id
    BY <2>5, <2>6, <2>7, Zenon
  <2> QED BY <1>1, <1>2, <1>5, <2>1, <2>2, <2>8, Zenon DEF Written
<1> QED BY <1>2, <1>5, <1>7, <1>8, <1>9

\* When nothing is left, what is pending ends with all of them: when it is
\* committed, they are there.
LEMMA StoreEnds ==
    ASSUME NEW all \in Seq(Message), NEW r \in Seq(Nat), NEW p \in Seq(Nat), Written(all, <<>>, p)
    PROVE  There(all, r \o p)
<1>0. PICK u : u = r \o p
  OBVIOUS
<1>1. PICK n \in Nat, a \in Nat, q \in Nat : n = Len(all) /\ a = Len(r) /\ q = Len(p) /\ u = r \o p
  BY <1>0, MessageFacts, BlockFacts
<1>2. Len(u) = a + q /\ \A i \in 1..q : u[a + i] = p[i]
  BY <1>1, BlocksJoin
<1>3. Len(<<>>) = 0
  OBVIOUS
<1>4. n - 0 <= q /\ \A k \in 1..(n - 0) : p[q - (n - 0) + k] = all[k].id
  BY <1>1, <1>3, Zenon DEF Written
<1>5. PICK i \in Nat : i = a + (q - n)
  BY <1>4
<1>6. i \in 0..(a + q) /\ i + n <= a + q
  BY <1>4, <1>5
<1>7. ASSUME NEW k \in 1..n PROVE u[i + k] = all[k].id
  <2>1. q - n + k \in 1..q /\ i + k = a + (q - n + k) /\ k \in 1..(n - 0) /\ q - (n - 0) + k = q - n + k
    BY <1>4, <1>5
  <2> QED BY <1>2, <1>4, <2>1
<1> QED BY <1>1, <1>2, <1>6, <1>7 DEF There

\* What is there stays there when blocks are added.
LEMMA ThereStays ==
    ASSUME NEW all \in Seq(Message), NEW r \in Seq(Nat), NEW p \in Seq(Nat), There(all, r)
    PROVE  There(all, r \o p)
<1>0. PICK u : u = r \o p
  OBVIOUS
<1>1. PICK n \in Nat, a \in Nat, q \in Nat : n = Len(all) /\ a = Len(r) /\ q = Len(p) /\ u = r \o p
  BY <1>0, MessageFacts, BlockFacts
<1>2. Len(u) = a + q /\ \A i \in 1..a : u[i] = r[i]
  BY <1>1, BlocksJoin
<1>3. PICK i \in 0..a : i + n <= a /\ \A k \in 1..n : r[i + k] = all[k].id
  BY <1>1 DEF There
<1>4. i \in 0..(a + q) /\ i + n <= a + q
  BY <1>3
<1>5. ASSUME NEW k \in 1..n PROVE u[i + k] = all[k].id
  <2>1. i + k \in 1..a
    BY <1>3
  <2> QED BY <1>2, <1>3, <2>1
<1> QED BY <1>1, <1>2, <1>4, <1>5 DEF There

\* A piece of a sequence of blocks.
LEMMA BlocksPiece ==
    ASSUME NEW r \in Seq(Nat), NEW a \in 0..Len(r), NEW b \in a..Len(r), NEW c, c = a + 1
    PROVE  /\ SubSeq(r, c, b) \in Seq(Nat) /\ Len(SubSeq(r, c, b)) = b - a
           /\ \A k \in 1..(b - a) : SubSeq(r, c, b)[k] = r[a + k]
<1>1. PICK n \in Nat : n = Len(r) /\ a \in Nat /\ b \in Nat /\ a <= b /\ b <= n /\ c \in Nat
  BY BlockFacts
<1>2. PICK s : s = SubSeq(r, c, b)
  OBVIOUS
<1>3. \A i \in c..b : r[i] \in Nat
  BY <1>1, BlockFacts
<1>4. c \in Int /\ b \in Int
  BY <1>1
<1>5. /\ s \in Seq(Nat) /\ Len(s) = IF c <= b THEN b - c + 1 ELSE 0
      /\ \A i \in 1..(b - c + 1) : s[i] = r[c + i - 1]
  BY <1>2, <1>3, <1>4, SubSeqProperties
<1>6. b - c + 1 = b - a /\ (IF c <= b THEN b - c + 1 ELSE 0) = b - a /\ \A i \in Nat : c + i - 1 = a + i
  BY <1>1
<1>7. \A i \in 1..(b - a) : s[i] = r[a + i]
  <2> TAKE i \in 1..(b - a)
  <2>1. i \in 1..(b - c + 1) /\ c + i - 1 = a + i
    BY <1>6
  <2> QED BY <1>5, <2>1
<1> QED BY <1>2, <1>5, <1>6, <1>7

\* What is there is a piece of the blocks.
LEMMA ThereIs ==
    ASSUME NEW all \in Seq(Message), NEW r \in Seq(Nat), There(all, r)
    PROVE  \E i \in 0..Len(r) : IsPrefix(Ids(all), SubSeq(r, i + 1, Len(r)))
<1>1. PICK n \in Nat, a \in Nat : n = Len(all) /\ a = Len(r)
  BY MessageFacts, BlockFacts
<1>2. PICK i \in 0..a : i + n <= a /\ \A k \in 1..n : r[i + k] = all[k].id
  BY <1>1 DEF There
<1>3. PICK ids, piece : ids = Ids(all) /\ piece = SubSeq(r, i + 1, a)
  OBVIOUS
<1>4. ids = [k \in 1..n |-> all[k].id] /\ \A k \in 1..n : all[k].id \in Nat
  BY <1>1, <1>3, MessageFacts DEF Ids
<1>5. ids \in Seq(Nat) /\ Len(ids) = n /\ \A k \in 1..n : ids[k] = all[k].id
  <2>1. ids \in [1..n -> Nat]
    BY <1>4
  <2>2. ids \in Seq(Nat)
    BY <2>1, SeqDef
  <2>3. DOMAIN ids = 1..n
    BY <1>4
  <2>4. Len(ids) = n
    BY <2>2, <2>3, LenProperties
  <2> QED BY <1>4, <2>2, <2>4
<1>6. piece \in Seq(Nat) /\ Len(piece) = a - i /\ \A k \in 1..(a - i) : piece[k] = r[i + k]
  <2>1. a \in i..Len(r) /\ i \in 0..Len(r)
    BY <1>1
  <2> QED BY <1>3, <2>1, BlocksPiece
<1>7. n <= a - i
  BY <1>2
<1>8. SubSeq(ids, 1, n) = SubSeq(piece, 1, n)
  <2>1. SubSeq(ids, 1, n) = ids
    BY <1>5, SubSeqFull
  <2>2. PICK front : front = SubSeq(piece, 1, n)
    OBVIOUS
  <2>3. front \in Seq(Nat) /\ Len(front) = n - 0 /\ \A k \in 1..(n - 0) : front[k] = piece[0 + k]
    <3>1. 0 \in 0..Len(piece) /\ n \in 0..Len(piece) /\ 1 = 0 + 1
      BY <1>6, <1>7
    <3> QED BY <1>6, <2>2, <3>1, BlocksPiece
  <2>4. \A k \in 1..n : front[k] = ids[k]
    <3> TAKE k \in 1..n
    <3>1. k \in 1..(a - i) /\ k \in 1..(n - 0) /\ 0 + k = k
      BY <1>7
    <3> QED BY <1>2, <1>5, <1>6, <2>3, <3>1
  <2>5. n - 0 = n
    OBVIOUS
  <2>6. front = ids
    BY <1>5, <2>3, <2>4, <2>5, SeqEqual
  <2> QED BY <2>1, <2>2, <2>6
<1>9. IsPrefix(ids, piece)
  BY <1>5, <1>6, <1>7, <1>8 DEF IsPrefix
<1> QED BY <1>1, <1>3, <1>9

\* What a call has to store is a sequence of messages.
LEMMA ToStoreSeq ==
    ASSUME DataInv, NEW c \in Calls
    PROVE  ToStore(c) \in Seq(Message)
<1>1. PICK all : all = call[c].evicted
  OBVIOUS
<1>2. all \in Seq(Message)
  BY <1>1 DEF DataInv
<1> QED BY <1>1, <1>2, ChosenFacts DEF ToStore, Storable

\* So is what fit() evicts, and what has content of it.
LEMMA EvictedSeq ==
    ASSUME NEW conv \in Talks
    PROVE  Evicted[conv] \in Seq(Message) /\ Storable(Evicted[conv]) \in Seq(Message)
<1>1. PICK all : all = Fit(conv).evicted
  OBVIOUS
<1>2. all \in Seq(Message) /\ Evicted[conv] = all
  BY <1>1, TalkAssumption, FitFits DEF Evicted
<1>3. Storable(all) \in Seq(Message)
  BY <1>2, ChosenFacts DEF Storable
<1> QED BY <1>2, <1>3

\* A call that does not step stays as it is, unless it adds and its connection is moved.
LEMMA Unmoved ==
    ASSUME StoreInv, NEW d \in Calls, call'[d] = call[d],
           rows' = rows \/ \E p \in Seq(Nat) : rows' = rows \o p,
           \/ At(d, "idle")
           \/ Lent(d)' => Lent(d) /\ State(d)'.pending = State(d).pending
    PROVE  Storing(d)'
<1>1. Storing(d) /\ DataInv
  BY DEF StoreInv
<1>2. ToStore(d) \in Seq(Message) /\ rows \in Seq(Nat)
  BY <1>1, ToStoreSeq DEF DataInv
<1>3. PICK all : all = ToStore(d)
  OBVIOUS
<1>4. ToStore(d)' = all
  BY <1>3 DEF ToStore
<1>5. There(all, rows) => There(all, rows')
  <2>1. CASE rows' = rows
    BY <2>1
  <2>2. ASSUME NEW p \in Seq(Nat), rows' = rows \o p PROVE There(all, rows) => There(all, rows')
    BY <1>2, <1>3, <2>2, ThereStays
  <2> QED BY <2>1, <2>2
<1>6. /\ At(d, "idle") \/ At(d, "adding") => call[d].outcome = "none"
      /\ At(d, "adding") => Rest(all, call[d].todo)
      /\ At(d, "adding") /\ Lent(d) => Written(all, call[d].todo, State(d).pending)
      /\ call[d].outcome = "stored" => There(all, rows)
  BY <1>1, <1>3, Zenon DEF Storing
<1>7. ~(At(d, "idle") /\ At(d, "adding"))
  BY DEF At
<1>8. /\ (At(d, "idle") \/ At(d, "adding"))' => (call[d].outcome)' = "none"
      /\ At(d, "adding")' => Rest(all, (call[d].todo)')
      /\ At(d, "adding")' /\ Lent(d)' => Written(all, (call[d].todo)', State(d)'.pending)
      /\ (call[d].outcome)' = "stored" => There(all, rows')
  BY <1>5, <1>6, <1>7 DEF At
<1> QED BY <1>4, <1>8, Zenon DEF Storing

\* What a step of one call has to show.
LEMMA OneStores ==
    ASSUME StoreInv, NEW c \in Calls,
           \A d \in Calls \ {c} : call'[d] = call[d],
           rows' = rows \/ \E p \in Seq(Nat) : rows' = rows \o p,
           \A s \in Sessions : /\ session'[s].memory = session[s].memory
                               /\ \/ session'[s].pending = session[s].pending
                                  \/ s = Here(c) /\ Lent(c),
           Storing(c)'
    PROVE  \A d \in Calls : Storing(d)'
<1>1. ASSUME NEW d \in Calls \ {c} PROVE Lent(d)' => Lent(d) /\ State(d)'.pending = State(d).pending
  <2>1. Here(d) \in Sessions
    BY Own DEF Here
  <2>2. ASSUME Lent(d), Here(d) = Here(c), Lent(c) PROVE FALSE
    BY <1>1, <2>2 DEF Lent, State
  <2> QED BY <2>1, <2>2 DEF Lent, State, Here
<1>2. ASSUME NEW d \in Calls \ {c} PROVE Storing(d)'
  BY <1>1, Unmoved
<1> QED BY <1>2

\* A call whose add is over.
LEMMA AddedFacts ==
    ASSUME TypeInv, NEW c \in Calls, NEW outcome, call' = Added(c, outcome)
    PROVE  /\ \A d \in Calls \ {c} : call'[d] = call[d]
           /\ call'[c].evicted = call[c].evicted /\ call'[c].todo = <<>>
           /\ call'[c].outcome = outcome
           /\ call'[c].pc # "adding" /\ call'[c].pc # "idle"
<1>1. PICK pc : call' = [call EXCEPT ![c].outcome = outcome, ![c].todo = <<>>, ![c].pc = pc]
                 /\ pc \in {"recalling", "streaming"}
  BY DEF Added
<1>2. c \in DOMAIN call /\ IsCall(call[c]) /\ DOMAIN call = Calls
  BY DEF TypeInv
<1> QED BY <1>1, <1>2 DEF IsCall

\* It leaves the data well formed.
LEMMA AddedData ==
    ASSUME StoreInv, NEW c \in Calls, NEW outcome, call' = Added(c, outcome),
           rows' \in Seq(Nat), \A s \in Sessions : session'[s].pending \in Seq(Nat)
    PROVE  DataInv'
<1>1. TypeInv /\ DataInv
  BY DEF StoreInv, IInv
<1>2. /\ \A d \in Calls \ {c} : call'[d] = call[d]
      /\ call'[c].evicted = call[c].evicted /\ call'[c].todo = <<>>
  BY <1>1, AddedFacts
<1>3. <<>> \in Seq(Message)
  BY EmptySeq
<1>4. \A d \in Calls : call'[d].evicted \in Seq(Message) /\ call'[d].todo \in Seq(Message)
  BY <1>1, <1>2, <1>3 DEF DataInv
<1> QED BY <1>4 DEF DataInv

\* A call that steps to where it does not add.
LEMMA Afterwards ==
    ASSUME NEW c \in Calls, call'[c].pc # "adding", call'[c].pc = "idle" => call'[c].outcome = "none",
           call'[c].outcome = "stored" => There(ToStore(c)', rows')
    PROVE  Storing(c)'
BY DEF Storing, At

\* An idle call has nothing.
LEMMA IdleData == IdleCall.evicted \in Seq(Message) /\ IdleCall.todo \in Seq(Message)
<1>1. IdleCall.evicted = <<>> /\ IdleCall.todo = <<>>
  BY DEF IdleCall
<1>2. <<>> \in Seq(Message)
  BY EmptySeq
<1> QED BY <1>1, <1>2

LEMMA StartStores ==
    ASSUME StoreInv, NEW c \in Calls, Start(c)
    PROVE  DataInv' /\ \A d \in Calls : Storing(d)'
<1> DEFINE s == Session[c]
<1>1. IInv /\ TypeInv /\ DataInv
  BY DEF StoreInv, IInv
<1>2. /\ s \notin running /\ rows' = rows /\ call' = call
      /\ \A t \in Sessions \ {s} : session'[t] = session[t]
      /\ session'[s].pending = <<>>
  BY <1>1, Own DEF Start, TypeInv, Here, Fresh
<1>3. DataInv'
  <2>1. <<>> \in Seq(Nat)
    BY EmptySeq
  <2> QED BY <1>1, <1>2, <2>1 DEF DataInv
<1>4. ASSUME NEW d \in Calls PROVE Storing(d)'
  <2>1. At(d, "idle") \/ (Lent(d)' => Lent(d) /\ State(d)'.pending = State(d).pending)
    <3>1. CASE Session[d] = s
      BY <1>1, <1>2, <3>1 DEF IInv, Inserted, Here
    <3>2. CASE Session[d] # s
      BY <1>2, <3>2, Own DEF Lent, State, Here
    <3> QED BY <3>1, <3>2
  <2> QED BY <1>2, <2>1, Unmoved
<1> QED BY <1>3, <1>4

LEMMA ExitStores ==
    ASSUME StoreInv, NEW s \in Sessions, Exit(s)
    PROVE  DataInv' /\ \A d \in Calls : Storing(d)'
<1>1. TypeInv /\ DataInv
  BY DEF StoreInv, IInv
<1>2. /\ rows' = rows
      /\ \A t \in Sessions \ {s} : session'[t] = session[t]
      /\ session'[s].pending = <<>>
      /\ \A d \in Calls : call'[d] = IF Session[d] = s THEN IdleCall ELSE call[d]
  BY <1>1 DEF Exit, TypeInv, Fresh
<1>3. DataInv'
  <2>1. <<>> \in Seq(Nat) /\ <<>> \in Seq(Message)
    BY EmptySeq
  <2>2. \A d \in Calls : call'[d].evicted \in Seq(Message) /\ call'[d].todo \in Seq(Message)
    BY <1>1, <1>2, IdleData DEF DataInv
  <2> QED BY <1>1, <1>2, <2>1, <2>2 DEF DataInv
<1>4. ASSUME NEW d \in Calls PROVE Storing(d)'
  <2>1. CASE Session[d] = s
    <3>1. call'[d].pc = "idle" /\ call'[d].outcome = "none"
      BY <1>2, <2>1 DEF IdleCall
    <3> QED BY <3>1, Afterwards
  <2>2. CASE Session[d] # s
    <3>1. Lent(d)' => Lent(d) /\ State(d)'.pending = State(d).pending
      BY <1>2, <2>2, Own DEF Lent, State, Here
    <3> QED BY <1>2, <2>2, <3>1, Unmoved
  <2> QED BY <2>1, <2>2
<1> QED BY <1>3, <1>4

LEMMA ChatStores ==
    ASSUME StoreInv, NEW c \in Calls, Chat(c)
    PROVE  DataInv' /\ \A d \in Calls : Storing(d)'
<1>1. TypeInv /\ DataInv /\ Storing(c)
  BY DEF StoreInv, IInv
<1>2. rows' = rows /\ session' = session /\ At(c, "idle")
  BY DEF Chat
<1>3. PICK conv \in Talks : call' = [call EXCEPT ![c] =
            IF NeedsMemory(c, Evicted[conv])
            THEN [@ EXCEPT !.pc = "adding", !.evicted = Evicted[conv], !.query = HasQuery(conv),
                           !.todo = Storable(Evicted[conv])]
            ELSE [@ EXCEPT !.pc = "streaming"]]
  BY DEF Chat
<1>4. PICK evicted, all : evicted = Evicted[conv] /\ all = Storable(evicted)
  OBVIOUS
<1>5. evicted \in Seq(Message) /\ all \in Seq(Message)
  BY <1>4, EvictedSeq
<1>6. c \in DOMAIN call /\ DOMAIN call = Calls /\ IsCall(call[c])
  BY <1>1 DEF TypeInv
<1>7. \A d \in Calls \ {c} : call'[d] = call[d]
  BY <1>3, <1>6
<1>8. call[c].outcome = "none"
  BY <1>1, <1>2 DEF Storing
<1>9. CASE NeedsMemory(c, evicted)
  <2>1. /\ call'[c].pc = "adding" /\ call'[c].evicted = evicted /\ call'[c].todo = all
        /\ call'[c].outcome = "none"
    <3>1. call'[c] = [call[c] EXCEPT !.pc = "adding", !.evicted = evicted, !.query = HasQuery(conv),
                                     !.todo = all]
      BY <1>3, <1>4, <1>6, <1>9
    <3> QED BY <1>6, <1>8, <3>1 DEF IsCall
  <2>2. ToStore(c)' = all
    BY <1>4, <2>1 DEF ToStore
  <2>3. State(c)'.pending \in Seq(Nat)
    BY <1>1, <1>2, Own DEF DataInv, State, Here
  <2>4. Rest(all, all) /\ Written(all, all, State(c)'.pending)
    BY <1>5, <2>3, StoreBegins
  <2>5. Storing(c)'
    BY <2>1, <2>2, <2>4 DEF Storing, At
  <2>6. \A d \in Calls : call'[d].evicted \in Seq(Message) /\ call'[d].todo \in Seq(Message)
    BY <1>1, <1>5, <1>7, <2>1 DEF DataInv
  <2>7. DataInv'
    BY <1>1, <1>2, <2>6 DEF DataInv
  <2> QED BY <1>2, <1>7, <2>5, <2>7, OneStores
<1>10. CASE ~ NeedsMemory(c, evicted)
  <2>1. /\ call'[c].pc = "streaming" /\ call'[c].evicted = call[c].evicted
        /\ call'[c].todo = call[c].todo /\ call'[c].outcome = "none"
    <3>1. call'[c] = [call[c] EXCEPT !.pc = "streaming"]
      BY <1>3, <1>4, <1>6, <1>10
    <3> QED BY <1>6, <1>8, <3>1 DEF IsCall
  <2>2. Storing(c)'
    BY <2>1, Afterwards
  <2>3. \A d \in Calls : call'[d].evicted \in Seq(Message) /\ call'[d].todo \in Seq(Message)
    BY <1>1, <1>7, <2>1 DEF DataInv
  <2>4. DataInv'
    BY <1>1, <1>2, <2>3 DEF DataInv
  <2> QED BY <1>2, <1>7, <2>2, <2>4, OneStores
<1> QED BY <1>9, <1>10

LEMMA InsertStores ==
    ASSUME StoreInv, NEW c \in Calls, Insert(c)
    PROVE  DataInv' /\ \A d \in Calls : Storing(d)'
<1> DEFINE s == Session[c]
<1>1. TypeInv /\ DataInv /\ Storing(c)
  BY DEF StoreInv, IInv
<1>2. At(c, "adding") /\ call[c].todo # <<>> /\ Lent(c) /\ rows' = rows
  BY DEF Insert
<1>3. PICK todo, before : todo = call[c].todo /\ before = session[s].pending
  OBVIOUS
<1>4. PICK after, rest : after = Append(before, Head(todo).id) /\ rest = Tail(todo)
  OBVIOUS
<1>5. /\ session' = [session EXCEPT ![s].pending = after, ![s].inTxn = TRUE, ![s].reading = TRUE]
      /\ call' = [call EXCEPT ![c].todo = rest]
  BY <1>3, <1>4 DEF Insert, Here
<1>6. /\ \A t \in Sessions \ {s} : session'[t] = session[t]
      /\ session'[s].memory = session[s].memory /\ session'[s].pending = after
  <2>1. s \in DOMAIN session /\ DOMAIN session = Sessions /\ IsState(session[s])
    BY <1>1, Own DEF TypeInv
  <2> QED BY <1>5, <2>1 DEF IsState
<1>7. /\ \A d \in Calls \ {c} : call'[d] = call[d]
      /\ call'[c].evicted = call[c].evicted /\ call'[c].pc = call[c].pc
      /\ call'[c].outcome = call[c].outcome /\ call'[c].todo = rest
  <2>1. c \in DOMAIN call /\ DOMAIN call = Calls /\ IsCall(call[c])
    BY <1>1 DEF TypeInv
  <2> QED BY <1>5, <2>1 DEF IsCall
<1>8. PICK all : all = ToStore(c)
  OBVIOUS
<1>9. all \in Seq(Message) /\ todo \in Seq(Message) /\ before \in Seq(Nat)
  BY <1>1, <1>3, <1>8, ToStoreSeq, Own DEF DataInv
<1>10. Rest(all, todo) /\ Written(all, todo, before) /\ call[c].outcome = "none"
  BY <1>1, <1>2, <1>3, <1>8 DEF Storing, State, Here
<1>11. rest \in Seq(Message) /\ Rest(all, rest) /\ Written(all, rest, after) /\ after \in Seq(Nat)
  BY <1>2, <1>3, <1>4, <1>9, <1>10, StoreGoesOn, AppendFacts
<1>12. Storing(c)'
  <2>1. ToStore(c)' = all
    BY <1>7, <1>8 DEF ToStore
  <2>2. State(c)'.pending = after
    BY <1>6 DEF State, Here
  <2> QED BY <1>7, <1>10, <1>11, <2>1, <2>2 DEF Storing, At
<1>13. DataInv'
  <2>1. \A d \in Calls : call'[d].evicted \in Seq(Message) /\ call'[d].todo \in Seq(Message)
    BY <1>1, <1>7, <1>11 DEF DataInv
  <2>2. \A t \in Sessions : session'[t].pending \in Seq(Nat)
    BY <1>1, <1>6, <1>11 DEF DataInv
  <2> QED BY <1>1, <1>2, <2>1, <2>2 DEF DataInv
<1>14. \A t \in Sessions : /\ session'[t].memory = session[t].memory
                           /\ \/ session'[t].pending = session[t].pending
                              \/ t = Here(c) /\ Lent(c)
  BY <1>2, <1>6 DEF Here
<1> QED BY <1>2, <1>7, <1>12, <1>13, <1>14, OneStores

\* An add that fails leaves the connection, and what is pending in it.
LEMMA FailStores ==
    ASSUME StoreInv, NEW c \in Calls, call' = Added(c, "failed"), rows' = rows,
           \A s \in Sessions : /\ session'[s].memory = session[s].memory
                               /\ session'[s].pending = session[s].pending
    PROVE  DataInv' /\ \A d \in Calls : Storing(d)'
<1>1. TypeInv /\ DataInv
  BY DEF StoreInv, IInv
<1>2. /\ \A d \in Calls \ {c} : call'[d] = call[d]
      /\ call'[c].outcome = "failed" /\ call'[c].pc # "adding" /\ call'[c].pc # "idle"
  BY <1>1, AddedFacts
<1>3. DataInv'
  <2>1. rows' \in Seq(Nat) /\ \A s \in Sessions : session'[s].pending \in Seq(Nat)
    BY <1>1 DEF DataInv
  <2> QED BY <2>1, AddedData
<1>4. Storing(c)'
  BY <1>2, Afterwards
<1> QED BY <1>2, <1>3, <1>4, OneStores

LEMMA FailuresStore ==
    ASSUME StoreInv, NEW c \in Calls, InsertFails(c) \/ EmbedFails(c) \/ CommitFails(c)
    PROVE  DataInv' /\ \A d \in Calls : Storing(d)'
<1>1. call' = Added(c, "failed") /\ rows' = rows
  BY DEF InsertFails, EmbedFails, CommitFails
<1>2. PICK inTxn, failed :
        \/ session' = [session EXCEPT ![Session[c]].inTxn = inTxn, ![Session[c]].failed = failed]
        \/ session' = [session EXCEPT ![Session[c]].failed = failed]
  BY DEF InsertFails, EmbedFails, CommitFails, Here
<1>3. DOMAIN session = Sessions /\ \A s \in Sessions : IsState(session[s])
  BY DEF StoreInv, IInv, TypeInv
<1>4. \A s \in Sessions : /\ session'[s].memory = session[s].memory
                          /\ session'[s].pending = session[s].pending
  BY <1>2, <1>3, Own DEF IsState
<1> QED BY <1>1, <1>4, FailStores

LEMMA NothingStores ==
    ASSUME StoreInv, NEW c \in Calls, NothingStored(c)
    PROVE  DataInv' /\ \A d \in Calls : Storing(d)'
<1>1. TypeInv /\ DataInv
  BY DEF StoreInv, IInv
<1>2. call' = Added(c, "stored") /\ rows' = rows /\ session' = session /\ ToStore(c) = <<>>
  BY DEF NothingStored, Stored
<1>3. /\ \A d \in Calls \ {c} : call'[d] = call[d]
      /\ call'[c].pc # "adding" /\ call'[c].pc # "idle" /\ call'[c].evicted = call[c].evicted
  BY <1>1, <1>2, AddedFacts
<1>4. There(<<>>, rows)
  <2>1. Len(rows) \in Nat
    BY <1>1, BlockFacts DEF DataInv
  <2>2. 0 \in 0..Len(rows) /\ 0 + 0 <= Len(rows) /\ 1..0 = {}
    BY <2>1
  <2>3. Len(<<>>) = 0
    OBVIOUS
  <2> QED BY <2>2, <2>3 DEF There
<1>5. ToStore(c)' = <<>>
  BY <1>2, <1>3 DEF ToStore
<1>6. Storing(c)'
  BY <1>2, <1>3, <1>4, <1>5, Afterwards
<1>7. DataInv'
  BY <1>1, <1>2, AddedData DEF DataInv
<1> QED BY <1>2, <1>3, <1>6, <1>7, OneStores

LEMMA CommitStores ==
    ASSUME StoreInv, NEW c \in Calls, Commit(c)
    PROVE  DataInv' /\ \A d \in Calls : Storing(d)'
<1> DEFINE s == Session[c]
<1>1. TypeInv /\ DataInv /\ Storing(c) /\ Inserted(c)
  BY DEF StoreInv, IInv
<1>2. At(c, "adding") /\ call[c].todo = <<>> /\ Stored(c) /\ Lent(c)
  BY <1>1 DEF Commit, Inserted
<1>3. PICK pending : pending = session[s].pending
  OBVIOUS
<1>4. call' = Added(c, "stored") /\ rows' = rows \o pending
  BY <1>3 DEF Commit, Here
<1>5. PICK nothing : nothing = <<>>
  OBVIOUS
<1>6. /\ \A t \in Sessions \ {s} : session'[t] = session[t]
      /\ session'[s].memory = session[s].memory /\ session'[s].pending = nothing
  <2>1. s \in DOMAIN session /\ DOMAIN session = Sessions /\ IsState(session[s])
    BY <1>1, Own DEF TypeInv
  <2>2. session' = [session EXCEPT ![s].pending = nothing, ![s].inTxn = FALSE,
                                   ![s].reading = FALSE, ![s].failed = FALSE]
    BY <1>5 DEF Commit, Here
  <2> QED BY <2>1, <2>2 DEF IsState
<1>7. /\ \A d \in Calls \ {c} : call'[d] = call[d]
      /\ call'[c].pc # "adding" /\ call'[c].pc # "idle" /\ call'[c].evicted = call[c].evicted
  BY <1>1, <1>4, AddedFacts
<1>8. PICK all : all = ToStore(c)
  OBVIOUS
<1>9. all \in Seq(Message) /\ rows \in Seq(Nat) /\ pending \in Seq(Nat) /\ nothing \in Seq(Nat)
  BY <1>1, <1>3, <1>5, <1>8, ToStoreSeq, EmptySeq, Own DEF DataInv
<1>10. Written(all, <<>>, pending)
  BY <1>1, <1>2, <1>3, <1>8 DEF Storing, State, Here
<1>11. There(all, rows')
  BY <1>4, <1>9, <1>10, StoreEnds
<1>12. ToStore(c)' = all
  BY <1>7, <1>8 DEF ToStore
<1>13. Storing(c)'
  BY <1>7, <1>11, <1>12, Afterwards
<1>14. DataInv'
  <2>1. rows' \in Seq(Nat)
    BY <1>4, <1>9, BlocksJoin
  <2>2. \A t \in Sessions : session'[t].pending \in Seq(Nat)
    BY <1>1, <1>6, <1>9 DEF DataInv
  <2> QED BY <1>4, <2>1, <2>2, AddedData
<1>15. \A t \in Sessions : /\ session'[t].memory = session[t].memory
                           /\ \/ session'[t].pending = session[t].pending
                              \/ t = Here(c) /\ Lent(c)
  BY <1>2, <1>6 DEF Here
<1>16. \E p \in Seq(Nat) : rows' = rows \o p
  BY <1>4, <1>9
<1> QED BY <1>7, <1>13, <1>14, <1>15, <1>16, OneStores

LEMMA RecallStores ==
    ASSUME StoreInv, NEW c \in Calls, Retrieve(c) \/ RecallsNothing(c)
    PROVE  DataInv' /\ \A d \in Calls : Storing(d)'
<1>1. TypeInv /\ DataInv /\ Storing(c)
  BY DEF StoreInv, IInv
<1>2. rows' = rows /\ call' = [call EXCEPT ![c].pc = "streaming"]
  BY DEF Retrieve, RecallsNothing
<1>3. /\ \A d \in Calls \ {c} : call'[d] = call[d]
      /\ call'[c].evicted = call[c].evicted /\ call'[c].pc = "streaming"
      /\ call'[c].outcome = call[c].outcome /\ call'[c].todo = call[c].todo
  <2>1. c \in DOMAIN call /\ DOMAIN call = Calls /\ IsCall(call[c])
    BY <1>1 DEF TypeInv
  <2> QED BY <1>2, <2>1 DEF IsCall
<1>4. \A s \in Sessions : /\ session'[s].memory = session[s].memory
                          /\ session'[s].pending = session[s].pending
  <2>1. PICK reading :
          session' = session \/ session' = [session EXCEPT ![Session[c]].reading = reading]
    BY DEF Retrieve, RecallsNothing, Here
  <2>2. DOMAIN session = Sessions /\ \A s \in Sessions : IsState(session[s])
    BY <1>1 DEF TypeInv
  <2> QED BY <2>1, <2>2, Own DEF IsState
<1>5. Storing(c)'
  <2>1. ToStore(c)' = ToStore(c)
    BY <1>3 DEF ToStore
  <2>2. call[c].outcome = "stored" => There(ToStore(c), rows)
    BY <1>1 DEF Storing
  <2> QED BY <1>2, <1>3, <2>1, <2>2, Afterwards
<1>6. DataInv'
  <2>1. \A d \in Calls : call'[d].evicted \in Seq(Message) /\ call'[d].todo \in Seq(Message)
    BY <1>1, <1>3 DEF DataInv
  <2> QED BY <1>1, <1>2, <1>4, <2>1 DEF DataInv
<1> QED BY <1>2, <1>3, <1>4, <1>5, <1>6, OneStores

LEMMA StreamEndStores ==
    ASSUME StoreInv, NEW c \in Calls, StreamEnd(c)
    PROVE  DataInv' /\ \A d \in Calls : Storing(d)'
<1>1. TypeInv /\ DataInv
  BY DEF StoreInv, IInv
<1>2. rows' = rows /\ session' = session /\ call' = [call EXCEPT ![c] = IdleCall]
  BY DEF StreamEnd
<1>3. (\A d \in Calls \ {c} : call'[d] = call[d]) /\ call'[c] = IdleCall
  BY <1>1, <1>2 DEF TypeInv
<1>4. Storing(c)'
  BY <1>3, Afterwards DEF IdleCall
<1>5. DataInv'
  <2>1. \A d \in Calls : call'[d].evicted \in Seq(Message) /\ call'[d].todo \in Seq(Message)
    BY <1>1, <1>3, IdleData DEF DataInv
  <2> QED BY <1>1, <1>2, <2>1 DEF DataInv
<1> QED BY <1>2, <1>3, <1>4, <1>5, OneStores

LEMMA StoreInitially == Init => StoreInv
<1> SUFFICES ASSUME Init PROVE StoreInv
  OBVIOUS
<1>1. /\ \A s \in Sessions : session[s].pending = <<>>
      /\ \A c \in Calls : call[c] = IdleCall
      /\ rows = <<>>
  BY DEF Init, Fresh
<1>2. DataInv
  <2>1. <<>> \in Seq(Nat)
    BY EmptySeq
  <2> QED BY <1>1, <2>1, IdleData DEF DataInv
<1>3. \A c \in Calls : Storing(c)
  BY <1>1 DEF Storing, At, IdleCall
<1> QED BY <1>2, <1>3, Initially DEF StoreInv

LEMMA StoreInductive == StoreInv /\ [Next]_vars => StoreInv'
<1> SUFFICES ASSUME StoreInv, [Next]_vars PROVE StoreInv'
  OBVIOUS
<1>1. IInv'
  BY Inductive DEF StoreInv
<1>2. CASE UNCHANGED vars
  <2>1. UNCHANGED <<session, rows, call>>
    BY <1>2 DEF vars
  <2>2. DataInv' /\ \A c \in Calls : Storing(c)'
    BY <2>1 DEF StoreInv, DataInv, Storing, At, Lent, State, Here, ToStore
  <2> QED BY <1>1, <2>2 DEF StoreInv
<1>3. ASSUME NEW c \in Calls, Start(c) \/ Chat(c) \/ EmbedFails(c) \/ Step(c)
      PROVE  DataInv' /\ \A d \in Calls : Storing(d)'
  BY <1>3, StartStores, ChatStores, InsertStores, FailuresStore, NothingStores, CommitStores,
      RecallStores, StreamEndStores DEF Step
<1>4. ASSUME NEW s \in Sessions, Exit(s) PROVE DataInv' /\ \A d \in Calls : Storing(d)'
  BY <1>4, ExitStores
<1> QED BY <1>1, <1>2, <1>3, <1>4 DEF Next, StoreInv

\* What an add reports stored is among the committed blocks, all of it, together and
\* in order, and stays there.
THEOREM StoredStaysThere == Spec => []StoredIsThere
<1>1. ASSUME StoreInv PROVE StoredIsThere
  <2>1. ASSUME NEW c \in Calls, call[c].outcome = "stored"
        PROVE  \E i \in 0..Len(rows) : IsPrefix(Ids(ToStore(c)), SubSeq(rows, i + 1, Len(rows)))
    <3>1. There(ToStore(c), rows) /\ ToStore(c) \in Seq(Message) /\ rows \in Seq(Nat)
      BY <1>1, <2>1, ToStoreSeq DEF StoreInv, Storing, DataInv
    <3> QED BY <3>1, ThereIs
  <2> QED BY <2>1 DEF StoredIsThere
<1> QED BY <1>1, StoreInitially, StoreInductive, PTL DEF Spec
=============================================================================
