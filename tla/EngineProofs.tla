---------------------------- MODULE EngineProofs ----------------------------
(***************************************************************************)
(* Proofs about the engines.                                               *)
(*                                                                         *)
(* NativeEngine, for any number of sessions, prompts, calls and sequences. *)
(* The tool loop (CallInv) stands alone: it needs only that no id is noted *)
(* twice.  The rest (EngineInv) is about careful callers and composes the  *)
(* two schedulers: each step of the engine is a method of one of them, and *)
(* what SchedulerProofs proves of the method is carried over (SP, CP).     *)
(*                                                                         *)
(* EngineRegistry, for any number of processes and calls and any engines   *)
(* that a process may find: an undisturbed choice holds, and a             *)
(* llama-server that runs is the one its engine knows of.  The two modules *)
(* have no name in common, and neither's proofs use the other's.           *)
(***************************************************************************)
EXTENDS NativeEngine, EngineRegistry, FiniteSetTheorems, SequenceTheorems, TLAPS

-----------------------------------------------------------------------------
\* Callers who chat only while no session is open and no holder is kept, drop no
\* chat in the middle, and leave the stream of a session alone that they closed.
\* The engine guards against none of the three, and NeverContends is a run that
\* shows what the first leads to.
Careful == {"overlap", "abandon", "stale"} \cap Careless = {}

-----------------------------------------------------------------------------
(* The invariants.                                                          *)

CallType == [by : Session, results : Nat]
Status == {"new", "opening", "open", "failed", "orphan", "closed"}

\* What the tool loop is typed by.
ToolTypes == /\ status \in [Session -> Status]
             /\ who \subseteq Session
             /\ hops \in [Session -> 0..MaxHops]
             /\ pending \in [Session -> [CallId -> Nat \cup {None}]]
             /\ calls \in Seq(CallType)

\* The steps of open_session.
Opening == {"reserve", "warm", "slot", "copy"}

\* A session that is being opened is nothing else yet.
OpeningInv == op \in Opening => \A c \in who : status[c] = "opening"

\* A call without a result is the pending one of its session under one id, and
\* what is pending has no result.
PendingInv ==
    /\ \A c \in Session : \A i \in CallId : pending[c][i] # None =>
          /\ pending[c][i] \in 1..Len(calls)
          /\ calls[pending[c][i]].by = c
          /\ calls[pending[c][i]].results = 0
    /\ \A c, d \in Session : \A i, j \in CallId :
          pending[c][i] # None /\ pending[c][i] = pending[d][j] => c = d /\ i = j
    /\ \A k \in 1..Len(calls) :
          /\ calls[k].results <= 1
          /\ calls[k].results = 0 => \E i \in CallId : pending[calls[k].by][i] = k
    /\ \A c \in Session : status[c] = "closed" =>
          \A i \in CallId : pending[c][i] = None

CallInv == ToolTypes /\ OpeningInv /\ PendingInv

\* What the rest of the engine is typed by.
EngineTypes == /\ chat \in Request \cup {None}
               /\ op \in {"idle", "reserve", "warm", "slot", "copy", "turn", "batch"}
               /\ prompt \in Prompt \cup {None}
               /\ target \in SeqId \cup {None}
               /\ registry \in [Prompt -> SeqId \cup {None}]
               /\ status \in [Session -> Status]
               /\ seqOf \in [Session -> SeqId \cup {None}]
               /\ streams \subseteq Session
               /\ stray \in [Session -> SUBSET (Job \cup {None})]
               /\ faults \in 0..MaxFaults

\* The sessions' scheduler: nothing waits in it, its slots are sessions'.
SlotInv == /\ S!TypeOK
           /\ queue = <<>>
           /\ S!OneOwner /\ S!PositionIsKV /\ S!HolderInv
           /\ \A s \in S!Live : slots[s] \in Session /\ slot[slots[s]].session

\* Either there is no chat stream, or it has the backend to itself.
ChatInv == /\ chat = None => /\ S!CleanInv
                             /\ chatFree = AllFree /\ chatQueue = <<>>
                             /\ chatSlots = NoSlots
           /\ chat # None => /\ C!IInv
                             /\ S!Live = {} /\ holders = {} /\ Idle

\* How far open_session has come, and for whom.
OpenInv ==
    /\ op \in Opening => \E c \in Session : who = {c} /\ status[c] = "opening"
    /\ op \in {"reserve", "warm"} => prompt \in Prompt /\ registry[prompt] = None
    /\ op \in {"slot", "copy"} /\ prompt # None => registry[prompt] # None
    /\ op = "warm" => target \in holders /\ kv[target] = <<>>
    /\ op = "copy" => /\ prompt # None
                      /\ \A c \in who : /\ seqOf[c] \in SeqId
                                        /\ slots[seqOf[c]] = c
                                        /\ kv[seqOf[c]] = <<>>
    /\ op \in {"turn", "batch"} => \A c \in who : status[c] = "open"

\* Slots and the sessions that are open.
OwnerInv ==
    /\ \A c \in Session : status[c] = "open" => /\ seqOf[c] \in SeqId
                                                /\ slots[seqOf[c]] = c
    /\ \A s \in SeqId : \A c \in Session :
          slots[s] = c => status[c] = "open" \/ (op = "copy" /\ c \in who)
    /\ \A c \in streams : status[c] = "open"
    /\ \A c \in Session : stray[c] = {}

\* Holders, those of the registry and those that were lost.
Known == {k \in Prompt : registry[k] # None}
PrefixInv ==
    /\ \A k \in Known : registry[k] \in holders /\ Len(kv[registry[k]]) = PrefixLen
    /\ IsFiniteSet(Known)
    /\ Cardinality(holders) <= Cardinality(Known) + faults
                               + (IF op = "warm" THEN 1 ELSE 0)

EngineInv == /\ EngineTypes
             /\ SlotInv /\ ChatInv /\ OpenInv /\ OwnerInv /\ PrefixInv

-----------------------------------------------------------------------------
(* The tool loop.                                                           *)

\* Results are recorded for some of the calls; whose calls they are stays.
LEMMA EndedFacts ==
    ASSUME calls \in Seq(CallType), NEW refs
    PROVE  /\ Ended(refs) \in Seq(CallType) /\ Len(Ended(refs)) = Len(calls)
           /\ \A k \in 1..Len(calls) :
                 /\ Ended(refs)[k].by = calls[k].by
                 /\ k \in refs => Ended(refs)[k].results = calls[k].results + 1
                 /\ k \notin refs => Ended(refs)[k].results = calls[k].results
<1> DEFINE n == Len(calls)
<1>1. n \in Nat /\ \A k \in 1..n : calls[k] \in CallType
  BY LenProperties, ElementOfSeq
<1>2. \A k \in 1..n : /\ Ended(refs)[k] \in CallType
                      /\ Ended(refs)[k].by = calls[k].by
                      /\ k \in refs => Ended(refs)[k].results = calls[k].results + 1
                      /\ k \notin refs => Ended(refs)[k].results = calls[k].results
  <2> TAKE k \in 1..n
  <2>1. /\ k \in refs => Ended(refs)[k] = [calls[k] EXCEPT !.results = @ + 1]
        /\ k \notin refs => Ended(refs)[k] = calls[k]
    BY DEF Ended
  <2>2. calls[k] \in [by : Session, results : Nat]
    BY <1>1 DEF CallType
  <2>3. /\ [calls[k] EXCEPT !.results = @ + 1] \in [by : Session, results : Nat]
        /\ [calls[k] EXCEPT !.results = @ + 1].by = calls[k].by
        /\ [calls[k] EXCEPT !.results = @ + 1].results = calls[k].results + 1
    BY <2>2
  <2> QED BY <2>1, <2>2, <2>3 DEF CallType
<1>3. Ended(refs) \in [1..n -> CallType]
  BY <1>2 DEF Ended
<1> QED BY <1>1, <1>2, <1>3, IsASeq, LenProperties

\* Steps that note no call and end none.
LEMMA CallsRest ==
    ASSUME CallInv, UNCHANGED <<pending, calls>>,
           hops' \in [Session -> 0..MaxHops],
           status' \in [Session -> Status], who' \subseteq Session,
           OpeningInv',
           \A c \in Session : status'[c] = "closed" => status[c] = "closed"
    PROVE  CallInv'
BY DEF CallInv, ToolTypes, PendingInv

\* A call that is noted under a free id.
LEMMA NoteCallInv ==
    ASSUME CallInv, "reuse" \notin Careless,
           NEW c \in Session, NEW i \in CallId, NoteCall(c, i)
    PROVE  CallInv'
<1> DEFINE n == Len(calls)
<1>1. /\ calls \in Seq(CallType) /\ n \in Nat
      /\ pending \in [Session -> [CallId -> Nat \cup {None}]]
  BY LenProperties DEF CallInv, ToolTypes
<1>2. /\ pending[c][i] = None /\ status[c] # "closed"
      /\ calls' = Append(calls, [by |-> c, results |-> 0])
      /\ pending' = [pending EXCEPT ![c][i] = n + 1]
      /\ UNCHANGED <<op, who, status, hops>>
  BY DEF NoteCall, Owned, opVars, openVars
<1>3. [by |-> c, results |-> 0] \in CallType
  BY DEF CallType
<1>4. /\ calls' \in Seq(CallType) /\ Len(calls') = n + 1
      /\ \A k \in 1..n : calls'[k] = calls[k]
      /\ calls'[n + 1].by = c /\ calls'[n + 1].results = 0
  BY <1>1, <1>2, <1>3, AppendProperties
<1>5. /\ pending' \in [Session -> [CallId -> Nat \cup {None}]]
      /\ pending'[c][i] = n + 1
      /\ \A d \in Session : \A j \in CallId :
            ~(d = c /\ j = i) => pending'[d][j] = pending[d][j]
  BY <1>1, <1>2
<1>6. \A d \in Session : \A j \in CallId : pending[d][j] # None =>
         /\ pending[d][j] \in 1..n
         /\ calls[pending[d][j]].by = d /\ calls[pending[d][j]].results = 0
  BY DEF CallInv, PendingInv
<1> HIDE DEF n
<1>7. \A d \in Session : \A j \in CallId : pending'[d][j] # None =>
         /\ pending'[d][j] \in 1..(n + 1)
         /\ calls'[pending'[d][j]].by = d /\ calls'[pending'[d][j]].results = 0
  <2> TAKE d \in Session
  <2> TAKE j \in CallId
  <2>1. CASE d = c /\ j = i
    BY <2>1, <1>1, <1>4, <1>5
  <2>2. CASE ~(d = c /\ j = i)
    BY <2>2, <1>1, <1>4, <1>5, <1>6
  <2> QED BY <2>1, <2>2
<1>8. \A d, e \in Session : \A j, k \in CallId :
         pending'[d][j] # None /\ pending'[d][j] = pending'[e][k] => d = e /\ j = k
  <2>1. \A d, e \in Session : \A j, k \in CallId :
           pending[d][j] # None /\ pending[d][j] = pending[e][k] => d = e /\ j = k
    BY DEF CallInv, PendingInv
  <2>2. \A d \in Session : \A j \in CallId : pending[d][j] # n + 1
    BY <1>1, <1>6, NoneAssumption
  <2> QED BY <1>5, <2>1, <2>2
<1>9. \A k \in 1..(n + 1) :
         /\ calls'[k].results <= 1
         /\ calls'[k].results = 0 => \E j \in CallId : pending'[calls'[k].by][j] = k
  <2> TAKE k \in 1..(n + 1)
  <2>1. CASE k = n + 1
    BY <2>1, <1>4, <1>5
  <2>2. CASE k # n + 1
    <3>1. k \in 1..n /\ calls'[k] = calls[k]
      BY <2>2, <1>1, <1>4
    <3>a. calls[k] \in CallType
      BY <3>1, <1>1, ElementOfSeq DEF n
    <3>b. calls[k].by \in Session
      BY <3>a DEF CallType
    <3>2. /\ calls[k].results <= 1
          /\ calls[k].results = 0 => \E j \in CallId : pending[calls[k].by][j] = k
      BY <3>1 DEF CallInv, PendingInv, n
    <3>3. \A j \in CallId : pending[calls[k].by][j] = k =>
             pending'[calls[k].by][j] = k
      BY <3>1, <3>b, <1>1, <1>2, <1>5, NoneAssumption
    <3> QED BY <3>1, <3>2, <3>3
  <2> QED BY <2>1, <2>2
<1>10. \A d \in Session : status'[d] = "closed" =>
          \A j \in CallId : pending'[d][j] = None
  BY <1>2, <1>5 DEF CallInv, PendingInv
<1>11. ToolTypes' /\ OpeningInv'
  BY <1>2, <1>4, <1>5 DEF CallInv, ToolTypes, OpeningInv
<1>12. PendingInv'
  BY <1>4, <1>7, <1>8, <1>9, <1>10 DEF PendingInv
<1> QED BY <1>11, <1>12 DEF CallInv

\* Calls of one session get their results and are pending no more: those under
\* the ids I.
LEMMA EndsInv ==
    ASSUME CallInv, NEW c \in Session, NEW I \in SUBSET CallId, NEW refs,
           \A k : k \in refs <=> \E i \in I : pending[c][i] = k,
           calls' = Ended(refs),
           pending' \in [Session -> [CallId -> Nat \cup {None}]],
           \A d \in Session : \A j \in CallId :
              pending'[d][j] = IF d = c /\ j \in I THEN None ELSE pending[d][j],
           hops' \in [Session -> 0..MaxHops],
           status' \in [Session -> Status], who' \subseteq Session,
           OpeningInv',
           \A d \in Session : status'[d] = "closed" =>
              status[d] = "closed" \/ (d = c /\ I = CallId)
    PROVE  CallInv'
<1> DEFINE n == Len(calls)
<1>1. /\ calls \in Seq(CallType) /\ n \in Nat
      /\ pending \in [Session -> [CallId -> Nat \cup {None}]]
  BY LenProperties DEF CallInv, ToolTypes
<1>a. \A k \in 1..n : /\ calls[k].by \in Session /\ calls[k].results \in Nat
  <2>1. \A k \in 1..n : calls[k] \in CallType
    BY <1>1, ElementOfSeq
  <2> QED BY <2>1 DEF CallType
<1>2. /\ calls' \in Seq(CallType) /\ Len(calls') = n
      /\ \A k \in 1..n :
            /\ calls'[k].by = calls[k].by
            /\ k \in refs => calls'[k].results = calls[k].results + 1
            /\ k \notin refs => calls'[k].results = calls[k].results
  BY <1>1, EndedFacts
<1>3. \A d \in Session : \A j \in CallId : pending[d][j] # None =>
         /\ pending[d][j] \in 1..n
         /\ calls[pending[d][j]].by = d /\ calls[pending[d][j]].results = 0
  BY DEF CallInv, PendingInv
<1>4. \A d, e \in Session : \A j, k \in CallId :
         pending[d][j] # None /\ pending[d][j] = pending[e][k] => d = e /\ j = k
  BY DEF CallInv, PendingInv
<1>5. \A k \in 1..n :
         /\ calls[k].results <= 1
         /\ calls[k].results = 0 => \E j \in CallId : pending[calls[k].by][j] = k
  BY DEF CallInv, PendingInv
<1>6. n \in Nat /\ None \notin 1..n
  BY <1>1, NoneAssumption
<1> HIDE DEF n
<1>7. \A d \in Session : \A j \in CallId : pending'[d][j] # None =>
         /\ pending'[d][j] \in 1..n
         /\ calls'[pending'[d][j]].by = d /\ calls'[pending'[d][j]].results = 0
  <2> SUFFICES ASSUME NEW d \in Session, NEW j \in CallId, pending'[d][j] # None
               PROVE  /\ pending'[d][j] \in 1..n
                      /\ calls'[pending'[d][j]].by = d
                      /\ calls'[pending'[d][j]].results = 0
    OBVIOUS
  <2>1. pending'[d][j] = pending[d][j] /\ ~(d = c /\ j \in I)
    OBVIOUS
  <2>2. pending[d][j] \notin refs
    BY <2>1, <1>4
  <2>3. pending[d][j] \in 1..n /\ calls[pending[d][j]].by = d
        /\ calls[pending[d][j]].results = 0
    BY <2>1, <1>3
  <2> DEFINE k == pending[d][j]
  <2>4. k \in 1..n /\ k \notin refs /\ calls[k].by = d /\ calls[k].results = 0
    BY <2>2, <2>3
  <2> HIDE DEF k
  <2>5. calls'[k].by = d /\ calls'[k].results = 0
    BY <2>4, <1>2
  <2> QED BY <2>1, <2>4, <2>5 DEF k
<1>8. \A d, e \in Session : \A j, k \in CallId :
         pending'[d][j] # None /\ pending'[d][j] = pending'[e][k] => d = e /\ j = k
  BY <1>4
<1>9. \A k \in 1..n :
         /\ calls'[k].results <= 1
         /\ calls'[k].results = 0 => \E j \in CallId : pending'[calls'[k].by][j] = k
  <2> TAKE k \in 1..n
  <2>1. CASE k \in refs
    <3>1. PICK i \in I : pending[c][i] = k
      BY <2>1
    <3>2. k # None /\ i \in CallId
      BY <1>6
    <3>3. calls[k].results = 0
      BY <3>1, <3>2, <1>3
    <3>4. calls'[k].results = 1
      BY <2>1, <3>3, <1>2
    <3> QED BY <3>4
  <2>2. CASE k \notin refs
    <3>1. calls'[k].results = calls[k].results /\ calls'[k].by = calls[k].by
      BY <2>2, <1>2
    <3>2. calls[k].by \in Session
      BY <1>a
    <3>3. \A j \in CallId : pending[calls[k].by][j] = k => ~(calls[k].by = c /\ j \in I)
      BY <2>2
    <3>4. \A j \in CallId : pending[calls[k].by][j] = k => pending'[calls[k].by][j] = k
      BY <3>2, <3>3
    <3> QED BY <3>1, <3>4, <1>5
  <2> QED BY <2>1, <2>2
<1>10. \A d \in Session : status'[d] = "closed" =>
          \A j \in CallId : pending'[d][j] = None
  <2>1. \A d \in Session : status[d] = "closed" =>
           \A j \in CallId : pending[d][j] = None
    BY DEF CallInv, PendingInv
  <2> QED BY <2>1
<1>11. ToolTypes' /\ OpeningInv'
  BY <1>2 DEF ToolTypes
<1>12. PendingInv'
  BY <1>2, <1>7, <1>8, <1>9, <1>10 DEF PendingInv
<1> QED BY <1>11, <1>12 DEF CallInv

\* A session closes: each of its pending calls is given its end first.
LEMMA CloseSessionCalls ==
    ASSUME CallInv, NEW c \in Session, CloseSession(c)
    PROVE  CallInv'
<1>1. /\ pending \in [Session -> [CallId -> Nat \cup {None}]]
      /\ hops \in [Session -> 0..MaxHops]
      /\ status \in [Session -> Status] /\ who \subseteq Session
  BY DEF CallInv, ToolTypes
<1>2. /\ op = "idle" /\ calls' = Ended({pending[c][i] : i \in CallId})
      /\ pending' = [pending EXCEPT ![c] = [i \in CallId |-> None]]
      /\ hops' = [hops EXCEPT ![c] = 0]
      /\ status' = [status EXCEPT ![c] = "closed"]
      /\ UNCHANGED <<op, who>>
  BY DEF CloseSession, Cancelled, Idle, opVars
<1>3. hops' \in [Session -> 0..MaxHops] /\ status' \in [Session -> Status]
  BY <1>1, <1>2, CountsAssumption DEF Status
<1>4. /\ pending' \in [Session -> [CallId -> Nat \cup {None}]]
      /\ \A d \in Session : \A j \in CallId :
            pending'[d][j] = IF d = c /\ j \in CallId THEN None ELSE pending[d][j]
  BY <1>1, <1>2
<1>5. OpeningInv'
  BY <1>2 DEF OpeningInv, Opening
<1>6. \A k : k \in {pending[c][j] : j \in CallId} <=> \E i \in CallId : pending[c][i] = k
  OBVIOUS
<1> QED BY <1>1, <1>2, <1>3, <1>4, <1>5, <1>6, EndsInv

\* One call gets its result.
LEMMA OneEnds ==
    ASSUME CallInv, NEW c \in Session, NEW i \in CallId,
           calls' = Ended({pending[c][i]}), pending' = Popped(c, i),
           hops' \in [Session -> 0..MaxHops], UNCHANGED status,
           who' \subseteq Session, OpeningInv'
    PROVE  CallInv'
<1>1. /\ pending \in [Session -> [CallId -> Nat \cup {None}]]
      /\ status' \in [Session -> Status]
  BY DEF CallInv, ToolTypes
<1>3. /\ pending' \in [Session -> [CallId -> Nat \cup {None}]]
      /\ \A d \in Session : \A j \in CallId :
            pending'[d][j] = IF d = c /\ j \in {i} THEN None ELSE pending[d][j]
  BY <1>1 DEF Popped
<1>4. \A d \in Session : status'[d] = "closed" =>
         status[d] = "closed" \/ (d = c /\ {i} = CallId)
  OBVIOUS
<1>5. /\ {i} \in SUBSET CallId
      /\ \A k : k \in {pending[c][i]} <=> \E j \in {i} : pending[c][j] = k
  OBVIOUS
<1> QED BY <1>1, <1>3, <1>4, <1>5, EndsInv

\* Every step of the engine keeps the account of the calls.
LEMMA CallStep ==
    ASSUME CallInv, [Next]_vars, "reuse" \notin Careless
    PROVE  CallInv'
<1>1. /\ hops \in [Session -> 0..MaxHops] /\ status \in [Session -> Status]
      /\ who \subseteq Session
      /\ op \in Opening => \A c \in who : status[c] = "opening"
  BY DEF CallInv, ToolTypes, OpeningInv
<1>2. CASE UNCHANGED vars
  <2>1. UNCHANGED <<hops, pending, calls, status, who, op>>
    BY <1>2 DEF vars, toolVars, openVars, opVars
  <2> QED BY <2>1, <1>1, CallsRest DEF OpeningInv
<1>3. ASSUME NEW c \in Session, NEW k, OpenSession(c, k)
      PROVE  CallInv'
  <2>1. /\ status' = [status EXCEPT ![c] = "opening"] /\ who' = {c}
        /\ UNCHANGED <<hops, pending, calls>>
    BY <1>3 DEF OpenSession, toolVars
  <2>2. /\ status' \in [Session -> Status] /\ who' \subseteq Session
        /\ \A d \in who' : status'[d] = "opening"
        /\ \A d \in Session : status'[d] = "closed" => status[d] = "closed"
    BY <1>1, <2>1 DEF Status
  <2> QED BY <1>1, <2>1, <2>2, CallsRest DEF OpeningInv
<1>4. ASSUME op' \notin Opening, status' = status, who' \subseteq Session,
             UNCHANGED <<pending, calls>>, hops' \in [Session -> 0..MaxHops]
      PROVE  CallInv'
  BY <1>1, <1>4, CallsRest DEF OpeningInv
<1>5. ASSUME op \in Opening, status' = status, who' = who,
             UNCHANGED <<hops, pending, calls>>
      PROVE  CallInv'
  BY <1>1, <1>5, CallsRest DEF OpeningInv
<1>6. ASSUME NEW c \in who, NEW x \in {"open", "failed"},
             status' = [status EXCEPT ![c] = x], op' = "idle", who' = {},
             UNCHANGED <<hops, pending, calls>>
      PROVE  CallInv'
  <2>1. /\ status' \in [Session -> Status] /\ who' \subseteq Session
        /\ OpeningInv'
        /\ \A d \in Session : status'[d] = "closed" => status[d] = "closed"
    BY <1>1, <1>6 DEF Status, OpeningInv
  <2> QED BY <1>1, <1>6, <2>1, CallsRest
<1>7. ASSUME NEW c \in Session, NEW n, Send(c, n)
      PROVE  CallInv'
  <2>1. [hops EXCEPT ![c] = 0] \in [Session -> 0..MaxHops]
    BY <1>1, CountsAssumption
  <2> QED BY <1>4, <1>7, <2>1 DEF Send, FeedTurn, Opening, openVars
<1>8. ASSUME NEW c \in Session, TurnStep(c)
      PROVE  CallInv'
  BY <1>1, <1>4, <1>8 DEF TurnStep, Return, Opening, openVars, toolVars
<1>9. ASSUME NEW c \in Session, TurnEnds(c)
      PROVE  CallInv'
  BY <1>1, <1>4, <1>9 DEF TurnEnds, Return, Opening, openVars, toolVars
<1>10. ASSUME NEW c \in Session, NEW i \in CallId, FailCall(c, i)
       PROVE  CallInv'
  <2>1. /\ calls' = Ended({pending[c][i]}) /\ pending' = Popped(c, i)
        /\ op = "idle" /\ UNCHANGED <<op, who, status, hops>>
    BY <1>10 DEF FailCall, Idle, opVars, openVars
  <2> QED BY <1>1, <2>1, OneEnds DEF OpeningInv
<1>11. ASSUME NEW c \in Session, NEW i \in CallId, NEW n, AppendResult(c, i, n)
       PROVE  CallInv'
  <2>1. /\ calls' = Ended({pending[c][i]}) /\ pending' = Popped(c, i)
        /\ UNCHANGED status /\ hops' = [hops EXCEPT ![c] = @ + 1] /\ hops[c] < MaxHops
    BY <1>11 DEF AppendResult, openVars
  <2>2. op' \in {"idle", "turn"} /\ who' \subseteq Session
    BY <1>1, <1>11 DEF AppendResult, FeedTurn, Idle, opVars
  <2>3. hops' \in [Session -> 0..MaxHops]
    BY <1>1, <2>1, CountsAssumption
  <2> QED BY <2>1, <2>2, <2>3, OneEnds DEF OpeningInv, Opening
<1>12. ASSUME NEW c \in Session, NEW n, LoadState(c, n)
       PROVE  CallInv'
  BY <1>1, <1>4, <1>12 DEF LoadState, Idle, Opening, opVars, openVars, toolVars
<1>13. CASE ReserveHolder
  BY <1>5, <1>13 DEF ReserveHolder, Opening, toolVars
<1>14. CASE WarmHolder
  BY <1>5, <1>14 DEF WarmHolder, Opening, toolVars
<1>15. CASE TakeSlot
  <2>1. PICK c \in who :
           /\ op = "slot" /\ UNCHANGED <<hops, pending, calls>>
           /\ \/ Return /\ status' = [status EXCEPT ![c] = "open"]
              \/ UNCHANGED <<who, status>>
    BY <1>15 DEF TakeSlot, toolVars
  <2> QED BY <1>5, <1>6, <2>1 DEF Return, Opening
<1>16. CASE CopyHolder
  BY <1>6, <1>16 DEF CopyHolder, Return, toolVars
<1>17. CASE OpenFails
  BY <1>6, <1>17 DEF OpenFails, Return, toolVars
<1>18. ASSUME NEW B \in SUBSET Session, NEW n, RunSessions(B, n)
       PROVE  CallInv'
  BY <1>1, <1>4, <1>18 DEF RunSessions, Opening, openVars, toolVars
<1>19. CASE BatchStep
  <2>1. op' \in {"idle", "batch"} /\ who' \subseteq Session
    BY <1>1, <1>19 DEF BatchStep, Return, opVars
  <2> QED BY <1>1, <1>4, <1>19, <2>1 DEF BatchStep, Opening, openVars, toolVars
<1>20. CASE BatchOver
  BY <1>1, <1>4, <1>20 DEF BatchOver, Return, Opening, openVars, toolVars
<1>21. CASE EngineClose
  <2>1. /\ op' = "idle" /\ UNCHANGED <<who, hops, pending, calls>>
        /\ status' = [c \in Session |-> IF status[c] = "open" THEN "orphan" ELSE status[c]]
    BY <1>21 DEF EngineClose, Idle, opVars, toolVars
  <2>2. /\ status' \in [Session -> Status]
        /\ \A d \in Session : status'[d] = "closed" => status[d] = "closed"
    BY <1>1, <2>1 DEF Status
  <2> QED BY <1>1, <2>1, <2>2, CallsRest DEF OpeningInv, Opening
<1>22. ASSUME UNCHANGED <<op, who, status, hops, pending, calls>>
       PROVE  CallInv'
  BY <1>1, <1>22, CallsRest DEF OpeningInv
<1>23. ASSUME NEW r \in Request, NEW n, ChatStart(r, n)
       PROVE  CallInv'
  BY <1>22, <1>23 DEF ChatStart, opVars, openVars, toolVars
<1>24. CASE ChatStep
  BY <1>22, <1>24 DEF ChatStep, opVars, openVars, toolVars
<1>25. CASE ChatOver
  BY <1>22, <1>25 DEF ChatOver, opVars, openVars, toolVars
<1> QED
  BY <1>2, <1>3, <1>7, <1>8, <1>9, <1>10, <1>11, <1>12, <1>13, <1>14, <1>15,
     <1>16, <1>17, <1>18, <1>19, <1>20, <1>21, <1>23, <1>24, <1>25,
     NoteCallInv, CloseSessionCalls
  DEF Next, BatchEnds, BatchFails, ChatEnd, ChatDropped

-----------------------------------------------------------------------------
(* What the tool loop is typed by, also where an id is noted twice.         *)

ToolInv == ToolTypes /\ OpeningInv

\* A result for one call.
LEMMA OneEndsTyped ==
    ASSUME ToolInv, NEW c \in Session, NEW i \in CallId,
           calls' = Ended({pending[c][i]}), pending' = Popped(c, i)
    PROVE  /\ calls' \in Seq(CallType)
           /\ pending' \in [Session -> [CallId -> Nat \cup {None}]]
<1>1. /\ pending \in [Session -> [CallId -> Nat \cup {None}]]
      /\ calls \in Seq(CallType)
  BY DEF ToolInv, ToolTypes
<1> QED BY <1>1, EndedFacts DEF Popped

\* Every step of the engine keeps the types of the tool loop.
LEMMA ToolStep ==
    ASSUME ToolInv, [Next]_vars
    PROVE  ToolInv'
<1>1. /\ status \in [Session -> Status] /\ who \subseteq Session
      /\ hops \in [Session -> 0..MaxHops]
      /\ pending \in [Session -> [CallId -> Nat \cup {None}]]
      /\ calls \in Seq(CallType)
      /\ op \in Opening => \A c \in who : status[c] = "opening"
  BY DEF ToolInv, ToolTypes, OpeningInv
<1>2. CASE UNCHANGED vars
  BY <1>1, <1>2
  DEF vars, toolVars, openVars, opVars, ToolInv, ToolTypes, OpeningInv
<1>3. ASSUME NEW c \in Session, NEW k, OpenSession(c, k)
      PROVE  ToolInv'
  <2>1. /\ status' = [status EXCEPT ![c] = "opening"] /\ who' = {c}
        /\ UNCHANGED <<hops, pending, calls>>
    BY <1>3 DEF OpenSession, toolVars
  <2>2. /\ status' \in [Session -> Status] /\ who' \subseteq Session
        /\ \A d \in who' : status'[d] = "opening"
    BY <1>1, <2>1 DEF Status
  <2> QED BY <1>1, <2>1, <2>2 DEF ToolInv, ToolTypes, OpeningInv
<1>4. ASSUME op' \notin Opening, status' = status, who' \subseteq Session,
             UNCHANGED <<pending, calls>>, hops' \in [Session -> 0..MaxHops]
      PROVE  ToolInv'
  BY <1>1, <1>4 DEF ToolInv, ToolTypes, OpeningInv
<1>5. ASSUME op \in Opening, status' = status, who' = who,
             UNCHANGED <<hops, pending, calls>>
      PROVE  ToolInv'
  BY <1>1, <1>5 DEF ToolInv, ToolTypes, OpeningInv
<1>6. ASSUME NEW c \in who, NEW x \in {"open", "failed"},
             status' = [status EXCEPT ![c] = x], op' = "idle", who' = {},
             UNCHANGED <<hops, pending, calls>>
      PROVE  ToolInv'
  <2>1. status' \in [Session -> Status]
    BY <1>1, <1>6 DEF Status
  <2> QED BY <1>1, <1>6, <2>1 DEF ToolInv, ToolTypes, OpeningInv
<1>7. ASSUME NEW c \in Session, NEW n, Send(c, n)
      PROVE  ToolInv'
  <2>1. [hops EXCEPT ![c] = 0] \in [Session -> 0..MaxHops]
    BY <1>1, CountsAssumption
  <2> QED BY <1>4, <1>7, <2>1 DEF Send, FeedTurn, Opening, openVars
<1>8. ASSUME NEW c \in Session, TurnStep(c)
      PROVE  ToolInv'
  BY <1>1, <1>4, <1>8 DEF TurnStep, Return, Opening, openVars, toolVars
<1>9. ASSUME NEW c \in Session, TurnEnds(c)
      PROVE  ToolInv'
  BY <1>1, <1>4, <1>9 DEF TurnEnds, Return, Opening, openVars, toolVars
<1>10. ASSUME NEW c \in Session, NEW i \in CallId, NoteCall(c, i)
       PROVE  ToolInv'
  <2>1. /\ calls' = Append(calls, [by |-> c, results |-> 0])
        /\ pending' = [pending EXCEPT ![c][i] = Len(calls) + 1]
        /\ UNCHANGED <<op, who, status, hops>>
    BY <1>10 DEF NoteCall, opVars, openVars
  <2>2. [by |-> c, results |-> 0] \in CallType
    BY DEF CallType
  <2>3. calls' \in Seq(CallType) /\ Len(calls) + 1 \in Nat
    BY <1>1, <2>1, <2>2, AppendProperties, LenProperties
  <2>4. pending' \in [Session -> [CallId -> Nat \cup {None}]]
    BY <1>1, <2>1, <2>3
  <2> QED BY <1>1, <2>1, <2>3, <2>4 DEF ToolInv, ToolTypes, OpeningInv
<1>11. ASSUME NEW c \in Session, NEW i \in CallId, FailCall(c, i)
       PROVE  ToolInv'
  <2>1. /\ calls' = Ended({pending[c][i]}) /\ pending' = Popped(c, i)
        /\ op = "idle" /\ UNCHANGED <<op, who, status, hops>>
    BY <1>11 DEF FailCall, Idle, opVars, openVars
  <2> QED BY <1>1, <2>1, OneEndsTyped DEF ToolInv, ToolTypes, OpeningInv
<1>12. ASSUME NEW c \in Session, NEW i \in CallId, NEW n, AppendResult(c, i, n)
       PROVE  ToolInv'
  <2>1. /\ calls' = Ended({pending[c][i]}) /\ pending' = Popped(c, i)
        /\ UNCHANGED status /\ hops' = [hops EXCEPT ![c] = @ + 1] /\ hops[c] < MaxHops
    BY <1>12 DEF AppendResult, openVars
  <2>2. op' \in {"idle", "turn"} /\ who' \subseteq Session
    BY <1>1, <1>12 DEF AppendResult, FeedTurn, Idle, opVars
  <2>3. hops' \in [Session -> 0..MaxHops]
    BY <1>1, <2>1, CountsAssumption
  <2> QED BY <1>1, <2>1, <2>2, <2>3, OneEndsTyped
          DEF ToolInv, ToolTypes, OpeningInv, Opening
<1>13. ASSUME NEW c \in Session, NEW n, LoadState(c, n)
       PROVE  ToolInv'
  BY <1>1, <1>4, <1>13 DEF LoadState, Idle, Opening, opVars, openVars, toolVars
<1>14. ASSUME NEW c \in Session, CloseSession(c)
       PROVE  ToolInv'
  <2>1. /\ op = "idle" /\ UNCHANGED <<op, who>> /\ calls' = Ended(Cancelled(c))
        /\ pending' = [pending EXCEPT ![c] = [i \in CallId |-> None]]
        /\ hops' = [hops EXCEPT ![c] = 0]
        /\ status' = [status EXCEPT ![c] = "closed"]
    BY <1>14 DEF CloseSession, Idle, opVars
  <2>2. hops' \in [Session -> 0..MaxHops] /\ status' \in [Session -> Status]
    BY <1>1, <2>1, CountsAssumption DEF Status
  <2>3. pending' \in [Session -> [CallId -> Nat \cup {None}]]
    BY <1>1, <2>1
  <2>4. calls' \in Seq(CallType)
    BY <1>1, <2>1, EndedFacts
  <2> QED BY <1>1, <2>1, <2>2, <2>3, <2>4 DEF ToolInv, ToolTypes, OpeningInv, Opening
<1>15. CASE ReserveHolder
  BY <1>5, <1>15 DEF ReserveHolder, Opening, toolVars
<1>16. CASE WarmHolder
  BY <1>5, <1>16 DEF WarmHolder, Opening, toolVars
<1>17. CASE TakeSlot
  <2>1. PICK c \in who :
           /\ op = "slot" /\ UNCHANGED <<hops, pending, calls>>
           /\ \/ Return /\ status' = [status EXCEPT ![c] = "open"]
              \/ UNCHANGED <<who, status>>
    BY <1>17 DEF TakeSlot, toolVars
  <2> QED BY <1>5, <1>6, <2>1 DEF Return, Opening
<1>18. CASE CopyHolder
  BY <1>6, <1>18 DEF CopyHolder, Return, toolVars
<1>19. CASE OpenFails
  BY <1>6, <1>19 DEF OpenFails, Return, toolVars
<1>20. ASSUME NEW B \in SUBSET Session, NEW n, RunSessions(B, n)
       PROVE  ToolInv'
  BY <1>1, <1>4, <1>20 DEF RunSessions, Opening, openVars, toolVars
<1>21. CASE BatchStep
  <2>1. op' \in {"idle", "batch"} /\ who' \subseteq Session
    BY <1>1, <1>21 DEF BatchStep, Return, opVars
  <2> QED BY <1>1, <1>4, <1>21, <2>1 DEF BatchStep, Opening, openVars, toolVars
<1>22. CASE BatchOver
  BY <1>1, <1>4, <1>22 DEF BatchOver, Return, Opening, openVars, toolVars
<1>23. CASE EngineClose
  <2>1. /\ op' = "idle" /\ UNCHANGED <<who, hops, pending, calls>>
        /\ status' = [c \in Session |-> IF status[c] = "open" THEN "orphan" ELSE status[c]]
    BY <1>23 DEF EngineClose, Idle, opVars, toolVars
  <2>2. status' \in [Session -> Status]
    BY <1>1, <2>1 DEF Status
  <2> QED BY <1>1, <2>1, <2>2 DEF ToolInv, ToolTypes, OpeningInv, Opening
<1>24. ASSUME UNCHANGED <<op, who, status, hops, pending, calls>>
       PROVE  ToolInv'
  BY <1>1, <1>24 DEF ToolInv, ToolTypes, OpeningInv
<1>25. ASSUME NEW r \in Request, NEW n, ChatStart(r, n)
       PROVE  ToolInv'
  BY <1>24, <1>25 DEF ChatStart, opVars, openVars, toolVars
<1>26. CASE ChatStep
  BY <1>24, <1>26 DEF ChatStep, opVars, openVars, toolVars
<1>27. CASE ChatOver
  BY <1>24, <1>27 DEF ChatOver, opVars, openVars, toolVars
<1> QED
  BY <1>2, <1>3, <1>7, <1>8, <1>9, <1>10, <1>11, <1>12, <1>13, <1>14, <1>15,
     <1>16, <1>17, <1>18, <1>19, <1>20, <1>21, <1>22, <1>23, <1>25, <1>26, <1>27
  DEF Next, BatchEnds, BatchFails, ChatEnd, ChatDropped

\* The tool loop keeps its types whoever uses the engine, and however.
THEOREM ToolInvariant == Spec => []ToolInv
<1>1. Init => ToolInv
  <2> SUFFICES ASSUME Init
               PROVE  ToolInv
    OBVIOUS
  <2>1. /\ status = [c \in Session |-> "new"] /\ who = {} /\ op = "idle"
        /\ hops = [c \in Session |-> 0] /\ calls = <<>>
        /\ pending = [c \in Session |-> [i \in CallId |-> None]]
    BY DEF Init
  <2> QED BY <2>1, EmptySeq, CountsAssumption
          DEF ToolInv, ToolTypes, OpeningInv, Opening, Status
<1>2. ToolInv /\ [Next]_vars => ToolInv'
  BY ToolStep
<1> QED BY <1>1, <1>2, PTL DEF Spec

\* The account of the calls is kept throughout, if no id is noted twice.
THEOREM CallInvariant == "reuse" \notin Careless => (Spec => []CallInv)
<1>1. Init => CallInv
  <2> SUFFICES ASSUME Init
               PROVE  CallInv
    OBVIOUS
  <2>1. /\ status = [c \in Session |-> "new"] /\ who = {} /\ op = "idle"
        /\ hops = [c \in Session |-> 0] /\ calls = <<>>
        /\ pending = [c \in Session |-> [i \in CallId |-> None]]
    BY DEF Init
  <2>2. calls \in Seq(CallType) /\ Len(calls) = 0
    BY <2>1, EmptySeq
  <2>3. ToolTypes
    BY <2>1, <2>2, CountsAssumption DEF ToolTypes, Status
  <2>4. OpeningInv
    BY <2>1 DEF OpeningInv
  <2>5. PendingInv
    BY <2>1, <2>2 DEF PendingInv
  <2> QED BY <2>3, <2>4, <2>5 DEF CallInv
<1>2. SUFFICES ASSUME "reuse" \notin Careless
               PROVE  Spec => []CallInv
  OBVIOUS
<1>3. CallInv /\ [Next]_vars => CallInv'
  BY <1>2, CallStep
<1> QED BY <1>1, <1>3, PTL DEF Spec

\* Every tool call that was noted has one result at most, and exactly one when
\* its session's span ends: with results that arrive, calls that fail, hops
\* that run out and sessions that are closed with calls pending, for any number
\* of sessions, ids and calls.
THEOREM CallsEndOnce == "reuse" \notin Careless => (Spec => []EveryCallEndsOnce)
<1>1. CallInv => EveryCallEndsOnce
  <2> SUFFICES ASSUME CallInv, NEW k \in 1..Len(calls)
               PROVE  /\ calls[k].results <= 1
                      /\ status[calls[k].by] = "closed" => calls[k].results = 1
    BY DEF EveryCallEndsOnce
  <2>1. /\ calls[k].by \in Session /\ calls[k].results \in Nat
    <3>1. calls[k] \in CallType
      BY ElementOfSeq DEF CallInv, ToolTypes
    <3> QED BY <3>1 DEF CallType
  <2>2. /\ calls[k].results <= 1
        /\ calls[k].results = 0 => \E i \in CallId : pending[calls[k].by][i] = k
    BY DEF CallInv, PendingInv
  <2>3. status[calls[k].by] = "closed" =>
           \A i \in CallId : pending[calls[k].by][i] = None
    BY <2>1 DEF CallInv, PendingInv
  <2>4. k # None
    BY NoneAssumption, LenProperties DEF CallInv, ToolTypes
  <2> QED BY <2>1, <2>2, <2>3, <2>4
<1> QED BY <1>1, CallInvariant, PTL

-----------------------------------------------------------------------------
(* The methods of the two schedulers, with what SchedulerProofs proves.     *)

SP == INSTANCE SchedulerProofs
CP == INSTANCE SchedulerProofs WITH MaxActive <- 1, free <- chatFree, queue <- chatQueue,
                                    slots <- chatSlots, holders <- {},
                                    consumers <- [s \in SeqId |-> {}]

\* What Scheduler assumes holds of both.
LEMMA Assumed == /\ SP!CountsAssumption /\ SP!NoneAssumption
                 /\ CP!CountsAssumption /\ CP!NoneAssumption
<1>1. 1 \in 1..NSeq
  BY CountsAssumption
<1> QED BY <1>1, CountsAssumption, NoneAssumption
        DEF SP!CountsAssumption, SP!NoneAssumption, CP!CountsAssumption, CP!NoneAssumption

\* SP speaks of the scheduler S, and CP of C.
LEMMA SameInv == (S!IInv <=> SP!IInv) /\ (S!IInv' <=> SP!IInv')
BY DEF SP!IInv, S!IInv, SP!TypeOK, S!TypeOK, SP!OneOwner, S!OneOwner,
       SP!PositionIsKV, S!PositionIsKV, SP!CleanInv, S!CleanInv, SP!HolderInv,
       S!HolderInv, SP!QueueInv, S!QueueInv, SP!Live, S!Live, SP!SeqId, S!SeqId,
       SP!Slot, S!Slot, SP!Cells, S!Cells, SP!Waiting, S!Waiting, SP!Range,
       S!Range, Range, SP!Cardinality, S!Cardinality, Cardinality

LEMMA SameChatInv == (C!IInv <=> CP!IInv) /\ (C!IInv' <=> CP!IInv')
BY DEF CP!IInv, C!IInv, CP!TypeOK, C!TypeOK, CP!OneOwner, C!OneOwner,
       CP!PositionIsKV, C!PositionIsKV, CP!CleanInv, C!CleanInv, CP!HolderInv,
       C!HolderInv, CP!QueueInv, C!QueueInv, CP!Live, C!Live, CP!SeqId, C!SeqId,
       CP!Slot, C!Slot, CP!Cells, C!Cells, CP!Waiting, C!Waiting, CP!Range,
       C!Range, Range, CP!Cardinality, C!Cardinality, Cardinality

\* open_slot.
LEMMA SOpenSlot ==
    ASSUME S!IInv, NEW j \in Job, S!OpenSlot(j)
    PROVE  S!IInv'
<1>1. SP!OpenSlot(j)
  BY DEF S!OpenSlot, SP!OpenSlot, S!Unused, SP!Unused, S!SlotFree, SP!SlotFree,
         S!Waiting, SP!Waiting, S!Range, SP!Range, S!SeqId, SP!SeqId, S!Taken,
         SP!Taken, S!Blank, SP!Blank, S!Live, SP!Live, S!Cardinality, SP!Cardinality
<1> QED BY <1>1, SP!OpenSlotInv, SameInv, Assumed

\* feed.
LEMMA SFeed ==
    ASSUME S!IInv, NEW jobs, NEW input, \A j \in Job : input[j] \in Nat,
           S!Feed(jobs, input)
    PROVE  S!IInv'
<1>1. SP!Feed(jobs, input)
  BY DEF S!Feed, SP!Feed
<1> QED BY <1>1, SP!FeedInv, SameInv, Assumed

\* close_slot.
LEMMA SCloseSlot ==
    ASSUME S!IInv, NEW s \in SeqId, S!CloseSlot(s)
    PROVE  S!IInv'
<1>1. SP!CloseSlot(s)
  BY DEF S!CloseSlot, SP!CloseSlot, S!Live, SP!Live, S!SeqId, SP!SeqId, S!Recycled,
         SP!Recycled, S!Emptied, SP!Emptied, S!Blank, SP!Blank
<1>2. s \in SP!SeqId
  BY DEF SeqId, SP!SeqId
<1> QED BY <1>1, <1>2, SP!CloseSlotInv, SameInv, Assumed

\* load_slot_state.
LEMMA SLoadState ==
    ASSUME S!IInv, NEW s \in SeqId, NEW n \in Nat, S!LoadState(s, n)
    PROVE  S!IInv'
<1>1. SP!LoadState(s, n)
  BY DEF S!LoadState, SP!LoadState, S!Live, SP!Live, S!SeqId, SP!SeqId, S!Cells, SP!Cells
<1>2. s \in SP!SeqId
  BY DEF SeqId, SP!SeqId
<1> QED BY <1>1, <1>2, SP!LoadStateInv, SameInv, Assumed

\* reserve_prefix_holder.
LEMMA SReserve ==
    ASSUME S!IInv, S!Reserve
    PROVE  S!IInv'
<1>1. SP!Reserve
  BY DEF S!Reserve, SP!Reserve
<1> QED BY <1>1, SP!ReserveInv, SameInv, Assumed

\* warm_prefix.
LEMMA SWarm ==
    ASSUME S!IInv, NEW h \in holders, NEW n \in Nat, kv[h] = <<>>, S!Warm(h, n)
    PROVE  S!IInv'
<1>1. SP!Warm(h, n)
  BY DEF S!Warm, SP!Warm, S!Cells, SP!Cells
<1> QED BY <1>1, SP!WarmInv, SameInv, Assumed

\* copy_prefix_to_slot.
LEMMA SCopyPrefix ==
    ASSUME S!IInv, NEW h \in holders, NEW s \in SeqId, kv[s] = <<>>,
           S!CopyPrefix(h, s, Len(kv[h]))
    PROVE  S!IInv'
<1>1. SP!CopyPrefix(h, s, Len(kv[h]))
  BY DEF S!CopyPrefix, SP!CopyPrefix, S!Live, SP!Live, S!SeqId, SP!SeqId, S!Seeded, SP!Seeded
<1>2. s \in SP!SeqId
  BY DEF SeqId, SP!SeqId
<1> QED BY <1>1, <1>2, SP!CopyPrefixInv, SameInv, Assumed

\* step, for sessions alone.
LEMMA SStep ==
    ASSUME S!IInv, queue = <<>>, \A s \in S!Live : slot[slots[s]].session,
           NEW stop, S!Step(stop)
    PROVE  /\ S!IInv'
           /\ holders' = holders /\ \A h \in holders : kv'[h] = kv[h]
           /\ queue' = <<>> /\ slots' = slots
           /\ \A s \in S!Live : slot'[slots[s]].session
<1>1. SP!Step(stop)
  BY DEF SP!Step, S!Step, SP!SlotsAdmitted, S!SlotsAdmitted, SP!Admitted, S!Admitted,
         SP!Active, S!Active, SP!Over, S!Over, SP!Sampled, S!Sampled, SP!Advance,
         S!Advance, SP!Emptied, S!Emptied, SP!Cells, S!Cells, SP!SeqId, S!SeqId,
         SP!Recycled, S!Recycled, SP!Blank, S!Blank, SP!Live, S!Live, SP!Range,
         S!Range, SP!Cardinality, S!Cardinality, SP!Min, S!Min
<1>2. S!Live = SP!Live
  BY DEF S!Live, SP!Live, S!SeqId, SP!SeqId
<1>3. SP!IInv /\ \A s \in SP!Live : slot[slots[s]].session
  BY <1>2, SameInv
<1>4. SP!IInv'
  BY <1>1, <1>3, SP!StepInv, Assumed
<1>5. holders' = holders /\ \A h \in holders : kv'[h] = kv[h]
  BY <1>1, <1>3, SP!StepKeepsHolders, Assumed
<1>6. /\ queue' = <<>> /\ slots' = slots
      /\ \A s \in SP!Live : slot'[slots[s]].session
  BY <1>1, <1>3, SP!StepOfSessions, Assumed
<1> QED BY <1>2, <1>4, <1>5, <1>6, SameInv

\* submit and step, for the stateless request of a chat stream.
LEMMA CSubmit ==
    ASSUME C!IInv, NEW j \in Job, NEW n \in Nat, C!Submit(j, n)
    PROVE  C!IInv'
<1>1. CP!Submit(j, n)
  BY DEF C!Submit, CP!Submit, C!Unused, CP!Unused, C!Waiting, CP!Waiting, C!Range,
         CP!Range, C!SeqId, CP!SeqId, C!Blank, CP!Blank
<1> QED BY <1>1, CP!SubmitInv, SameChatInv, Assumed

LEMMA CStep ==
    ASSUME C!IInv, NEW stop, C!Step(stop)
    PROVE  C!IInv'
<1>1. CP!Step(stop)
  BY DEF CP!Step, C!Step, CP!SlotsAdmitted, C!SlotsAdmitted, CP!Admitted, C!Admitted,
         CP!Active, C!Active, CP!Over, C!Over, CP!Sampled, C!Sampled, CP!Advance,
         C!Advance, CP!Emptied, C!Emptied, CP!Cells, C!Cells, CP!SeqId, C!SeqId,
         CP!Recycled, C!Recycled, CP!Blank, C!Blank, CP!Live, C!Live, CP!Range,
         C!Range, CP!Cardinality, C!Cardinality, CP!Min, C!Min
<1> QED BY <1>1, CP!StepInv, SameChatInv, Assumed

-----------------------------------------------------------------------------
(* What the invariant says, spelled out for the provers.                    *)

\* The sessions' scheduler, while no chat stream has the backend.
LEMMA SchedulerInv ==
    ASSUME EngineInv, chat = None
    PROVE  S!IInv
<1>1. S!QueueInv
  BY EmptySeq DEF S!QueueInv, S!Waiting, S!Range, EngineInv, SlotInv
<1> QED BY <1>1 DEF S!IInv, EngineInv, SlotInv, ChatInv

\* Slots, their sessions and the holders.
LEMMA Slots ==
    ASSUME EngineInv
    PROVE  /\ S!SeqId = SeqId /\ S!Live = {s \in SeqId : slots[s] # None}
           /\ slots \in [SeqId -> Job \cup {None}]
           /\ kv \in [SeqId -> Seq(Nat)] /\ free \in Seq(SeqId)
           /\ holders \subseteq SeqId /\ queue = <<>>
           /\ \A j \in Job : slot[j] \in S!Slot
           /\ slot \in [Job -> S!Slot]
           /\ \A s \in SeqId : slots[s] # None =>
                 s \notin holders /\ slots[s] \in Session /\ slot[slots[s]].session
           /\ \A s, t \in SeqId : slots[s] # None /\ slots[s] = slots[t] => s = t
<1>1. S!SeqId = SeqId /\ S!Live = {s \in SeqId : slots[s] # None}
  BY DEF S!SeqId, SeqId, S!Live
<1>2. /\ slots \in [SeqId -> Job \cup {None}]
      /\ kv \in [SeqId -> Seq(Nat)] /\ free \in Seq(SeqId)
      /\ holders \subseteq SeqId /\ queue = <<>>
      /\ slot \in [Job -> S!Slot]
  BY <1>1 DEF EngineInv, SlotInv, S!TypeOK
<1>3. \A s \in S!Live : s \notin holders /\ slots[s] \in Session /\ slot[slots[s]].session
  BY DEF EngineInv, SlotInv, S!OneOwner, S!Live
<1>4. \A s, t \in S!Live : slots[s] = slots[t] => s = t
  BY DEF EngineInv, SlotInv, S!OneOwner
<1> QED BY <1>1, <1>2, <1>3, <1>4

\* The sequence that is handed out next is in nobody's hands, and clean.
LEMMA NextFree ==
    ASSUME EngineInv, chat = None, free # <<>>
    PROVE  /\ Head(free) \in SeqId /\ Head(free) \notin holders
           /\ slots[Head(free)] = None /\ kv[Head(free)] = <<>>
<1>1. Head(free) \in SeqId /\ \E i \in 1..Len(free) : Head(free) = free[i]
  <2>1. free \in Seq(SeqId) /\ Head(free) = free[1] /\ Len(free) \in Nat \ {0}
    BY Slots, HeadTailProperties, EmptySeq, LenProperties
  <2> QED BY <2>1, ElementOfSeq
<1>2. Head(free) \in S!Range(free)
  BY <1>1, Slots, LenProperties DEF S!Range
<1>3. Head(free) \notin S!Live /\ Head(free) \notin holders
  BY <1>1, <1>2, Slots DEF EngineInv, SlotInv, S!OneOwner
<1>4. kv[Head(free)] = <<>>
  BY <1>1, <1>3, Slots DEF EngineInv, ChatInv, S!CleanInv
<1> QED BY <1>1, <1>3, <1>4, Slots

\* Sessions that are open have a slot, and there is no chat stream.
LEMMA OpenFacts ==
    ASSUME EngineInv, NEW c \in Session, status[c] = "open"
    PROVE  /\ seqOf[c] \in SeqId /\ slots[seqOf[c]] = c
           /\ seqOf[c] \in S!Live /\ chat = None
<1>1. seqOf[c] \in SeqId /\ slots[seqOf[c]] = c
  BY DEF EngineInv, OwnerInv
<1>2. c # None
  BY SessionAssumption, NoneAssumption
<1>3. seqOf[c] \in S!Live
  BY <1>1, <1>2, Slots
<1> QED BY <1>1, <1>3 DEF EngineInv, ChatInv

\* In the middle of a call there is no chat stream.
LEMMA BusyFacts ==
    ASSUME EngineInv, op # "idle"
    PROVE  chat = None
BY DEF EngineInv, ChatInv, Idle

-----------------------------------------------------------------------------
(* Frames: what a step keeps that leaves something alone.                   *)

\* A method of the sessions' scheduler.
LEMMA Method ==
    ASSUME EngineInv, chat = None, UNCHANGED chatVars, S!IInv', queue' = <<>>,
           \A s \in SeqId : slots'[s] # None =>
              slots'[s] \in Session /\ slot'[slots'[s]].session
    PROVE  SlotInv' /\ ChatInv'
<1>1. chat' = None /\ chatFree' = AllFree /\ chatQueue' = <<>> /\ chatSlots' = NoSlots
  BY DEF chatVars, EngineInv, ChatInv
<1>2. \A s \in S!Live' : slots'[s] \in Session /\ slot'[slots'[s]].session
  BY DEF S!Live, S!SeqId, SeqId
<1> QED BY <1>1, <1>2 DEF SlotInv, ChatInv, S!IInv

\* No scheduler is touched.
LEMMA NoMethod ==
    ASSUME EngineInv, UNCHANGED schedVars, UNCHANGED chatVars,
           chat # None => op' = "idle"
    PROVE  SlotInv' /\ ChatInv'
<1>1. UNCHANGED <<free, queue, slots, slot, holders, consumers, kv, shared>>
  BY DEF schedVars
<1>2. S!Live' = S!Live
  BY <1>1 DEF S!Live
<1>3. /\ S!TypeOK' /\ S!OneOwner' /\ S!PositionIsKV' /\ S!HolderInv'
  BY <1>1, <1>2 DEF EngineInv, SlotInv, S!TypeOK, S!OneOwner, S!PositionIsKV, S!HolderInv
<1>4. SlotInv'
  BY <1>1, <1>2, <1>3 DEF EngineInv, SlotInv
<1>5. S!CleanInv => S!CleanInv'
  BY <1>1, <1>2 DEF S!CleanInv
<1>6. UNCHANGED <<chatFree, chatQueue, chatSlots, chat>>
  BY DEF chatVars
<1>7. C!IInv => C!IInv'
  <2>1. C!Live' = C!Live /\ C!Waiting' = C!Waiting
    BY <1>6 DEF C!Live, C!Waiting
  <2>2. C!TypeOK => C!TypeOK'
    BY <1>1, <1>6 DEF C!TypeOK
  <2>3. C!OneOwner => C!OneOwner'
    BY <1>1, <1>6, <2>1 DEF C!OneOwner
  <2>4. C!PositionIsKV => C!PositionIsKV'
    BY <1>1, <1>6, <2>1 DEF C!PositionIsKV
  <2>5. C!CleanInv => C!CleanInv'
    BY <1>1, <1>6, <2>1 DEF C!CleanInv
  <2>6. C!HolderInv => C!HolderInv'
    BY <1>1, <1>6, <2>1 DEF C!HolderInv
  <2>7. C!QueueInv => C!QueueInv'
    BY <1>1, <1>6, <2>1 DEF C!QueueInv
  <2> QED BY <2>2, <2>3, <2>4, <2>5, <2>6, <2>7 DEF C!IInv
<1>8. ChatInv'
  BY <1>1, <1>2, <1>5, <1>6, <1>7 DEF EngineInv, ChatInv, Idle
<1> QED BY <1>4, <1>8

\* The holders and the registry are left alone.
LEMMA PrefixRest ==
    ASSUME EngineInv, UNCHANGED <<holders, registry, faults>>,
           \A h \in holders : kv'[h] = kv[h],
           op # "warm", op' # "warm"
    PROVE  PrefixInv'
BY DEF EngineInv, PrefixInv, Known

\* Sessions and their slots are left alone, and the thread ends up with no one
\* or in a turn of sessions that are open.
LEMMA OwnerRest ==
    ASSUME EngineInv, UNCHANGED <<slots, status, seqOf>>,
           op # "copy", op' \in {"idle", "turn", "batch"},
           op' \in {"turn", "batch"} => \A c \in who' : status[c] = "open",
           streams' \subseteq Session, \A c \in streams' : status[c] = "open",
           \A c \in Session : stray'[c] = {}
    PROVE  OwnerInv' /\ OpenInv'
<1>1. OwnerInv'
  BY DEF EngineInv, OwnerInv
<1>2. OpenInv'
  BY DEF OpenInv, Opening
<1> QED BY <1>1, <1>2

-----------------------------------------------------------------------------
(* Every step keeps the invariant: open_session.                            *)

\* The step is a session's: what is said of it holds of the session itself.
LEMMA OpeningFacts ==
    ASSUME EngineInv, op \in Opening, NEW c \in who
    PROVE  /\ c \in Session /\ who = {c} /\ status[c] = "opening" /\ chat = None
           /\ op # "idle"
           /\ \A d \in Session : status[d] = "open" => d # c
           /\ \A d \in streams : d # c
<1>1. op # "idle"
  BY DEF Opening
<1>2. c \in Session /\ who = {c} /\ status[c] = "opening"
  BY DEF EngineInv, OpenInv
<1> QED BY <1>1, <1>2, BusyFacts DEF EngineInv, OwnerInv

LEMMA OpenSessionInv ==
    ASSUME EngineInv, "overlap" \notin Careless,
           NEW c \in Session, NEW k \in Prompt \cup {None}, OpenSession(c, k)
    PROVE  EngineInv'
<1>1. /\ op = "idle" /\ status[c] = "new" /\ chat = None
      /\ status' = [status EXCEPT ![c] = "opening"] /\ prompt' = k /\ who' = {c}
      /\ op' = IF k # None /\ registry[k] = None THEN "reserve" ELSE "slot"
      /\ UNCHANGED <<schedVars, chatVars, target, registry, seqOf, streamVars, faults>>
  BY DEF OpenSession, Idle
<1>2. UNCHANGED <<slots, holders, kv, chat, streams, stray>>
  BY <1>1 DEF schedVars, chatVars, streamVars
<1>3. SlotInv' /\ ChatInv'
  BY <1>1, NoMethod
<1>4. /\ status' \in [Session -> Status] /\ status'[c] = "opening"
      /\ \A d \in Session : d # c => status'[d] = status[d]
  BY <1>1 DEF EngineInv, EngineTypes, Status
<1>5. EngineTypes'
  BY <1>1, <1>2, <1>4 DEF EngineInv, EngineTypes
<1>6. op' \in {"reserve", "slot"}
  BY <1>1
<1>7. OpenInv'
  BY <1>1, <1>4, <1>6 DEF OpenInv, Opening
<1>8. OwnerInv'
  BY <1>1, <1>2, <1>4 DEF EngineInv, OwnerInv
<1>9. PrefixInv'
  BY <1>1, <1>2, <1>6, PrefixRest
<1> QED BY <1>3, <1>5, <1>7, <1>8, <1>9 DEF EngineInv

LEMMA ReserveHolderInv ==
    ASSUME EngineInv, ReserveHolder
    PROVE  EngineInv'
<1> DEFINE h == Head(free)
<1>1. /\ op = "reserve" /\ S!Reserve /\ target' = h /\ op' = "warm"
      /\ UNCHANGED <<chatVars, who, prompt, registry, status, seqOf, streamVars, faults>>
  BY DEF ReserveHolder, Reserved
<1>2. chat = None
  BY <1>1, BusyFacts
<1>3. /\ free # <<>> /\ holders' = holders \cup {h}
      /\ UNCHANGED <<queue, slots, slot, kv>>
  BY <1>1 DEF S!Reserve
<1>4. h \in SeqId /\ h \notin holders /\ kv[h] = <<>>
  BY <1>2, <1>3, NextFree
<1>5. S!IInv'
  BY <1>1, <1>2, SchedulerInv, SReserve
<1>6. SlotInv' /\ ChatInv'
  BY <1>1, <1>2, <1>3, <1>5, Slots, Method
<1> HIDE DEF h
<1>7. UNCHANGED <<chat, streams, stray>>
  BY <1>1 DEF chatVars, streamVars
<1>8. EngineTypes'
  BY <1>1, <1>4, <1>7 DEF EngineInv, EngineTypes
<1>9. OpenInv'
  BY <1>1, <1>3, <1>4 DEF EngineInv, OpenInv, Opening
<1>10. OwnerInv'
  BY <1>1, <1>3, <1>7 DEF EngineInv, OwnerInv
<1>11. PrefixInv'
  <2>1. IsFiniteSet(holders) /\ Cardinality(holders) \in Nat
    <3>1. IsFiniteSet(SeqId)
      BY CountsAssumption, FS_Interval DEF SeqId
    <3> QED BY <3>1, Slots, FS_Subset, FS_CardinalityType
  <2>2. Cardinality(holders') = Cardinality(holders) + 1
    BY <2>1, <1>3, <1>4, FS_AddElement
  <2>3. Known' = Known
    BY <1>1 DEF Known
  <2>4. Cardinality(Known) \in Nat /\ faults \in Nat
    BY FS_CardinalityType, CountsAssumption DEF EngineInv, PrefixInv, EngineTypes
  <2>5. Cardinality(holders) <= Cardinality(Known) + faults
    BY <1>1, <2>4 DEF EngineInv, PrefixInv
  <2>6. Cardinality(holders') <= Cardinality(Known) + faults + 1
    BY <2>1, <2>2, <2>4, <2>5
  <2>7. \A k \in Known : registry[k] \in holders' /\ Len(kv'[registry[k]]) = PrefixLen
    BY <1>3 DEF EngineInv, PrefixInv
  <2> QED BY <1>1, <2>3, <2>6, <2>7 DEF EngineInv, PrefixInv
<1> QED BY <1>6, <1>8, <1>9, <1>10, <1>11 DEF EngineInv

LEMMA WarmHolderInv ==
    ASSUME EngineInv, WarmHolder
    PROVE  EngineInv'
<1>1. PICK c \in who :
         /\ op = "warm" /\ S!Warm(target, PrefixLen)
         /\ registry' = [registry EXCEPT ![prompt] = target]
         /\ op' = "slot" /\ target' = None
         /\ UNCHANGED <<chatVars, who, prompt, status, seqOf, streamVars, faults>>
  BY DEF WarmHolder, Remembered
<1>2. /\ chat = None /\ who = {c} /\ status[c] = "opening" /\ c \in Session
      /\ target \in holders /\ kv[target] = <<>>
      /\ prompt \in Prompt /\ registry[prompt] = None
  BY <1>1, OpeningFacts DEF EngineInv, OpenInv, Opening
<1>3. target \in SeqId /\ target # None
  BY <1>2, Slots, NoneAssumption DEF SeqId
<1>4. PrefixLen \in Nat /\ S!Cells(0, PrefixLen) \in Seq(Nat) /\ Len(S!Cells(0, PrefixLen)) = PrefixLen
  <2>1. PrefixLen \in Nat
    BY PositionAssumption, CountsAssumption
  <2> QED BY <2>1 DEF S!Cells
<1>5. S!IInv'
  BY <1>1, <1>2, <1>4, SchedulerInv, SWarm
<1>6. /\ kv' = [kv EXCEPT ![target] = @ \o S!Cells(0, PrefixLen)]
      /\ UNCHANGED <<queue, slots, slot, holders>>
  BY <1>1 DEF S!Warm
<1>7. SlotInv' /\ ChatInv'
  BY <1>1, <1>2, <1>5, <1>6, Slots, Method
<1>8. /\ Len(kv'[target]) = PrefixLen
      /\ \A h \in SeqId : h # target => kv'[h] = kv[h]
  <2>1. <<>> \o S!Cells(0, PrefixLen) = S!Cells(0, PrefixLen)
    BY <1>4, ConcatEmptySeq
  <2> QED BY <1>2, <1>3, <1>4, <1>6, <2>1, Slots
<1>9. /\ registry' \in [Prompt -> SeqId \cup {None}] /\ registry'[prompt] = target
      /\ \A k \in Prompt : k # prompt => registry'[k] = registry[k]
  BY <1>1, <1>2, <1>3 DEF EngineInv, EngineTypes
<1>10. UNCHANGED <<chat, streams, stray>>
  BY <1>1 DEF chatVars, streamVars
<1>11. EngineTypes'
  BY <1>1, <1>9, <1>10 DEF EngineInv, EngineTypes
<1>12. OpenInv'
  BY <1>1, <1>2, <1>3, <1>9 DEF OpenInv, Opening
<1>13. OwnerInv'
  BY <1>1, <1>6, <1>10 DEF EngineInv, OwnerInv
<1>14. PrefixInv'
  <2>1. Known' = Known \cup {prompt} /\ prompt \notin Known
    BY <1>2, <1>3, <1>9 DEF Known
  <2>2. IsFiniteSet(Known) /\ Cardinality(Known) \in Nat
    BY FS_CardinalityType DEF EngineInv, PrefixInv
  <2>3. IsFiniteSet(Known') /\ Cardinality(Known') = Cardinality(Known) + 1
    BY <2>1, <2>2, FS_AddElement
  <2>4. \A k \in Known' : registry'[k] \in holders' /\ Len(kv'[registry'[k]]) = PrefixLen
    <3> TAKE k \in Known'
    <3>1. CASE k = prompt
      BY <3>1, <1>2, <1>6, <1>8, <1>9
    <3>2. CASE k # prompt
      <4>1. k \in Known /\ registry'[k] = registry[k]
        BY <3>2, <2>1, <1>9 DEF Known
      <4>2. registry[k] \in holders /\ registry[k] \in SeqId /\ Len(kv[registry[k]]) = PrefixLen
        BY <4>1, Slots DEF EngineInv, PrefixInv
      <4>3. registry[k] # target \/ registry[k] = target
        OBVIOUS
      <4> QED BY <4>1, <4>2, <4>3, <1>6, <1>8
    <3> QED BY <3>1, <3>2
  <2>5. faults \in Nat /\ faults' = faults
    BY <1>1, CountsAssumption DEF EngineInv, EngineTypes
  <2>6. Cardinality(holders) <= Cardinality(Known) + faults + 1
    BY <1>1 DEF EngineInv, PrefixInv
  <2>7. Cardinality(holders') <= Cardinality(Known') + faults' + 0
    BY <2>2, <2>3, <2>5, <2>6, <1>6
  <2> QED BY <1>1, <2>3, <2>4, <2>7 DEF PrefixInv
<1> QED BY <1>7, <1>11, <1>12, <1>13, <1>14 DEF EngineInv

LEMMA TakeSlotInv ==
    ASSUME EngineInv, TakeSlot
    PROVE  EngineInv'
<1> DEFINE s == Head(free)
<1>1. PICK c \in who :
         /\ op = "slot" /\ S!OpenSlot(c)
         /\ seqOf' = [seqOf EXCEPT ![c] = s]
         /\ \/ prompt = None /\ Return /\ status' = [status EXCEPT ![c] = "open"]
            \/ prompt # None /\ op' = "copy" /\ UNCHANGED <<who, prompt, target, status>>
         /\ UNCHANGED <<chatVars, registry, streamVars, faults>>
  BY DEF TakeSlot
<1>2. /\ chat = None /\ who = {c} /\ status[c] = "opening" /\ c \in Session
      /\ \A d \in Session : status[d] = "open" => d # c
      /\ prompt # None => registry[prompt] # None
  BY <1>1, OpeningFacts DEF EngineInv, OpenInv, Opening
<1>3. c \in Job /\ c # None
  BY <1>2, SessionAssumption, NoneAssumption
<1>4. /\ free # <<>> /\ \A t \in SeqId : slots[t] # c
      /\ slots' = [slots EXCEPT ![s] = c]
      /\ slot' = [slot EXCEPT ![c] = [S!Blank EXCEPT !.session = TRUE]]
      /\ UNCHANGED <<queue, holders, kv>>
  BY <1>1, Slots DEF S!OpenSlot, S!SlotFree, S!Unused
<1>5. s \in SeqId /\ s \notin holders /\ slots[s] = None /\ kv[s] = <<>>
  BY <1>2, <1>4, NextFree
<1> HIDE DEF s
<1>6. /\ slots'[s] = c /\ \A t \in SeqId : t # s => slots'[t] = slots[t]
      /\ slot'[c].session /\ \A j \in Job : j # c => slot'[j] = slot[j]
  BY <1>3, <1>4, <1>5, Slots DEF S!Blank
<1>7. S!IInv'
  BY <1>1, <1>2, <1>3, SchedulerInv, SOpenSlot
<1>8. \A t \in SeqId : slots'[t] # None => slots'[t] \in Session /\ slot'[slots'[t]].session
  BY <1>2, <1>4, <1>6, Slots, SessionAssumption
<1>9. SlotInv' /\ ChatInv'
  BY <1>1, <1>2, <1>4, <1>7, <1>8, Slots, Method
<1>10. /\ seqOf' \in [Session -> SeqId \cup {None}] /\ seqOf'[c] = s
       /\ \A d \in Session : d # c => seqOf'[d] = seqOf[d]
  BY <1>1, <1>2, <1>5 DEF EngineInv, EngineTypes
<1>11. UNCHANGED <<chat, streams, stray>>
  BY <1>1 DEF chatVars, streamVars
<1>12. /\ status' \in [Session -> Status]
       /\ \A d \in Session : d # c => status'[d] = status[d]
       /\ \/ /\ status'[c] = "open" /\ op' = "idle"
             /\ prompt' = None /\ target' = None
          \/ /\ status'[c] = "opening" /\ op' = "copy" /\ who' = {c}
             /\ prompt' = prompt /\ prompt # None /\ target' = target
  <2>1. status \in [Session -> Status]
    BY DEF EngineInv, EngineTypes
  <2>2. CASE prompt = None /\ Return /\ status' = [status EXCEPT ![c] = "open"]
    BY <2>1, <2>2, <1>2 DEF Status, Return
  <2>3. CASE prompt # None /\ op' = "copy" /\ UNCHANGED <<who, prompt, target, status>>
    BY <2>1, <2>3, <1>2
  <2> QED BY <2>2, <2>3, <1>1
<1>13. EngineTypes'
  BY <1>1, <1>10, <1>11, <1>12 DEF EngineInv, EngineTypes
<1>14. OpenInv'
  <2>1. registry' = registry /\ kv' = kv
    BY <1>1, <1>4
  <2> QED BY <2>1, <1>2, <1>5, <1>6, <1>10, <1>12 DEF OpenInv, Opening
<1>15. OwnerInv'
  <2>1. \A d \in Session : status'[d] = "open" => seqOf'[d] \in SeqId /\ slots'[seqOf'[d]] = d
    <3> SUFFICES ASSUME NEW d \in Session, status'[d] = "open"
                 PROVE  seqOf'[d] \in SeqId /\ slots'[seqOf'[d]] = d
      OBVIOUS
    <3>1. CASE d = c
      BY <3>1, <1>5, <1>6, <1>10
    <3>2. CASE d # c
      <4>1. seqOf[d] \in SeqId /\ slots[seqOf[d]] = d
        BY <3>2, <1>12 DEF EngineInv, OwnerInv
      <4>2. d # None
        BY SessionAssumption, NoneAssumption
      <4> QED BY <3>2, <4>1, <4>2, <1>5, <1>6, <1>10
    <3> QED BY <3>1, <3>2
  <2>2. \A t \in SeqId : \A d \in Session :
           slots'[t] = d => status'[d] = "open" \/ (op' = "copy" /\ d \in who')
    <3> SUFFICES ASSUME NEW t \in SeqId, NEW d \in Session, slots'[t] = d
                 PROVE  status'[d] = "open" \/ (op' = "copy" /\ d \in who')
      OBVIOUS
    <3>1. CASE t = s
      BY <3>1, <1>6, <1>12
    <3>2. CASE t # s
      <4>1. slots[t] = d /\ d # c
        BY <3>2, <1>4, <1>6
      <4>2. status[d] = "open"
        BY <4>1, <1>1 DEF EngineInv, OwnerInv
      <4> QED BY <4>1, <4>2, <1>12
    <3> QED BY <3>1, <3>2
  <2>3. \A d \in streams' : status'[d] = "open"
    BY <1>1, <1>11, <1>12, OpeningFacts DEF Opening, EngineInv, OwnerInv, EngineTypes
  <2> QED BY <2>1, <2>2, <2>3, <1>11 DEF EngineInv, OwnerInv
<1>16. PrefixInv'
  BY <1>1, <1>4, <1>12, PrefixRest
<1> QED BY <1>9, <1>13, <1>14, <1>15, <1>16 DEF EngineInv

LEMMA CopyHolderInv ==
    ASSUME EngineInv, CopyHolder
    PROVE  EngineInv'
<1> DEFINE h == registry[prompt]
<1>1. PICK c \in who :
         /\ op = "copy" /\ S!CopyPrefix(h, seqOf[c], PrefixLen)
         /\ Return /\ status' = [status EXCEPT ![c] = "open"]
         /\ UNCHANGED <<chatVars, registry, seqOf, streamVars, faults>>
  BY DEF CopyHolder
<1> DEFINE s == seqOf[c]
<1>2. /\ chat = None /\ who = {c} /\ status[c] = "opening" /\ c \in Session
      /\ prompt # None /\ h # None
      /\ s \in SeqId /\ slots[s] = c /\ kv[s] = <<>>
  BY <1>1, OpeningFacts DEF EngineInv, OpenInv, Opening
<1>3. h \in holders /\ Len(kv[h]) = PrefixLen
  <2>1. prompt \in Known
    BY <1>2 DEF Known, EngineInv, EngineTypes
  <2> QED BY <2>1 DEF EngineInv, PrefixInv
<1>4. S!CopyPrefix(h, s, Len(kv[h]))
  BY <1>1, <1>3
<1> HIDE DEF h, s
<1>5. S!IInv'
  BY <1>2, <1>3, <1>4, SchedulerInv, SCopyPrefix
<1>6. /\ kv' = [kv EXCEPT ![s] = @ \o kv[h]]
      /\ slot' = [slot EXCEPT ![slots[s]].past = Len(kv[h])]
      /\ UNCHANGED <<queue, slots, holders>>
  BY <1>4 DEF S!CopyPrefix, S!Seeded
<1>7. \A j \in Job : slot'[j].session = slot[j].session
  BY <1>6, Slots DEF S!Slot
<1>8. SlotInv' /\ ChatInv'
  BY <1>1, <1>2, <1>5, <1>6, <1>7, Slots, SessionAssumption, Method
<1>9. \A g \in holders : kv'[g] = kv[g]
  <2>1. s \notin holders
    BY <1>2, Slots, SessionAssumption, NoneAssumption
  <2> QED BY <2>1, <1>2, <1>6, Slots
<1>10. /\ status' \in [Session -> Status] /\ status'[c] = "open"
       /\ \A d \in Session : d # c => status'[d] = status[d]
  BY <1>1, <1>2 DEF EngineInv, EngineTypes, Status
<1>11. UNCHANGED <<chat, streams, stray>> /\ op' = "idle" /\ prompt' = None /\ target' = None
  BY <1>1 DEF chatVars, streamVars, Return
<1>12. EngineTypes'
  BY <1>1, <1>10, <1>11 DEF EngineInv, EngineTypes
<1>13. OpenInv'
  BY <1>11 DEF OpenInv, Opening
<1>14. OwnerInv'
  BY <1>1, <1>2, <1>6, <1>10, <1>11 DEF EngineInv, EngineTypes, OwnerInv, s
<1>15. PrefixInv'
  BY <1>1, <1>6, <1>9, <1>11, PrefixRest
<1> QED BY <1>8, <1>12, <1>13, <1>14, <1>15 DEF EngineInv

LEMMA OpenFailsInv ==
    ASSUME EngineInv, OpenFails
    PROVE  EngineInv'
<1>1. PICK c \in who :
         /\ \/ op \in {"reserve", "slot"} /\ UNCHANGED faults
            \/ op = "warm" /\ faults < MaxFaults /\ faults' = faults + 1
         /\ Return /\ status' = [status EXCEPT ![c] = "failed"]
         /\ UNCHANGED <<schedVars, chatVars, registry, seqOf, streamVars>>
  BY DEF OpenFails
<1>2. /\ chat = None /\ who = {c} /\ status[c] = "opening" /\ c \in Session /\ op # "copy"
  BY <1>1, OpeningFacts DEF Opening
<1>3. SlotInv' /\ ChatInv'
  BY <1>1, <1>2, NoMethod
<1>4. UNCHANGED <<slots, holders, kv, chat, streams, stray>>
      /\ op' = "idle" /\ prompt' = None /\ target' = None
  BY <1>1 DEF schedVars, chatVars, streamVars, Return
<1>5. /\ status' \in [Session -> Status] /\ status'[c] = "failed"
      /\ \A d \in Session : d # c => status'[d] = status[d]
  BY <1>1, <1>2 DEF EngineInv, EngineTypes, Status
<1>6. faults' \in 0..MaxFaults /\ faults \in Nat
  BY <1>1, CountsAssumption DEF EngineInv, EngineTypes
<1>7. EngineTypes'
  BY <1>1, <1>4, <1>5, <1>6 DEF EngineInv, EngineTypes
<1>8. OpenInv'
  BY <1>4 DEF OpenInv, Opening
<1>9. OwnerInv'
  BY <1>1, <1>2, <1>4, <1>5 DEF EngineInv, EngineTypes, OwnerInv
<1>10. PrefixInv'
  <2>1. Known' = Known
    BY <1>1 DEF Known
  <2>2. Cardinality(Known) \in Nat
    BY FS_CardinalityType DEF EngineInv, PrefixInv
  <2>3. Cardinality(holders) <= Cardinality(Known) + faults + (IF op = "warm" THEN 1 ELSE 0)
    BY DEF EngineInv, PrefixInv
  <2>4. faults' = faults + (IF op = "warm" THEN 1 ELSE 0)
    BY <1>1, <1>6
  <2>5. Cardinality(holders) <= Cardinality(Known) + faults'
    BY <1>6, <2>2, <2>3, <2>4
  <2>6. Cardinality(Known) + faults' + 0 = Cardinality(Known) + faults'
    BY <1>6, <2>2
  <2>7. Cardinality(holders') <= Cardinality(Known') + faults' + (IF op' = "warm" THEN 1 ELSE 0)
    BY <2>1, <2>5, <2>6, <1>4
  <2> QED BY <2>1, <2>7, <1>1, <1>4 DEF EngineInv, PrefixInv
<1> QED BY <1>3, <1>7, <1>8, <1>9, <1>10 DEF EngineInv

-----------------------------------------------------------------------------
(* Turns and batches.                                                       *)

\* Input that is fed changes no position, and no slot's kind.
LEMMA FeedKeeps ==
    ASSUME EngineInv, chat = None, NEW jobs, NEW input,
           \A j \in Job : input[j] \in Nat, S!Feed(jobs, input), UNCHANGED chatVars
    PROVE  /\ SlotInv' /\ ChatInv'
           /\ UNCHANGED <<slots, holders, kv, queue>>
<1> DEFINE Fed(j) == [slot[j] EXCEPT !.pending = input[j], !.generated = 0,
                                     !.done = FALSE]
<1>1. /\ slot' = [j \in Job |-> IF j \in jobs THEN Fed(j) ELSE slot[j]]
      /\ UNCHANGED <<slots, holders, kv, queue>>
  BY DEF S!Feed
<1>a. \A j \in Job : Fed(j).session = slot[j].session
  <2> TAKE j \in Job
  <2>1. slot[j] \in [session : BOOLEAN, pending : Nat, generated : Nat, done : BOOLEAN,
                     past : Nat]
    BY Slots DEF S!Slot
  <2> QED BY <2>1
<1> HIDE DEF Fed
<1>2. \A j \in Job : slot'[j].session = slot[j].session
  BY <1>1, <1>a
<1>3. S!IInv'
  BY SchedulerInv, SFeed
<1>4. \A s \in SeqId : slots'[s] # None => slots'[s] \in Session /\ slot'[slots'[s]].session
  BY <1>1, <1>2, Slots, SessionAssumption
<1> QED BY <1>1, <1>3, <1>4, Slots, Method

\* A turn of a session begins.
LEMMA FeedTurnInv ==
    ASSUME EngineInv, NEW c \in Session, NEW n \in 1..MaxInput,
           status[c] = "open", op = "idle", FeedTurn(c, n),
           UNCHANGED <<chatVars, openVars, faults>>
    PROVE  EngineInv'
<1>1. /\ S!Feed({c}, [j \in Job |-> n])
      /\ streams' = streams \cup {c} /\ op' = "turn" /\ who' = {c}
      /\ UNCHANGED <<prompt, target, stray, registry, status, seqOf, chat, faults>>
  BY DEF FeedTurn, openVars, chatVars
<1>2. chat = None /\ \A j \in Job : [k \in Job |-> n][j] \in Nat
  BY OpenFacts, CountsAssumption
<1>3. SlotInv' /\ ChatInv' /\ UNCHANGED <<slots, holders, kv, queue>>
  BY <1>1, <1>2, FeedKeeps
<1>4. EngineTypes'
  BY <1>1 DEF EngineInv, EngineTypes
<1>5. \A d \in streams' : d \in Session /\ status[d] = "open"
  BY <1>1 DEF EngineInv, EngineTypes, OwnerInv
<1>6. OwnerInv' /\ OpenInv'
  BY <1>1, <1>3, <1>5, OwnerRest DEF EngineInv, OwnerInv
<1>7. PrefixInv'
  BY <1>1, <1>3, PrefixRest
<1> QED BY <1>3, <1>4, <1>6, <1>7 DEF EngineInv

LEMMA SendInv ==
    ASSUME EngineInv, NEW c \in Session, NEW n \in 1..MaxInput, Send(c, n)
    PROVE  EngineInv'
BY FeedTurnInv DEF Send, Idle

\* A decode step, of the sessions' scheduler.
LEMMA StepKeeps ==
    ASSUME EngineInv, chat = None, NEW stop, S!Step(stop), UNCHANGED chatVars
    PROVE  /\ SlotInv' /\ ChatInv'
           /\ UNCHANGED <<slots, holders>> /\ \A h \in holders : kv'[h] = kv[h]
<1>1. /\ queue = <<>> /\ \A s \in S!Live : slot[slots[s]].session
  BY Slots
<1>2. /\ S!IInv'
      /\ holders' = holders /\ \A h \in holders : kv'[h] = kv[h]
      /\ queue' = <<>> /\ slots' = slots
      /\ \A s \in S!Live : slot'[slots[s]].session
  BY <1>1, SchedulerInv, SStep
<1>3. \A s \in SeqId : slots'[s] # None => slots'[s] \in Session /\ slot'[slots'[s]].session
  BY <1>2, Slots
<1> QED BY <1>2, <1>3, Method

\* Whose turn it is that goes on.
LEMMA RunningFacts ==
    ASSUME EngineInv, NEW c \in Session, Running(c)
    PROVE  /\ status[c] = "open" /\ op \in {"idle", "turn"}
           /\ op = "turn" => who = {c}
<1>1. \/ op = "turn" /\ who = {c}
      \/ op = "idle" /\ c \in streams
  BY DEF Running, Idle
<1> QED BY <1>1 DEF EngineInv, OpenInv, OwnerInv

LEMMA TurnStepInv ==
    ASSUME EngineInv, NEW c \in Session, TurnStep(c)
    PROVE  EngineInv'
<1>1. PICK stop \in Stopping : S!Step(stop)
  BY DEF TurnStep
<1>2. /\ Running(c)
      /\ stray' = [stray EXCEPT ![c] = @ \cup ({slots[s] : s \in Mine(c)} \ {c})]
      /\ UNCHANGED <<chatVars, openVars, streams, faults>>
      /\ \/ Return
         \/ op' = "turn" /\ who' = {c} /\ UNCHANGED <<prompt, target>>
  BY DEF TurnStep
<1>3. /\ status[c] = "open" /\ op \in {"idle", "turn"}
      /\ slots[seqOf[c]] = c /\ chat = None
  BY <1>2, RunningFacts, OpenFacts
<1>4. /\ SlotInv' /\ ChatInv'
      /\ UNCHANGED <<slots, holders>> /\ \A h \in holders : kv'[h] = kv[h]
  BY <1>1, <1>2, <1>3, StepKeeps
<1>5. UNCHANGED <<chat, registry, status, seqOf>>
  BY <1>2 DEF chatVars, openVars
<1>6. \A d \in Session : stray'[d] = {}
  <2>1. \A s \in Mine(c) : slots[s] = c
    BY <1>3 DEF Mine
  <2>2. \A d \in Session : stray[d] = {}
    BY DEF EngineInv, OwnerInv
  <2> QED BY <1>2, <2>1, <2>2 DEF EngineInv, EngineTypes
<1>7. stray' \in [Session -> SUBSET (Job \cup {None})]
  <2>1. DOMAIN stray' = Session /\ stray' = [d \in Session |-> stray'[d]]
    BY <1>2 DEF EngineInv, EngineTypes
  <2> QED BY <1>6, <2>1
<1>8. /\ op' \in {"idle", "turn"}
      /\ op' = "turn" => who' = {c}
      /\ prompt' \in Prompt \cup {None} /\ target' \in SeqId \cup {None}
  BY <1>2 DEF Return, EngineInv, EngineTypes
<1>9. EngineTypes'
  BY <1>2, <1>5, <1>7, <1>8 DEF EngineInv, EngineTypes
<1>10. OwnerInv' /\ OpenInv'
  BY <1>2, <1>3, <1>4, <1>5, <1>6, <1>8, OwnerRest DEF EngineInv, EngineTypes, OwnerInv
<1>11. PrefixInv'
  BY <1>2, <1>3, <1>4, <1>5, <1>8, PrefixRest
<1> QED BY <1>4, <1>9, <1>10, <1>11 DEF EngineInv

\* The thread returns to its caller, and nothing else happens; perhaps a
\* stream is over.
LEMMA ReturnInv ==
    ASSUME EngineInv, op \in {"idle", "turn", "batch"}, Return,
           streams' \subseteq streams,
           UNCHANGED <<schedVars, chatVars, openVars, stray, faults>>
    PROVE  EngineInv'
<1>1. /\ op' = "idle" /\ prompt' = None /\ target' = None
      /\ UNCHANGED <<slots, holders, kv, chat, registry, status, seqOf>>
  BY DEF Return, schedVars, chatVars, openVars
<1>2. SlotInv' /\ ChatInv'
  BY <1>1, NoMethod
<1>3. EngineTypes'
  BY <1>1 DEF EngineInv, EngineTypes
<1>4. OwnerInv' /\ OpenInv'
  BY <1>1, OwnerRest DEF EngineInv, EngineTypes, OwnerInv
<1>5. PrefixInv'
  BY <1>1, PrefixRest
<1> QED BY <1>2, <1>3, <1>4, <1>5 DEF EngineInv

LEMMA TurnEndsInv ==
    ASSUME EngineInv, NEW c \in Session, TurnEnds(c)
    PROVE  EngineInv'
<1>1. /\ Running(c) /\ streams' = streams \ {c} /\ Return
      /\ UNCHANGED <<schedVars, chatVars, openVars, stray, faults>>
  BY DEF TurnEnds
<1>2. op \in {"idle", "turn"}
  BY <1>1, RunningFacts
<1> QED BY <1>1, <1>2, ReturnInv

LEMMA RunSessionsInv ==
    ASSUME EngineInv, NEW B \in (SUBSET Session) \ {{}}, NEW n \in 1..MaxInput,
           RunSessions(B, n)
    PROVE  EngineInv'
<1>1. /\ op = "idle" /\ \A c \in B : status[c] = "open"
      /\ S!Feed(B, [j \in Job |-> n]) /\ op' = "batch" /\ who' = B
      /\ UNCHANGED <<chatVars, chat, prompt, target, registry, status, seqOf,
                     streams, stray, faults>>
  BY DEF RunSessions, Idle, openVars, chatVars
<1>2. chat = None /\ \A j \in Job : [k \in Job |-> n][j] \in Nat
  <2>1. PICK c \in B : TRUE
    OBVIOUS
  <2>2. c \in Session /\ status[c] = "open"
    BY <1>1
  <2> QED BY <2>2, OpenFacts, CountsAssumption
<1>3. SlotInv' /\ ChatInv' /\ UNCHANGED <<slots, holders, kv, queue>>
  BY <1>1, <1>2, FeedKeeps
<1>4. EngineTypes'
  BY <1>1 DEF EngineInv, EngineTypes
<1>5. OwnerInv' /\ OpenInv'
  BY <1>1, <1>3, OwnerRest DEF EngineInv, EngineTypes, OwnerInv
<1>6. PrefixInv'
  BY <1>1, <1>3, PrefixRest
<1> QED BY <1>3, <1>4, <1>5, <1>6 DEF EngineInv

LEMMA BatchStepInv ==
    ASSUME EngineInv, BatchStep
    PROVE  EngineInv'
<1>1. PICK stop \in Stopping : S!Step(stop)
  BY DEF BatchStep
<1>2. /\ op = "batch" /\ (Return \/ UNCHANGED opVars)
      /\ UNCHANGED <<chatVars, chat, registry, status, seqOf, streams, stray, faults>>
  BY DEF BatchStep, chatVars, openVars, streamVars
<1>3. chat = None
  BY <1>2, BusyFacts
<1>4. /\ SlotInv' /\ ChatInv'
      /\ UNCHANGED <<slots, holders>> /\ \A h \in holders : kv'[h] = kv[h]
  BY <1>1, <1>2, <1>3, StepKeeps
<1>5. /\ op' \in {"idle", "batch"}
      /\ op' = "batch" => who' = who
      /\ prompt' \in Prompt \cup {None} /\ target' \in SeqId \cup {None}
  BY <1>2 DEF Return, opVars, EngineInv, EngineTypes
<1>6. EngineTypes'
  BY <1>2, <1>5 DEF EngineInv, EngineTypes
<1>7. \A c \in who : status[c] = "open"
  BY <1>2 DEF EngineInv, OpenInv
<1>8. OwnerInv' /\ OpenInv'
  BY <1>2, <1>4, <1>5, <1>7, OwnerRest DEF EngineInv, EngineTypes, OwnerInv
<1>9. PrefixInv'
  BY <1>2, <1>4, <1>5, PrefixRest
<1> QED BY <1>4, <1>6, <1>8, <1>9 DEF EngineInv

LEMMA BatchOverInv ==
    ASSUME EngineInv, BatchOver
    PROVE  EngineInv'
<1>1. /\ op = "batch" /\ Return /\ streams' = streams /\ stray' = stray
      /\ UNCHANGED <<schedVars, chatVars, openVars, faults>>
  BY DEF BatchOver, streamVars
<1> QED BY <1>1, ReturnInv

LEMMA LoadStateInv ==
    ASSUME EngineInv, NEW c \in Session, NEW n \in Saved, LoadState(c, n)
    PROVE  EngineInv'
<1> DEFINE s == seqOf[c]
<1>1. /\ op = "idle" /\ status[c] = "open" /\ S!LoadState(s, n)
      /\ UNCHANGED <<chatVars, chat, op, who, prompt, target, registry, status, seqOf,
                     streams, stray, faults>>
  BY DEF LoadState, Idle, chatVars, opVars, openVars, streamVars
<1>2. s \in SeqId /\ slots[s] = c /\ s \in S!Live /\ chat = None
  BY <1>1, OpenFacts
<1>3. n \in Nat
  BY PositionAssumption, CountsAssumption
<1> HIDE DEF s
<1>4. S!IInv'
  BY <1>1, <1>2, <1>3, SchedulerInv, SLoadState
<1>5. /\ kv' = [kv EXCEPT ![s] = S!Cells(0, n)]
      /\ slot' = [slot EXCEPT ![slots[s]].past = n]
      /\ UNCHANGED <<queue, slots, holders>>
  BY <1>1 DEF S!LoadState
<1>6. \A j \in Job : slot'[j].session = slot[j].session
  BY <1>5, Slots DEF S!Slot
<1>7. SlotInv' /\ ChatInv'
  BY <1>1, <1>2, <1>4, <1>5, <1>6, Slots, SessionAssumption, Method
<1>8. \A g \in holders : kv'[g] = kv[g]
  BY <1>2, <1>5, Slots
<1>9. EngineTypes'
  BY <1>1 DEF EngineInv, EngineTypes
<1>10. OwnerInv' /\ OpenInv'
  BY <1>1, <1>5, OwnerRest DEF EngineInv, EngineTypes, OwnerInv
<1>11. PrefixInv'
  BY <1>1, <1>5, <1>8, PrefixRest
<1> QED BY <1>7, <1>9, <1>10, <1>11 DEF EngineInv

-----------------------------------------------------------------------------
(* Tool calls, and the ends.                                                *)

\* A step of which only the account of the calls, and hops, know.
LEMMA EngineRest ==
    ASSUME EngineInv,
           UNCHANGED <<schedVars, chatVars, opVars, openVars, streamVars, faults>>
    PROVE  EngineInv'
<1>1. UNCHANGED <<op, who, prompt, target, slots, holders, kv, chat, registry,
                  status, seqOf, streams, stray, faults>>
  BY DEF schedVars, chatVars, opVars, openVars, streamVars
<1>2. SlotInv' /\ ChatInv'
  BY <1>1, NoMethod DEF EngineInv, ChatInv, Idle
<1>3. EngineTypes'
  BY <1>1 DEF EngineInv, EngineTypes
<1>4. OwnerInv' /\ OpenInv'
  BY <1>1 DEF EngineInv, OwnerInv, OpenInv
<1>5. PrefixInv'
  BY <1>1 DEF EngineInv, PrefixInv, Known
<1> QED BY <1>2, <1>3, <1>4, <1>5 DEF EngineInv

LEMMA AppendResultInv ==
    ASSUME EngineInv, NEW c \in Session, NEW i \in CallId, NEW n \in 1..MaxInput,
           AppendResult(c, i, n)
    PROVE  EngineInv'
<1>1. /\ op = "idle" /\ UNCHANGED <<chatVars, openVars, faults>>
      /\ \/ status[c] = "open" /\ FeedTurn(c, n)
         \/ UNCHANGED <<schedVars, opVars, streamVars>>
  BY DEF AppendResult, Idle
<1> QED BY <1>1, FeedTurnInv, EngineRest

LEMMA CloseSessionInv ==
    ASSUME EngineInv, "stale" \notin Careless, NEW c \in Session, CloseSession(c)
    PROVE  EngineInv'
<1> DEFINE s == seqOf[c]
<1>1. /\ op = "idle"
      /\ \/ status[c] = "open" /\ S!CloseSlot(s)
         \/ status[c] = "orphan" /\ UNCHANGED schedVars
      /\ status' = [status EXCEPT ![c] = "closed"]
      /\ seqOf' = [seqOf EXCEPT ![c] = None] /\ streams' = streams \ {c}
      /\ UNCHANGED <<chatVars, op, who, prompt, target, registry, stray, faults>>
  BY DEF CloseSession, Idle, opVars
<1>2. /\ status' \in [Session -> Status] /\ status'[c] = "closed"
      /\ seqOf' \in [Session -> SeqId \cup {None}]
      /\ \A d \in Session : d # c => status'[d] = status[d] /\ seqOf'[d] = seqOf[d]
  BY <1>1 DEF EngineInv, EngineTypes, Status
<1>3. UNCHANGED chat
  BY <1>1 DEF chatVars
<1>4. EngineTypes'
  BY <1>1, <1>2, <1>3 DEF EngineInv, EngineTypes
<1>5. OpenInv'
  BY <1>1 DEF OpenInv, Opening
<1>6. \A d \in streams' : status'[d] = "open"
  BY <1>1, <1>2 DEF EngineInv, EngineTypes, OwnerInv
<1>7. CASE status[c] = "open" /\ S!CloseSlot(s)
  <2>1. s \in SeqId /\ slots[s] = c /\ s \in S!Live /\ chat = None /\ s \notin holders
    BY <1>7, OpenFacts, Slots, SessionAssumption, NoneAssumption
  <2> HIDE DEF s
  <2>2. S!IInv'
    BY <1>7, <2>1, SchedulerInv, SCloseSlot
  <2>3. /\ slots' = [slots EXCEPT ![s] = None]
        /\ slot' = [slot EXCEPT ![slots[s]] = S!Blank]
        /\ kv' = [t \in SeqId |-> IF t \in {s} THEN <<>> ELSE kv[t]]
        /\ UNCHANGED <<queue, holders>>
    BY <1>7, Slots DEF S!CloseSlot, S!Emptied
  <2>4. /\ slots'[s] = None /\ \A t \in SeqId : t # s => slots'[t] = slots[t]
        /\ \A j \in Job : j # c => slot'[j] = slot[j]
    BY <2>1, <2>3, Slots
  <2>5. \A t \in SeqId : slots[t] = c => t = s
    BY <2>1, Slots, SessionAssumption, NoneAssumption
  <2>6. \A t \in SeqId : slots'[t] # None => slots'[t] \in Session /\ slot'[slots'[t]].session
    <3> SUFFICES ASSUME NEW t \in SeqId, slots'[t] # None
                 PROVE  slots'[t] \in Session /\ slot'[slots'[t]].session
      OBVIOUS
    <3>1. t # s /\ slots'[t] = slots[t]
      BY <2>4
    <3>2. slots[t] \in Session /\ slot[slots[t]].session /\ slots[t] # c
      BY <3>1, <2>5, Slots
    <3> QED BY <3>1, <3>2, <2>4, SessionAssumption
  <2>7. SlotInv' /\ ChatInv'
    BY <1>1, <2>1, <2>2, <2>3, <2>6, Slots, Method
  <2>8. OwnerInv'
    <3>1. \A d \in Session : status'[d] = "open" => seqOf'[d] \in SeqId /\ slots'[seqOf'[d]] = d
      <4> SUFFICES ASSUME NEW d \in Session, status'[d] = "open"
                   PROVE  seqOf'[d] \in SeqId /\ slots'[seqOf'[d]] = d
        OBVIOUS
      <4>1. d # c /\ status[d] = "open" /\ seqOf'[d] = seqOf[d]
        BY <1>2
      <4>2. seqOf[d] \in SeqId /\ slots[seqOf[d]] = d
        BY <4>1 DEF EngineInv, OwnerInv
      <4> QED BY <4>1, <4>2, <2>1, <2>4
    <3>2. \A t \in SeqId : \A d \in Session : slots'[t] = d => status'[d] = "open"
      <4> SUFFICES ASSUME NEW t \in SeqId, NEW d \in Session, slots'[t] = d
                   PROVE  status'[d] = "open"
        OBVIOUS
      <4>1. t # s /\ slots[t] = d
        BY <2>4, SessionAssumption, NoneAssumption
      <4>2. d # c /\ status[d] = "open"
        BY <4>1, <2>5, <1>1 DEF EngineInv, OwnerInv
      <4> QED BY <4>2, <1>2
    <3> QED BY <3>1, <3>2, <1>1, <1>6 DEF EngineInv, OwnerInv
  <2>9. \A g \in holders : kv'[g] = kv[g]
    BY <2>1, <2>3, Slots
  <2>10. PrefixInv'
    BY <1>1, <2>3, <2>9, PrefixRest
  <2> QED BY <1>4, <1>5, <2>7, <2>8, <2>10 DEF EngineInv
<1>8. CASE status[c] = "orphan" /\ UNCHANGED schedVars
  <2>1. UNCHANGED <<slots, holders, kv>>
    BY <1>8 DEF schedVars
  <2>2. SlotInv' /\ ChatInv'
    BY <1>1, <1>8, NoMethod
  <2>3. OwnerInv'
    BY <1>1, <1>2, <1>6, <1>8, <2>1 DEF EngineInv, OwnerInv
  <2>4. PrefixInv'
    BY <1>1, <2>1, PrefixRest
  <2> QED BY <1>4, <1>5, <2>2, <2>3, <2>4 DEF EngineInv
<1> QED BY <1>1, <1>7, <1>8

\* close() leaves both the engine and its scheduler as they were in the
\* beginning, and the sessions to their owners.
LEMMA EngineCloseInv ==
    ASSUME EngineInv, EngineClose
    PROVE  EngineInv'
<1>1. /\ op = "idle" /\ chat = None
      /\ free' = AllFree /\ queue' = <<>> /\ slots' = NoSlots
      /\ slot' = [j \in Job |-> S!Blank]
      /\ holders' = {} /\ consumers' = NoConsumers
      /\ kv' = [s \in SeqId |-> <<>>] /\ shared' = NoSlots
      /\ registry' = [k \in Prompt |-> None]
      /\ status' = [c \in Session |-> IF status[c] = "open" THEN "orphan" ELSE status[c]]
      /\ streams' = {} /\ seqOf' = [c \in Session |-> None]
      /\ UNCHANGED <<chatVars, chat, op, who, prompt, target, stray, faults>>
  BY DEF EngineClose, Idle, chatVars, opVars
<1>2. S!Init'
  BY <1>1 DEF S!Init, AllFree, NoSlots, NoConsumers, S!SeqId, SeqId, S!Blank
<1>3. S!IInv'
  <2>1. SP!Init'
    BY <1>2 DEF S!Init, SP!Init, S!SeqId, SP!SeqId, S!Blank, SP!Blank
  <2>2. SP!IInv'
    BY <2>1, SP!InitInv, Assumed, PTL
  <2> QED BY <2>2, SameInv
<1>4. SlotInv' /\ ChatInv'
  BY <1>1, <1>3, Method DEF NoSlots
<1>5. status' \in [Session -> Status] /\ \A c \in Session : status'[c] # "open"
  BY <1>1 DEF EngineInv, EngineTypes, Status
<1>6. EngineTypes'
  BY <1>1, <1>5 DEF EngineInv, EngineTypes
<1>7. OpenInv'
  BY <1>1 DEF OpenInv, Opening
<1>8. OwnerInv'
  BY <1>1, <1>5, SessionAssumption, NoneAssumption DEF EngineInv, OwnerInv, NoSlots
<1>9. PrefixInv'
  <2>1. Known' = {}
    BY <1>1 DEF Known
  <2>2. faults' \in Nat
    BY <1>1, CountsAssumption DEF EngineInv, EngineTypes
  <2>3. 0 <= 0 + faults' + (IF op' = "warm" THEN 1 ELSE 0)
    BY <1>1, <2>2
  <2> QED BY <1>1, <2>1, <2>3, FS_EmptySet DEF PrefixInv
<1> QED BY <1>4, <1>6, <1>7, <1>8, <1>9 DEF EngineInv

-----------------------------------------------------------------------------
(* The chat stream.                                                         *)

\* While it lasts, no session is open and none is being opened.
LEMMA AloneFacts ==
    ASSUME EngineInv, S!Live = {}
    PROVE  /\ \A c \in Session : status[c] # "open"
           /\ streams = {}
           /\ slots = NoSlots
<1>1. \A s \in SeqId : slots[s] = None
  BY Slots
<1>2. \A c \in Session : status[c] # "open"
  BY <1>1, SessionAssumption, NoneAssumption DEF EngineInv, OwnerInv
<1>3. streams = {}
  BY <1>2 DEF EngineInv, EngineTypes, OwnerInv
<1>4. slots = NoSlots
  BY <1>1, Slots DEF NoSlots
<1> QED BY <1>2, <1>3, <1>4

\* Its scheduler begins with a backend that is clean.
LEMMA ChatFresh ==
    ASSUME EngineInv, chat = None, S!Live = {}, holders = {}
    PROVE  C!IInv
<1>1. /\ S!SeqId = SeqId /\ C!SeqId = SeqId /\ C!Slot = S!Slot
      /\ chatFree = AllFree /\ chatQueue = <<>> /\ chatSlots = NoSlots
  BY DEF S!SeqId, C!SeqId, SeqId, C!Slot, S!Slot, EngineInv, ChatInv
<1>2. C!Live = {}
  BY <1>1 DEF C!Live, NoSlots
<1>3. \A s \in SeqId : kv[s] = <<>> /\ shared[s] = None
  BY <1>1 DEF EngineInv, ChatInv, S!CleanInv
<1>4. /\ NSeq \in Nat /\ AllFree \in Seq(SeqId) /\ Len(AllFree) = NSeq
      /\ \A i \in 1..NSeq : AllFree[i] = i - 1
  BY CountsAssumption DEF AllFree, SeqId
<1>5. C!TypeOK
  BY <1>1, <1>4, EmptySeq DEF C!TypeOK, S!TypeOK, EngineInv, SlotInv, NoSlots
<1>6. C!OneOwner
  <2>1. \A i, k \in 1..Len(chatFree) : chatFree[i] = chatFree[k] => i = k
    BY <1>1, <1>4
  <2>2. \A s \in SeqId : s \in C!Range(chatFree)
    <3> TAKE s \in SeqId
    <3>1. s + 1 \in 1..NSeq /\ AllFree[s + 1] = s
      BY <1>4 DEF SeqId
    <3>2. DOMAIN AllFree = 1..NSeq
      BY DEF AllFree
    <3> QED BY <1>1, <3>1, <3>2 DEF C!Range
  <2>3. C!Cardinality(C!Live) <= 1
    <3>1. C!Cardinality(C!Live) = Cardinality(C!Live)
      BY DEF C!Cardinality, Cardinality
    <3> QED BY <1>2, <3>1, FS_EmptySet
  <2> QED BY <1>1, <1>2, <2>1, <2>2, <2>3 DEF C!OneOwner
<1>7. C!PositionIsKV
  BY <1>2 DEF C!PositionIsKV
<1>8. C!CleanInv
  BY <1>1, <1>3 DEF C!CleanInv
<1>9. C!HolderInv
  BY <1>1, <1>3 DEF C!HolderInv
<1>10. C!QueueInv
  BY <1>1, EmptySeq DEF C!QueueInv, C!Waiting, C!Range
<1> QED BY <1>5, <1>6, <1>7, <1>8, <1>9, <1>10 DEF C!IInv

\* Its steps do not concern the sessions' scheduler.
LEMMA ChatMethod ==
    ASSUME EngineInv, S!Live = {}, holders = {}, op = "idle",
           chat' # None, C!IInv',
           UNCHANGED <<free, queue, slots, holders, consumers, op>>
    PROVE  SlotInv' /\ ChatInv'
<1>1. S!SeqId = SeqId /\ C!SeqId = SeqId /\ C!Slot = S!Slot
  BY DEF S!SeqId, C!SeqId, SeqId, C!Slot, S!Slot
<1>2. S!Live' = {} /\ S!Live' = S!Live
  BY DEF S!Live
<1>3. /\ slot' \in [Job -> S!Slot] /\ kv' \in [SeqId -> Seq(Nat)]
      /\ shared' \in [SeqId -> SeqId \cup {None}]
  BY <1>1 DEF C!IInv, C!TypeOK
<1>4. S!TypeOK'
  BY <1>1, <1>3 DEF EngineInv, SlotInv, S!TypeOK
<1>5. S!OneOwner'
  BY <1>2 DEF EngineInv, SlotInv, S!OneOwner
<1>6. S!PositionIsKV'
  BY <1>2 DEF S!PositionIsKV
<1>7. \A s \in SeqId : shared'[s] = None
  <2>1. \A s \in SeqId : shared'[s] # None => s \in [t \in SeqId |-> {}][shared'[s]]
    BY <1>1 DEF C!IInv, C!HolderInv
  <2> QED BY <2>1, <1>3
<1>8. S!HolderInv'
  BY <1>1, <1>2, <1>7 DEF EngineInv, SlotInv, S!HolderInv
<1>9. SlotInv'
  BY <1>2, <1>4, <1>5, <1>6, <1>8 DEF EngineInv, SlotInv
<1>10. ChatInv'
  BY <1>2 DEF ChatInv, Idle
<1> QED BY <1>9, <1>10

\* The rest of the engine waits meanwhile.
LEMMA ChatOthers ==
    ASSUME EngineInv, S!Live = {}, holders = {}, op = "idle",
           chat' \in Request \cup {None}, SlotInv', ChatInv',
           UNCHANGED <<slots, holders, opVars, openVars, streamVars, faults>>
    PROVE  EngineInv'
<1>1. UNCHANGED <<op, who, prompt, target, registry, status, seqOf, streams, stray,
                  slots, holders, faults>>
  BY DEF opVars, openVars, streamVars
<1>2. EngineTypes'
  BY <1>1 DEF EngineInv, EngineTypes
<1>3. OpenInv'
  BY <1>1 DEF OpenInv, Opening
<1>4. OwnerInv'
  BY <1>1 DEF EngineInv, OwnerInv
<1>5. PrefixInv'
  BY <1>1, PrefixRest
<1> QED BY <1>2, <1>3, <1>4, <1>5 DEF EngineInv

LEMMA ChatStartInv ==
    ASSUME EngineInv, "overlap" \notin Careless,
           NEW r \in Request, NEW n \in 1..MaxInput, ChatStart(r, n)
    PROVE  EngineInv'
<1>1. /\ op = "idle" /\ chat = None /\ S!Live = {} /\ holders = {}
      /\ C!Submit(r, n) /\ chat' = r
      /\ UNCHANGED <<free, queue, slots, holders, consumers, op, opVars, openVars,
                     streamVars, faults>>
  BY DEF ChatStart, Alone, Idle, opVars
<1>2. r \in Job /\ r # None /\ n \in Nat
  BY NoneAssumption, CountsAssumption DEF Request
<1>3. C!IInv'
  BY <1>1, <1>2, ChatFresh, CSubmit
<1>4. SlotInv' /\ ChatInv'
  BY <1>1, <1>2, <1>3, ChatMethod
<1> QED BY <1>1, <1>4, ChatOthers

\* A chat stream that is running is one.
LEMMA ChatRunningFacts ==
    ASSUME EngineInv, ChatRunning
    PROVE  chat # None
<1> SUFFICES ASSUME chat = None PROVE FALSE
  OBVIOUS
<1>1. chatQueue = <<>> /\ chatSlots = NoSlots
  BY DEF EngineInv, ChatInv
<1>2. C!Live = {}
  BY <1>1 DEF C!Live, C!SeqId, NoSlots, SeqId
<1> QED BY <1>1, <1>2 DEF ChatRunning

LEMMA ChatStepInv ==
    ASSUME EngineInv, ChatStep
    PROVE  EngineInv'
<1>1. PICK stop \in Stopping : C!Step(stop)
  BY DEF ChatStep
<1>2. /\ ChatRunning
      /\ UNCHANGED <<free, queue, slots, holders, consumers, chat, op, opVars, openVars,
                     streamVars, faults>>
  BY DEF ChatStep, opVars
<1>3. chat # None
  BY <1>2, ChatRunningFacts
<1>4. C!IInv /\ S!Live = {} /\ holders = {} /\ op = "idle"
  BY <1>3 DEF EngineInv, ChatInv, Idle
<1>5. C!IInv'
  BY <1>1, <1>4, CStep
<1>6. SlotInv' /\ ChatInv'
  BY <1>2, <1>3, <1>4, <1>5, ChatMethod
<1>7. chat' \in Request \cup {None}
  BY <1>2 DEF EngineInv, EngineTypes
<1> QED BY <1>2, <1>4, <1>6, <1>7, ChatOthers

\* It ends with nothing in its slots, so that it leaves the backend clean.
LEMMA ChatOverInv ==
    ASSUME EngineInv, ChatOver, C!Live = {}
    PROVE  EngineInv'
<1>1. /\ chat # None /\ slot' = [slot EXCEPT ![chat] = S!Blank] /\ chat' = None
      /\ chatFree' = AllFree /\ chatQueue' = <<>> /\ chatSlots' = NoSlots
      /\ UNCHANGED <<free, queue, slots, holders, consumers, kv, shared, opVars,
                     openVars, streamVars, faults>>
  BY DEF ChatOver
<1>2. C!IInv /\ S!Live = {} /\ holders = {} /\ op = "idle"
  BY <1>1 DEF EngineInv, ChatInv, Idle
<1>3. S!SeqId = SeqId /\ C!SeqId = SeqId
  BY DEF S!SeqId, C!SeqId, SeqId
<1>4. \A s \in SeqId : kv[s] = <<>> /\ shared[s] = None
  BY <1>2, <1>3 DEF C!IInv, C!CleanInv
<1>5. slot' \in [Job -> S!Slot]
  BY <1>1, Slots DEF S!Blank, S!Slot
<1>6. S!Live' = {} /\ S!Live' = S!Live
  BY <1>1, <1>2 DEF S!Live
<1>7. S!TypeOK' /\ S!OneOwner' /\ S!PositionIsKV' /\ S!HolderInv'
  <2>1. S!TypeOK'
    BY <1>1, <1>5 DEF EngineInv, SlotInv, S!TypeOK
  <2>2. S!OneOwner'
    BY <1>1, <1>6 DEF EngineInv, SlotInv, S!OneOwner
  <2>3. S!PositionIsKV'
    BY <1>6 DEF S!PositionIsKV
  <2>4. S!HolderInv'
    BY <1>1, <1>6 DEF EngineInv, SlotInv, S!HolderInv
  <2> QED BY <2>1, <2>2, <2>3, <2>4
<1>8. SlotInv'
  BY <1>1, <1>6, <1>7 DEF EngineInv, SlotInv
<1>9. ChatInv'
  <2>1. S!CleanInv'
    BY <1>1, <1>3, <1>4 DEF S!CleanInv
  <2> QED BY <1>1, <2>1 DEF ChatInv
<1> QED BY <1>1, <1>2, <1>8, <1>9, ChatOthers

-----------------------------------------------------------------------------
(* The theorems about careful callers.                                      *)

LEMMA EngineStep ==
    ASSUME EngineInv, [Next]_vars,
           Careful
    PROVE  EngineInv'
<1>1. /\ "overlap" \notin Careless /\ "abandon" \notin Careless
      /\ "stale" \notin Careless
  BY DEF Careful
<1>2. CASE UNCHANGED vars
  BY <1>2, EngineRest DEF vars
<1>3. ASSUME NEW c \in Session, NEW i \in CallId, NoteCall(c, i)
      PROVE  EngineInv'
  BY <1>3, EngineRest DEF NoteCall
<1>4. ASSUME NEW c \in Session, NEW i \in CallId, FailCall(c, i)
      PROVE  EngineInv'
  BY <1>4, EngineRest DEF FailCall
<1>5. CASE ChatEnd
  <2>1. ChatOver /\ C!Live = {}
    BY <1>5 DEF ChatEnd, ChatRunning
  <2> QED BY <2>1, ChatOverInv
<1>6. CASE ChatDropped
  <2>1. ChatOver /\ C!Live = {}
    BY <1>1, <1>6 DEF ChatDropped
  <2> QED BY <2>1, ChatOverInv
<1> QED
  BY <1>1, <1>2, <1>3, <1>4, <1>5, <1>6, OpenSessionInv, ReserveHolderInv,
     WarmHolderInv, TakeSlotInv, CopyHolderInv, OpenFailsInv, SendInv, TurnStepInv,
     TurnEndsInv, AppendResultInv, LoadStateInv, CloseSessionInv, RunSessionsInv,
     BatchStepInv, BatchOverInv, EngineCloseInv, ChatStartInv, ChatStepInv
  DEF Next, BatchEnds, BatchFails

\* The engine's invariant holds throughout, for callers who keep chats and
\* sessions apart, drop no chat in the middle, and leave a closed session's
\* stream alone.
THEOREM EngineInvariant ==
    Careful => (Spec => []EngineInv)
<1>1. Init => EngineInv
  <2> SUFFICES ASSUME Init
               PROVE  EngineInv
    OBVIOUS
  <2>1. /\ S!Init /\ chat = None /\ chatFree = AllFree /\ chatQueue = <<>>
        /\ chatSlots = NoSlots /\ op = "idle" /\ who = {} /\ prompt = None
        /\ target = None /\ registry = [k \in Prompt |-> None]
        /\ status = [c \in Session |-> "new"] /\ seqOf = [c \in Session |-> None]
        /\ streams = {} /\ stray = [c \in Session |-> {}] /\ faults = 0
    BY DEF Init
  <2>2. S!IInv
    <3>1. SP!Init
      BY <2>1 DEF S!Init, SP!Init, S!SeqId, SP!SeqId, S!Blank, SP!Blank
    <3> QED BY <3>1, SP!InitInv, SameInv, Assumed
  <2>3. /\ queue = <<>> /\ holders = {}
        /\ \A s \in SeqId : slots[s] = None
    BY <2>1 DEF S!Init, S!SeqId, SeqId
  <2>4. EngineTypes
    BY <2>1, CountsAssumption DEF EngineTypes, Status
  <2>5. SlotInv
    BY <2>2, <2>3 DEF SlotInv, S!IInv, S!Live, S!SeqId, SeqId
  <2>6. ChatInv
    BY <2>1, <2>2 DEF ChatInv, S!IInv
  <2>7. OpenInv
    BY <2>1 DEF OpenInv, Opening
  <2>8. OwnerInv
    BY <2>1, <2>3, SessionAssumption, NoneAssumption DEF OwnerInv
  <2>9. PrefixInv
    <3>1. Known = {}
      BY <2>1 DEF Known
    <3>2. 0 <= 0 + faults + (IF op = "warm" THEN 1 ELSE 0)
      BY <2>1
    <3> QED BY <2>3, <3>1, <3>2, FS_EmptySet DEF PrefixInv
  <2> QED BY <2>4, <2>5, <2>6, <2>7, <2>8, <2>9 DEF EngineInv
<1>2. SUFFICES ASSUME Careful
               PROVE  Spec => []EngineInv
  OBVIOUS
<1>3. EngineInv /\ [Next]_vars => EngineInv'
  BY <1>2, EngineStep
<1> QED BY <1>1, <1>3, PTL DEF Spec

\* For careful callers, who chat only while no session is open and no holder is
\* kept (one chat at a time): a sequence has one owner, a position is what the KV
\* holds, and what is in nobody's hands is clean, also after a chat stream, whose
\* scheduler is another.  Sessions share prefixes, restore states and are closed
\* at any time between two tokens, openings and decodes fail, and there are any
\* number of sequences.
THEOREM SequencesAreSound == Careful => (Spec => []SequencesSound)
<1>1. ToolInv /\ EngineInv => SequencesSound
  <2> SUFFICES ASSUME ToolInv, EngineInv
               PROVE  SequencesSound
    OBVIOUS
  <2>1. /\ chatFree \in Seq(SeqId) /\ chatQueue \in Seq(Job)
        /\ chatSlots \in [SeqId -> Job \cup {None}]
    <3>1. CASE chat = None
      <4>1. chatFree = AllFree /\ chatQueue = <<>> /\ chatSlots = NoSlots
        BY <3>1 DEF EngineInv, ChatInv
      <4>2. AllFree \in Seq(SeqId)
        BY CountsAssumption DEF AllFree, SeqId
      <4> QED BY <4>1, <4>2, EmptySeq DEF NoSlots
    <3>2. CASE chat # None
      BY <3>2 DEF EngineInv, ChatInv, C!IInv, C!TypeOK, C!SeqId, SeqId
    <3> QED BY <3>1, <3>2
  <2>2. TypeOK
    BY <2>1 DEF TypeOK, ToolInv, ToolTypes, EngineInv, EngineTypes, SlotInv, Status, CallType
  <2> QED BY <2>2 DEF SequencesSound, EngineInv, SlotInv, ChatInv
<1>2. SUFFICES ASSUME Careful
               PROVE  Spec => []SequencesSound
  OBVIOUS
<1>3. (Spec => []ToolInv) /\ (Spec => []EngineInv)
  BY <1>2, ToolInvariant, EngineInvariant
<1> QED BY <1>1, <1>3, PTL

\* The engine's close() is never refused, what the registry knows is a holder
\* that is warm, and every prefix costs one sequence, those that were lost
\* apart.
THEOREM HoldersAreAccounted ==
    Careful => (Spec => []HoldersAccounted)
<1>1. EngineInv => HoldersAccounted
  <2> SUFFICES ASSUME EngineInv
               PROVE  HoldersAccounted
    OBVIOUS
  <2>1. \A h \in holders : consumers[h] \subseteq S!Live
    BY Slots DEF EngineInv, SlotInv, S!HolderInv
  <2> QED BY <2>1 DEF HoldersAccounted, EngineInv, PrefixInv, Known
<1> QED BY <1>1, EngineInvariant, PTL

\* No stream gives out another session's token, and a session's slot is its
\* own from open_session to its close.
THEOREM TokensAreOwn ==
    Careful => (Spec => []OwnTokens)
<1>1. EngineInv => OwnTokens
  <2> SUFFICES ASSUME EngineInv, NEW c \in Session
               PROVE  /\ stray[c] = {}
                      /\ status[c] = "open" => slots[seqOf[c]] = c
                      /\ status[c] \in {"failed", "orphan", "closed"} =>
                           \A s \in SeqId : slots[s] # c
    BY DEF OwnTokens
  <2>1. stray[c] = {} /\ (status[c] = "open" => slots[seqOf[c]] = c)
    BY DEF EngineInv, OwnerInv
  <2>2. \A s \in SeqId : slots[s] = c => status[c] \in {"open", "opening"}
    <3>1. op = "copy" /\ c \in who => status[c] = "opening"
      BY DEF EngineInv, OpenInv, Opening
    <3> QED BY <3>1 DEF EngineInv, OwnerInv
  <2> QED BY <2>1, <2>2
<1> QED BY <1>1, EngineInvariant, PTL

-----------------------------------------------------------------------------
(* The invariant of EngineRegistry.                                         *)

RegistryTypes ==
    /\ text \in [id : Engines, len : Nat]
    /\ settled \in {Null, "writing"} \cup Engines
    /\ heard \in [Sessions -> {Null} \cup Engines]
    /\ session \in [Sessions -> Memory \cup {Null}]
    /\ \A s \in Sessions : session[s] # Null => session[s].installed \subseteq session[s].known
    /\ servers \subseteq Calls /\ crossed \subseteq Sessions
    /\ call \in [Calls -> [pc : {"idle", "choosing", "starting", "streaming"},
                           engine : {Null} \cup Engines]]

\* A call that has begun belongs to a process that runs, and chooses among engines.
Belongs(c) == ~ At(c, "idle") => State(c) # Null /\ call[c].engine \in Engines

\* While a choice is written undisturbed the file is empty, and then it holds the
\* choice, whole.
FileTrue ==
    /\ settled = "writing" => text.len = 0
    /\ settled \in Engines => text.id = settled /\ text.len = TextLength(settled)

\* A process that has begun with a settled choice still goes by it, and so do its
\* calls where it has the engine.
Heard(s) == heard[s] # Null => session[s] # Null /\ session[s].active = heard[s]

Follows(c) ==
    (At(c, "streaming") \/ At(c, "starting")) /\ heard[Here(c)] # Null
      /\ heard[Here(c)] \in State(c).installed
        => call[c].engine = heard[Here(c)]

Owner(c) ==
    c \in servers =>
        /\ State(c) # Null
        /\ Process[c] \notin crossed =>
              /\ State(c).process = c
              /\ State(c).client = c \/ At(c, "starting")

\* The strengthening that makes ChoiceHolds and ServerIsOwned inductive.
RegistryInv ==
    /\ RegistryTypes /\ FileTrue
    /\ \A s \in Sessions : Heard(s)
    /\ \A c \in Calls : Belongs(c) /\ Follows(c) /\ Owner(c)

-----------------------------------------------------------------------------
\* What init_app() leaves of an empty memory.
LEMMA RegistryInitially == RegistryInit => RegistryInv
<1> SUFFICES ASSUME RegistryInit PROVE RegistryInv
  OBVIOUS
<1>1. RegistryTypes
  BY DEF RegistryInit, RegistryTypes, IdleCall, Engines, DEFAULT_ENGINE_ID
<1>2. FileTrue
  BY RegistryAssumption DEF RegistryInit, FileTrue, Engines
<1>3. ASSUME NEW s \in Sessions PROVE Heard(s)
  BY DEF RegistryInit, Heard
<1>4. ASSUME NEW c \in Calls PROVE Belongs(c) /\ Follows(c) /\ Owner(c)
  BY DEF RegistryInit, Belongs, Follows, Owner, At, IdleCall
<1> QED BY <1>1, <1>2, <1>3, <1>4 DEF RegistryInv

\* The file as _load_active() reads it: an empty one is no choice, a whole one is.
LEMMA ReadsChoice ==
    ASSUME RegistryTypes, FileTrue, settled \in Engines
    PROVE  Configured = settled
BY DEF FileTrue, Configured, RegistryTypes

\* A call follows the choice its process has heard of when it has that engine.
LEMMA ActiveIsHeard ==
    ASSUME RegistryInv, NEW c \in Calls, State(c) # Null,
           heard[Here(c)] # Null, heard[Here(c)] \in State(c).installed
    PROVE  ActiveEngine(State(c)) = heard[Here(c)]
<1>1. Here(c) \in Sessions
  BY RegistryAssumption DEF Here
<1>2. State(c).active = heard[Here(c)]
  BY <1>1 DEF RegistryInv, Heard, State
<1>3. State(c).installed \subseteq State(c).known
  BY <1>1 DEF RegistryInv, RegistryTypes, State
<1> QED BY <1>2, <1>3 DEF ActiveEngine

\* An engine that a call goes to, or that is chosen, is an engine.
LEMMA BestIsInstalled ==
    ASSUME NEW E \in SUBSET Engines, E # {}
    PROVE  Best(E) \in E
<1>1. \A e \in Engines : ControlLevel(e) = IF e = "ollama" THEN 1
                                           ELSE IF e = "llamacpp" THEN 2 ELSE 3
  BY DEF Engines, ControlLevel
<1>2. \E e \in E : \A f \in E : ControlLevel(f) <= ControlLevel(e)
  <2>1. CASE "pal-native" \in E
    BY <1>1, <2>1 DEF Engines
  <2>2. CASE "pal-native" \notin E /\ "llamacpp" \in E
    BY <1>1, <2>2 DEF Engines
  <2>3. CASE "pal-native" \notin E /\ "llamacpp" \notin E
    <3>1. E = {"ollama"}
      BY <2>3 DEF Engines
    <3> QED BY <1>1, <3>1 DEF Engines
  <2> QED BY <2>1, <2>2, <2>3
<1> QED BY <1>2 DEF Best

\* Each step of a process that starts: the settled choice is what it reads.
LEMMA StartStep == ASSUME RegistryInv, NEW s \in Sessions, Start(s) PROVE RegistryInv'
<1> USE RegistryAssumption
<1>1. PICK host \in Hosts :
        session' = [session EXCEPT ![s] =
            [active |-> Configured, known |-> host.known, installed |-> host.installed,
             process |-> Null, client |-> Null]]
  BY DEF Start
<1>2. /\ session[s] = Null
      /\ UNCHANGED <<text, settled, servers, crossed, call>>
      /\ heard' = [heard EXCEPT ![s] = IF settled \in Engines THEN settled ELSE Null]
  BY DEF Start
<1>0. [active |-> Configured, known |-> host.known, installed |-> host.installed,
       process |-> Null, client |-> Null] \in Memory
  BY DEF RegistryInv, RegistryTypes, Memory, Configured, Engines, DEFAULT_ENGINE_ID
<1>3. RegistryTypes'
  <2>1. session' \in [Sessions -> Memory \cup {Null}]
    BY <1>0, <1>1 DEF RegistryInv, RegistryTypes
  <2>2. \A t \in Sessions : session'[t] # Null => session'[t].installed \subseteq session'[t].known
    BY <1>1 DEF RegistryInv, RegistryTypes
  <2> QED BY <1>2, <2>1, <2>2 DEF RegistryInv, RegistryTypes
<1>4. FileTrue'
  BY <1>2 DEF RegistryInv, FileTrue
<1>5. ASSUME NEW t \in Sessions PROVE Heard(t)'
  <2>1. settled \in Engines => Configured = settled
    BY ReadsChoice DEF RegistryInv
  <2>2. CASE t = s
    BY <1>0, <1>1, <1>2, <2>1, <2>2 DEF RegistryInv, RegistryTypes, Heard
  <2>3. CASE t # s
    BY <1>1, <1>2, <2>3 DEF RegistryInv, RegistryTypes, Heard
  <2> QED BY <2>2, <2>3
<1>6. ASSUME NEW c \in Calls PROVE (Belongs(c) /\ Follows(c) /\ Owner(c))'
  <2>1. CASE Here(c) = s
    <3>1. At(c, "idle") /\ c \notin servers
      BY <1>2, <2>1 DEF RegistryInv, Belongs, Owner, State
    <3> QED BY <1>2, <3>1 DEF Belongs, Follows, Owner, At
  <2>2. CASE Here(c) # s
    <3>1. session'[Here(c)] = session[Here(c)] /\ heard'[Here(c)] = heard[Here(c)]
      BY <1>1, <1>2, <2>2 DEF RegistryInv, RegistryTypes, Here
    <3> QED BY <1>2, <3>1 DEF RegistryInv, Belongs, Follows, Owner, At, State, Here
  <2> QED BY <2>1, <2>2
<1> QED BY <1>3, <1>4, <1>5, <1>6 DEF RegistryInv

\* A process that ends takes its calls with it, and no server is left in its name.
LEMMA ExitStep == ASSUME RegistryInv, NEW s \in Sessions, Exit(s) PROVE RegistryInv'
<1> USE RegistryAssumption
<1>1. RegistryTypes'
  BY DEF Exit, RegistryInv, RegistryTypes, IdleCall
<1>2. FileTrue'
  BY DEF Exit, RegistryInv, FileTrue
<1>3. ASSUME NEW t \in Sessions PROVE Heard(t)'
  BY DEF Exit, RegistryInv, RegistryTypes, Heard
<1>4. ASSUME NEW c \in Calls PROVE (Belongs(c) /\ Follows(c) /\ Owner(c))'
  <2>1. CASE Here(c) = s
    <3>1. call'[c] = IdleCall /\ c \notin servers'
      BY <2>1 DEF Exit, Here, CallsOf
    <3> QED BY <3>1 DEF Belongs, Follows, Owner, At, IdleCall
  <2>2. CASE Here(c) # s
    <3>1. /\ session'[Here(c)] = session[Here(c)] /\ heard'[Here(c)] = heard[Here(c)]
          /\ call'[c] = call[c] /\ (c \in servers' <=> c \in servers)
          /\ (Process[c] \in crossed' <=> Process[c] \in crossed)
      BY <2>2 DEF Exit, RegistryInv, RegistryTypes, Here, CallsOf
    <3> QED BY <3>1 DEF RegistryInv, Belongs, Follows, Owner, At, State, Here
  <2> QED BY <2>1, <2>2
<1> QED BY <1>1, <1>2, <1>3, <1>4 DEF RegistryInv

\* What a call's step has to show: of the other calls nothing changes but what they
\* share, the memory of their process.
LEMMA CallKeeps ==
    ASSUME RegistryInv, RegistryTypes', FileTrue', NEW c \in Calls,
           \A d \in Calls \ {c} : call'[d] = call[d] /\ (d \in servers' => d \in servers),
           \A s \in Sessions :
              /\ session'[s] # Null <=> session[s] # Null
              /\ heard'[s] = heard[s] \/ heard'[s] = Null
              /\ heard'[s] # Null => session'[s].active = session[s].active
              /\ session'[s].installed = session[s].installed
              /\ s \in crossed => s \in crossed',
           \A d \in servers \ {c} :
              Process[d] \notin crossed' => /\ session'[Here(d)].process = d
                                            /\ session'[Here(d)].client = d \/ At(d, "starting"),
           Belongs(c)', Follows(c)', Owner(c)'
    PROVE  RegistryInv'
<1> USE RegistryAssumption
<1>1. ASSUME NEW s \in Sessions PROVE Heard(s)'
  BY DEF RegistryInv, Heard
<1>2. ASSUME NEW d \in Calls \ {c} PROVE (Belongs(d) /\ Follows(d) /\ Owner(d))'
  <2>1. Here(d) \in Sessions /\ Process[d] = Here(d) /\ call'[d] = call[d]
    BY DEF Here
  <2>2. Belongs(d) /\ Follows(d) /\ Owner(d)
    BY DEF RegistryInv
  <2>3. Belongs(d)'
    BY <2>1, <2>2 DEF Belongs, At, State, Here
  <2>4. Follows(d)'
    BY <2>1, <2>2 DEF Follows, At, State, Here
  <2>5. Owner(d)'
    BY <2>1, <2>2 DEF Owner, At, State, Here
  <2> QED BY <2>3, <2>4, <2>5
<1> QED BY <1>1, <1>2 DEF RegistryInv

\* The engines a process may choose.
LEMMA EligibleAreEngines ==
    ASSUME RegistryTypes, NEW s \in Sessions, session[s] # Null
    PROVE  Eligible(session[s]) \subseteq Engines
<1>1. session[s] \in Memory
  BY DEF RegistryTypes
<1>2. session[s].installed # {} => Best(session[s].installed) \in session[s].installed
  BY <1>1, BestIsInstalled DEF Memory
<1> QED BY <1>1, <1>2 DEF Eligible, Memory

\* set_active() opens the file, which empties it, and forgets what it has heard.
LEMMA SelectBeginStep == ASSUME RegistryInv, NEW c \in Calls, SelectBegin(c) PROVE RegistryInv'
<1> USE RegistryAssumption
<1> DEFINE s == Here(c)
<1>1. s \in Sessions /\ session[s] \in Memory /\ session[s] # Null
  BY DEF SelectBegin, Here, State, RegistryInv, RegistryTypes
<1>2. PICK e \in Eligible(session[s]) :
        /\ session' = [session EXCEPT ![s].active = e]
        /\ call' = [call EXCEPT ![c] = [pc |-> "choosing", engine |-> e]]
  BY DEF SelectBegin, State
<1>3. /\ text' = [text EXCEPT !.len = 0] /\ heard' = [heard EXCEPT ![s] = Null]
      /\ settled' \in {"writing", Null} /\ UNCHANGED <<servers, crossed>> /\ At(c, "idle")
  BY DEF SelectBegin, Opened
<1>4. e \in Engines
  BY <1>1, <1>2, EligibleAreEngines DEF RegistryInv
<1>5. session'[s] \in Memory /\ session'[s] # Null
  BY <1>1, <1>2, <1>4 DEF RegistryInv, RegistryTypes, Memory
<1>6. \A t \in Sessions : /\ session'[t] # Null <=> session[t] # Null
                          /\ session'[t].installed = session[t].installed
                          /\ session'[t].known = session[t].known
                          /\ session'[t].process = session[t].process
                          /\ session'[t].client = session[t].client
                          /\ t # s => session'[t] = session[t]
  BY <1>1, <1>2, <1>5 DEF RegistryInv, RegistryTypes, Memory
<1>7. RegistryTypes'
  <2>1. session' \in [Sessions -> Memory \cup {Null}]
    BY <1>2, <1>5 DEF RegistryInv, RegistryTypes
  <2> QED BY <1>2, <1>3, <1>4, <1>6, <2>1 DEF RegistryInv, RegistryTypes
<1>8. FileTrue'
  BY <1>3 DEF RegistryInv, RegistryTypes, FileTrue, Engines
<1>9. Belongs(c)' /\ Follows(c)' /\ Owner(c)'
  <2>1. Belongs(c)'
    BY <1>2, <1>4, <1>5 DEF RegistryInv, RegistryTypes, Belongs, State, Here
  <2>2. Follows(c)'
    BY <1>3, <1>1 DEF RegistryInv, RegistryTypes, Follows, Here
  <2>3. Owner(c)'
    BY <1>1, <1>2, <1>3, <1>5, <1>6 DEF RegistryInv, RegistryTypes, Owner, At, State, Here
  <2> QED BY <2>1, <2>2, <2>3
<1>10. \A d \in servers \ {c} :
          Process[d] \notin crossed' => /\ session'[Here(d)].process = d
                                        /\ session'[Here(d)].client = d \/ At(d, "starting")
  BY <1>3, <1>6 DEF RegistryInv, RegistryTypes, Owner, State, Here
<1>11. /\ \A d \in Calls \ {c} : call'[d] = call[d] /\ (d \in servers' => d \in servers)
       /\ \A t \in Sessions : /\ heard'[t] = heard[t] \/ heard'[t] = Null
                              /\ heard'[t] # Null => session'[t].active = session[t].active
                              /\ t \in crossed => t \in crossed'
  BY <1>1, <1>2, <1>3, <1>6 DEF RegistryInv, RegistryTypes
<1> QED BY <1>6, <1>7, <1>8, <1>9, <1>10, <1>11, CallKeeps

\* The steps that leave the memory of the processes as it is.
LEMMA QuietStep ==
    ASSUME RegistryInv, RegistryTypes', FileTrue', NEW c \in Calls, UNCHANGED <<session, heard, crossed>>,
           servers' \subseteq servers, \A d \in Calls \ {c} : call'[d] = call[d],
           Belongs(c)', Follows(c)', Owner(c)'
    PROVE  RegistryInv'
<1>1. \A d \in servers \ {c} :
          Process[d] \notin crossed' => /\ session'[Here(d)].process = d
                                        /\ session'[Here(d)].client = d \/ At(d, "starting")
  BY RegistryAssumption DEF RegistryInv, RegistryTypes, Owner, State, Here
<1> QED BY <1>1, CallKeeps

\* The line is written: undisturbed, it is the choice; otherwise nothing is settled.
LEMMA SelectEndStep == ASSUME RegistryInv, NEW c \in Calls, SelectEnd(c) PROVE RegistryInv'
<1>1. call[c].engine \in Engines /\ At(c, "choosing")
  BY DEF SelectEnd, RegistryInv, Belongs, At
<1>2. TextLength(call[c].engine) \in Nat \ {0}
  BY <1>1 DEF TextLength, Engines
<1>3. RegistryTypes'
  <2>1. /\ text' \in [id : Engines, len : Nat]
        /\ settled' = (IF settled = "writing" THEN call[c].engine ELSE Null)
    BY <1>1, <1>2 DEF SelectEnd, RegistryInv, RegistryTypes
  <2>2. /\ call' = [call EXCEPT ![c] = IdleCall]
        /\ UNCHANGED <<heard, session, servers, crossed>>
    BY DEF SelectEnd
  <2> QED BY <1>1, <2>1, <2>2 DEF RegistryInv, RegistryTypes, IdleCall
<1>4. FileTrue'
  <2>1. CASE settled = "writing"
    <3>1. text.len = 0
      BY <2>1 DEF RegistryInv, FileTrue
    <3>2. /\ text' = [id |-> call[c].engine, len |-> TextLength(call[c].engine)]
          /\ settled' = call[c].engine
      BY <1>2, <2>1, <3>1 DEF SelectEnd
    <3> QED BY <1>1, <3>2 DEF FileTrue, Engines
  <2>2. CASE settled # "writing"
    <3>1. settled' = Null
      BY <2>2 DEF SelectEnd
    <3> QED BY <3>1, RegistryAssumption DEF FileTrue
  <2> QED BY <2>1, <2>2
<1>5. call'[c] = IdleCall /\ \A d \in Calls \ {c} : call'[d] = call[d]
  BY DEF SelectEnd, RegistryInv, RegistryTypes
<1>6. Belongs(c)' /\ Follows(c)' /\ Owner(c)'
  BY <1>1, <1>5 DEF SelectEnd, RegistryInv, Belongs, Follows, Owner, At, State, Here, IdleCall
<1>7. UNCHANGED <<session, heard, crossed>> /\ servers' \subseteq servers
  BY DEF SelectEnd
<1> QED BY <1>3, <1>4, <1>5, <1>6, <1>7, QuietStep

\* The write fails: nothing is settled.
LEMMA SelectFailsStep == ASSUME RegistryInv, NEW c \in Calls, SelectFails(c) PROVE RegistryInv'
<1>1. RegistryTypes' /\ FileTrue'
  BY RegistryAssumption DEF SelectFails, RegistryInv, RegistryTypes, FileTrue, IdleCall
<1>2. call'[c] = IdleCall /\ At(c, "choosing") /\ \A d \in Calls \ {c} : call'[d] = call[d]
  BY DEF SelectFails, RegistryInv, RegistryTypes
<1>3. Belongs(c)' /\ Follows(c)' /\ Owner(c)'
  BY <1>2 DEF SelectFails, RegistryInv, Belongs, Follows, Owner, At, State, Here, IdleCall
<1> QED BY <1>1, <1>2, <1>3, QuietStep DEF SelectFails

\* A call goes to the active engine; the server it needs is there.
LEMMA UseStep == ASSUME RegistryInv, NEW c \in Calls, Use(c) PROVE RegistryInv'
<1> USE RegistryAssumption
<1> DEFINE e == ActiveEngine(State(c))
<1>1. /\ State(c) # Null /\ At(c, "idle") /\ e # Null
      /\ call' = [call EXCEPT ![c] = [pc |-> "streaming", engine |-> e]]
      /\ UNCHANGED <<text, settled, heard, session, servers, crossed>>
  BY DEF Use, choice
<1>2. State(c) \in Memory
  BY <1>1 DEF RegistryInv, RegistryTypes, State, Here
<1>3. e \in Engines
  BY <1>1, <1>2, BestIsInstalled DEF Memory, ActiveEngine
<1>4. /\ RegistryTypes' /\ FileTrue' /\ \A d \in Calls \ {c} : call'[d] = call[d]
      /\ call'[c] = [pc |-> "streaming", engine |-> e]
  BY <1>1, <1>3 DEF RegistryInv, RegistryTypes, FileTrue
<1>5. Belongs(c)'
  BY <1>1, <1>3, <1>4 DEF Belongs, State, Here
<1>6. Follows(c)'
  BY <1>1, <1>4, ActiveIsHeard DEF Follows, State, Here
<1>7. Owner(c)'
  BY <1>1, <1>4 DEF RegistryInv, Owner, At, State, Here
<1> QED BY <1>1, <1>4, <1>5, <1>6, <1>7, QuietStep

\* A call starts the server: no other runs for this process but one that a call
\* waits for, and then the two have crossed.
LEMMA UseAndStartStep == ASSUME RegistryInv, NEW c \in Calls, UseAndStart(c) PROVE RegistryInv'
<1> USE RegistryAssumption
<1> DEFINE e == ActiveEngine(State(c))
           s == Here(c)
<1>1. /\ State(c) # Null /\ At(c, "idle") /\ e # Null /\ MustStart(c, e)
      /\ call' = [call EXCEPT ![c] = [pc |-> "starting", engine |-> e]]
      /\ session' = [session EXCEPT ![s].process = c]
      /\ servers' \in {servers, servers \cup {c}}
      /\ UNCHANGED <<text, settled, heard>>
  BY DEF UseAndStart, choice
<1>2. crossed' = IF \E d \in CallsOf(s) : At(d, "starting") THEN crossed \cup {s} ELSE crossed
  BY DEF UseAndStart
<1>3. s \in Sessions /\ session[s] \in Memory /\ session[s].client = Null
  BY <1>1 DEF RegistryInv, RegistryTypes, State, Here, MustStart
<1>4. e \in Engines
  BY <1>1, <1>3, BestIsInstalled DEF Memory, ActiveEngine, State
<1>5. session'[s] \in Memory /\ session'[s] # Null /\ session'[s].process = c
  BY <1>1, <1>3 DEF RegistryInv, RegistryTypes, Memory
<1>6. \A t \in Sessions : /\ session'[t] # Null <=> session[t] # Null
                          /\ session'[t].installed = session[t].installed
                          /\ session'[t].known = session[t].known
                          /\ session'[t].active = session[t].active
                          /\ session'[t].client = session[t].client
                          /\ t # s => session'[t] = session[t]
  BY <1>1, <1>3, <1>5 DEF RegistryInv, RegistryTypes, Memory
<1>7. RegistryTypes'
  <2>1. session' \in [Sessions -> Memory \cup {Null}]
    BY <1>1, <1>5 DEF RegistryInv, RegistryTypes
  <2> QED BY <1>1, <1>2, <1>3, <1>4, <1>6, <2>1 DEF RegistryInv, RegistryTypes
<1>8. FileTrue'
  BY <1>1 DEF RegistryInv, FileTrue
<1>9. call'[c] = [pc |-> "starting", engine |-> e] /\ \A d \in Calls \ {c} : call'[d] = call[d]
  BY <1>1 DEF RegistryInv, RegistryTypes
<1>10. Belongs(c)'
  BY <1>4, <1>5, <1>9 DEF Belongs, State, Here
<1>11. Follows(c)'
  BY <1>1, <1>3, <1>6, <1>9, ActiveIsHeard DEF Follows, State, Here
<1>12. Owner(c)'
  BY <1>5, <1>9 DEF Owner, At, State, Here
<1>13. ASSUME NEW d \in servers \ {c}, Process[d] \notin crossed'
       PROVE /\ session'[Here(d)].process = d
             /\ session'[Here(d)].client = d \/ At(d, "starting")
  <2>1. Process[d] \notin crossed /\ d \in Calls
    BY <1>2, <1>13 DEF RegistryInv, RegistryTypes
  <2>2. State(d).process = d /\ (State(d).client = d \/ At(d, "starting"))
    BY <2>1 DEF RegistryInv, Owner
  <2>3. Here(d) # s
    <3>1. SUFFICES ASSUME Here(d) = s PROVE FALSE
      OBVIOUS
    <3>2. At(d, "starting")
      BY <1>3, <2>1, <2>2, <3>1 DEF State
    <3> QED BY <1>2, <1>3, <1>13, <2>1, <3>1, <3>2 DEF CallsOf, Here
  <2> QED BY <1>6, <2>1, <2>2, <2>3 DEF State, Here
<1>14. /\ \A d \in Calls \ {c} : d \in servers' => d \in servers
       /\ \A t \in Sessions : t \in crossed => t \in crossed'
  BY <1>1, <1>2
<1> HIDE DEF e, s
<1> QED BY <1>1, <1>6, <1>7, <1>8, <1>9, <1>10, <1>11, <1>12, <1>13, <1>14, CallKeeps

\* The server answers: the client is made for the process that the engine knows.
LEMMA ServerReadyStep == ASSUME RegistryInv, NEW c \in Calls, ServerReady(c) PROVE RegistryInv'
<1> USE RegistryAssumption
<1> DEFINE s == Here(c)
<1>1. /\ At(c, "starting") /\ c \in servers
      /\ session' = [session EXCEPT ![s].client = session[s].process]
      /\ call' = [call EXCEPT ![c].pc = "streaming"]
      /\ UNCHANGED <<text, settled, heard, servers, crossed>>
  BY DEF ServerReady, choice
<1>2. s \in Sessions /\ session[s] \in Memory /\ session[s] # Null
  BY <1>1 DEF RegistryInv, RegistryTypes, Owner, State, Here
<1>3. session'[s] \in Memory /\ session'[s] # Null /\ session'[s].client = session[s].process
  BY <1>1, <1>2 DEF RegistryInv, RegistryTypes, Memory
<1>4. \A t \in Sessions : /\ session'[t] # Null <=> session[t] # Null
                          /\ session'[t].installed = session[t].installed
                          /\ session'[t].known = session[t].known
                          /\ session'[t].active = session[t].active
                          /\ session'[t].process = session[t].process
                          /\ t # s => session'[t] = session[t]
  BY <1>1, <1>2, <1>3 DEF RegistryInv, RegistryTypes, Memory
<1>5. RegistryTypes'
  <2>1. session' \in [Sessions -> Memory \cup {Null}]
    BY <1>1, <1>3 DEF RegistryInv, RegistryTypes
  <2> QED BY <1>1, <1>4, <2>1 DEF RegistryInv, RegistryTypes
<1>6. FileTrue'
  BY <1>1 DEF RegistryInv, FileTrue
<1>7. /\ call'[c].pc = "streaming" /\ call'[c].engine = call[c].engine
      /\ \A d \in Calls \ {c} : call'[d] = call[d]
  BY <1>1 DEF RegistryInv, RegistryTypes
<1>8. Belongs(c)'
  BY <1>1, <1>3, <1>7 DEF RegistryInv, Belongs, At, State, Here
<1>9. Follows(c)'
  BY <1>1, <1>2, <1>4, <1>7 DEF RegistryInv, Follows, At, State, Here
<1>10. Owner(c)'
  BY <1>1, <1>2, <1>3, <1>4 DEF RegistryInv, Owner, State, Here
<1>11. ASSUME NEW d \in servers \ {c}, Process[d] \notin crossed'
       PROVE /\ session'[Here(d)].process = d
             /\ session'[Here(d)].client = d \/ At(d, "starting")
  <2>1. /\ d \in Calls /\ Here(d) \in Sessions
        /\ State(d).process = d /\ (State(d).client = d \/ At(d, "starting"))
    BY <1>1, <1>11 DEF RegistryInv, RegistryTypes, Owner, Here
  <2> QED BY <1>3, <1>4, <2>1 DEF State
<1> HIDE DEF s
<1> QED BY <1>1, <1>4, <1>5, <1>6, <1>7, <1>8, <1>9, <1>10, <1>11, CallKeeps

\* The server fails, and the call with it; what ran for it is stopped.
LEMMA ServerFailsStep == ASSUME RegistryInv, NEW c \in Calls, ServerFails(c) PROVE RegistryInv'
<1>1. RegistryTypes' /\ FileTrue'
  BY DEF ServerFails, AfterFailure, choice, RegistryInv, RegistryTypes, FileTrue, IdleCall
<1>2. call'[c] = IdleCall /\ c \notin servers' /\ \A d \in Calls \ {c} : call'[d] = call[d]
  BY DEF ServerFails, AfterFailure, RegistryInv, RegistryTypes
<1>3. Belongs(c)' /\ Follows(c)' /\ Owner(c)'
  BY <1>2 DEF Belongs, Follows, Owner, At, IdleCall
<1> QED BY <1>1, <1>2, <1>3, QuietStep DEF ServerFails, AfterFailure, choice

\* A server dies: one less to be owned.
LEMMA ServerDiesStep == ASSUME RegistryInv, NEW c \in Calls, ServerDies(c) PROVE RegistryInv'
<1>1. RegistryTypes' /\ FileTrue'
  BY DEF ServerDies, choice, RegistryInv, RegistryTypes, FileTrue
<1>2. Belongs(c)' /\ Follows(c)' /\ Owner(c)'
  BY DEF ServerDies, choice, RegistryInv, Belongs, Follows, Owner, At, State, Here
<1> QED BY <1>1, <1>2, QuietStep DEF ServerDies, choice

\* An answer ends; its server runs on.
LEMMA AnswerEndsStep == ASSUME RegistryInv, NEW c \in Calls, AnswerEnds(c) PROVE RegistryInv'
<1>1. RegistryTypes' /\ FileTrue'
  BY DEF AnswerEnds, choice, RegistryInv, RegistryTypes, FileTrue, IdleCall
<1>2. call'[c] = IdleCall /\ At(c, "streaming") /\ \A d \in Calls \ {c} : call'[d] = call[d]
  BY DEF AnswerEnds, RegistryInv, RegistryTypes
<1>3. Belongs(c)' /\ Follows(c)' /\ Owner(c)'
  BY <1>2 DEF AnswerEnds, choice, RegistryInv, Belongs, Follows, Owner, At, State, Here, IdleCall
<1> QED BY <1>1, <1>2, <1>3, QuietStep DEF AnswerEnds, choice

\* Every step of every process and call keeps the invariant.
LEMMA RegistryInductive == RegistryInv /\ [RegistryNext]_registryVars => RegistryInv'
<1> SUFFICES ASSUME RegistryInv, [RegistryNext]_registryVars PROVE RegistryInv'
  OBVIOUS
<1>1. ASSUME NEW c \in Calls,
             \/ SelectBegin(c) \/ SelectEnd(c) \/ SelectFails(c) \/ Use(c) \/ UseAndStart(c)
             \/ ServerReady(c) \/ ServerFails(c) \/ ServerDies(c) \/ AnswerEnds(c)
      PROVE RegistryInv'
  BY <1>1, SelectBeginStep, SelectEndStep, SelectFailsStep, UseStep, UseAndStartStep,
     ServerReadyStep, ServerFailsStep, ServerDiesStep, AnswerEndsStep
<1>2. ASSUME NEW s \in Sessions, Start(s) \/ Exit(s) PROVE RegistryInv'
  BY <1>2, StartStep, ExitStep
<1>3. CASE UNCHANGED registryVars
  BY <1>3 DEF registryVars, RegistryInv, RegistryTypes, FileTrue, Heard, Belongs, Follows, Owner, At, State, Here
<1> QED BY <1>1, <1>2, <1>3 DEF RegistryNext

\* In every behaviour: a file without an undisturbed choice is told from one with it,
\* processes go by what they have heard, and servers have owners.
THEOREM RegistryInvariant == RegistrySpec => []RegistryInv
BY RegistryInitially, RegistryInductive, PTL DEF RegistrySpec

\* A choice that was written with no other writer about is the one that holds, for
\* whoever begins after it and for each of its calls.
THEOREM SettledChoiceHolds == RegistrySpec => []ChoiceHolds
<1>1. RegistryInv => ChoiceHolds
  <2> SUFFICES ASSUME RegistryInv PROVE ChoiceHolds
    OBVIOUS
  <2>1. settled \in Engines => Configured = settled
    BY ReadsChoice DEF RegistryInv
  <2>2. ASSUME NEW c \in Calls, At(c, "streaming") \/ At(c, "starting"),
               heard[Here(c)] \in State(c).installed
        PROVE call[c].engine = heard[Here(c)]
    <3>1. State(c) \in Memory /\ Here(c) \in Sessions
      BY <2>2, RegistryAssumption DEF RegistryInv, RegistryTypes, Belongs, At, State, Here
    <3>2. heard[Here(c)] # Null
      BY <2>2, <3>1, RegistryAssumption DEF Memory
    <3> QED BY <2>2, <3>2 DEF RegistryInv, Follows
  <2> QED BY <2>1, <2>2 DEF ChoiceHolds
<1> QED BY <1>1, RegistryInvariant, PTL

\* Unless two calls started one at the same time, a llama-server that runs is the
\* one its engine knows of, and somebody uses it or waits for it.
THEOREM ServersAreOwned == RegistrySpec => []ServerIsOwned
<1>1. RegistryInv => ServerIsOwned
  BY DEF RegistryInv, RegistryTypes, Owner, ServerIsOwned
<1> QED BY <1>1, RegistryInvariant, PTL
=============================================================================
