----------------------------- MODULE Scheduler -----------------------------
(***************************************************************************)
(* The scheduler of the native engine (providers/native/scheduler.py): it  *)
(* hands out the backend's sequences to slots and to prefix holders, and   *)
(* turns what is pending in the slots into one decode for all of them.     *)
(*                                                                         *)
(* Tokens are counted, not named.  The backend is external: kv[s] holds    *)
(* the positions of the cells of sequence s, in the order in which they    *)
(* were put there, and shared[s] the holder whose cells s uses as well     *)
(* (unified KV).  The actions are the methods; Next lets callers use them  *)
(* in any order their preconditions allow.                                 *)
(***************************************************************************)
EXTENDS Integers, Sequences, FiniteSets, FiniteSetsExt, Functions

CONSTANTS Job,        \* slots ever made: of sessions, and of stateless requests
          None,       \* no job, no sequence
          NSeq,       \* backend.n_seq_max()
          MaxActive,  \* max_active, after clamping
          MaxTokens,  \* max_tokens of a turn
          MaxInput,   \* bound: tokens of one input
          NCtx        \* what the backend holds of one sequence

ASSUME CountsAssumption == /\ {NSeq, MaxTokens, MaxInput, NCtx} \subseteq Nat \ {0}
                           /\ MaxActive \in 1..NSeq
ASSUME NoneAssumption == None \notin Job /\ None \notin Nat

VARIABLES free,       \* _free_seq_ids, oldest first
          queue,      \* _queue: jobs waiting for a slot
          slots,      \* slots[s]: the job whose slot holds sequence s
          slot,       \* slot[j]: the fields of the slot of j
          holders,    \* _holders
          consumers,  \* _holder_consumers
          kv,         \* external: positions in the KV of each sequence
          shared      \* external: whose cells a sequence shares

vars == <<free, queue, slots, slot, holders, consumers, kv, shared>>

SeqId == 0..(NSeq - 1)
Input == 1..MaxInput

Live == {s \in SeqId : slots[s] # None}
Waiting == Range(queue)
Unused(j) == j \notin Waiting /\ \A s \in SeqId : slots[s] # j

Blank == [session |-> FALSE, pending |-> 0, generated |-> 0, done |-> FALSE,
          past |-> 0]

Init == /\ free = [i \in 1..NSeq |-> i - 1]
        /\ queue = <<>>
        /\ slots = [s \in SeqId |-> None]
        /\ slot = [j \in Job |-> Blank]
        /\ holders = {}
        /\ consumers = [s \in SeqId |-> {}]
        /\ kv = [s \in SeqId |-> <<>>]
        /\ shared = [s \in SeqId |-> None]

\* The cells that n tokens take from position p on.
Cells(p, n) == [i \in 1..n |-> p + i - 1]

\* Sequences S are recycled: no holder's consumers any more, their KV dropped.
Recycled(S) ==
    /\ consumers' = [h \in SeqId |-> consumers[h] \ S]
    /\ shared' = [s \in SeqId |-> IF s \in S THEN None ELSE shared[s]]

\* Seeded fault: the KV of a slot stays with its sequence.
Emptied_NotCleared(S) == kv

Emptied(S) == [s \in SeqId |-> IF s \in S THEN <<>> ELSE kv[s]]

-----------------------------------------------------------------------------
(* Slots.                                                                   *)

\* submit: a stateless request waits for a slot.
Submit(j, n) ==
    /\ Unused(j)
    /\ queue' = Append(queue, j)
    /\ slot' = [slot EXCEPT ![j] = [Blank EXCEPT !.pending = n]]
    /\ UNCHANGED <<free, slots, holders, consumers, kv, shared>>

SlotFree == free # <<>> /\ Cardinality(Live) < MaxActive

\* Seeded fault: the sequence that was taken stays on the list.
Taken_Kept == free

Taken == Tail(free)

\* open_slot: a session takes a sequence at once.
OpenSlot(j) ==
    /\ Unused(j) /\ SlotFree
    /\ free' = Taken
    /\ slots' = [slots EXCEPT ![Head(free)] = j]
    /\ slot' = [slot EXCEPT ![j] = [Blank EXCEPT !.session = TRUE]]
    /\ UNCHANGED <<queue, holders, consumers, kv, shared>>

\* feed: a turn's input; what the slot's KV holds stays.
Feed(jobs, input) ==
    /\ slot' = [j \in Job |->
                  IF j \in jobs
                  THEN [slot[j] EXCEPT !.pending = input[j], !.generated = 0,
                                       !.done = FALSE]
                  ELSE slot[j]]
    /\ UNCHANGED <<free, queue, slots, holders, consumers, kv, shared>>

\* close_slot, for a sequence that has a slot.
CloseSlot(s) ==
    /\ s \in Live
    /\ Recycled({s})
    /\ kv' = Emptied({s})
    /\ slots' = [slots EXCEPT ![s] = None]
    /\ slot' = [slot EXCEPT ![slots[s]] = Blank]
    /\ free' = Append(free, s)
    /\ UNCHANGED <<queue, holders>>

\* load_slot_state: the KV is replaced, and the position set to fit.
LoadState(s, n) ==
    /\ s \in Live
    /\ kv' = [kv EXCEPT ![s] = Cells(0, n)]
    /\ shared' = [shared EXCEPT ![s] = None]
    /\ slot' = [slot EXCEPT ![slots[s]].past = n]
    /\ UNCHANGED <<free, queue, slots, holders, consumers>>

-----------------------------------------------------------------------------
(* Prefix holders.                                                          *)

\* reserve_prefix_holder
Reserve ==
    /\ free # <<>>
    /\ holders' = holders \cup {Head(free)}
    /\ free' = Tail(free)
    /\ UNCHANGED <<queue, slots, slot, consumers, kv, shared>>

\* warm_prefix: decode a prefix of n tokens into a holder, once.
Warm(h, n) ==
    /\ h \in holders /\ n <= NCtx
    /\ kv' = [kv EXCEPT ![h] = @ \o Cells(0, n)]
    /\ UNCHANGED <<free, queue, slots, slot, holders, consumers, shared>>

\* Seeded fault: the position of the slot is not set.
Seeded_Zero(n) == 0

Seeded(n) == n

\* copy_prefix_to_slot: the slot shares the holder's cells, and starts there.
CopyPrefix(h, s, n) ==
    /\ h \in holders /\ s \in Live
    /\ kv' = [kv EXCEPT ![s] = @ \o kv[h]]
    /\ shared' = [shared EXCEPT ![s] = h]
    /\ consumers' = [consumers EXCEPT ![h] = @ \cup {s}]
    /\ slot' = [slot EXCEPT ![slots[s]].past = Seeded(n)]
    /\ UNCHANGED <<free, queue, slots, holders>>

\* Seeded fault: released, whoever shares its cells.
Releasable_Any(h) == h \in holders

Releasable(h) == h \in holders /\ consumers[h] = {}

\* release_prefix_holder; with consumers it refuses, and changes nothing.
ReleaseHolder(h) ==
    /\ Releasable(h)
    /\ consumers' = [consumers EXCEPT ![h] = {}]
    /\ shared' = [shared EXCEPT ![h] = None]
    /\ kv' = Emptied({h})
    /\ holders' = holders \ {h}
    /\ free' = Append(free, h)
    /\ UNCHANGED <<queue, slots, slot>>

-----------------------------------------------------------------------------
(* The decode step.                                                         *)

\* _admit: as many waiting requests as there are sequences and room.
Admitted == Min({Len(queue), Len(free), MaxActive - Cardinality(Live)})

SlotsAdmitted ==
    LET taken == 1..Admitted
    IN  [s \in SeqId |-> IF \E i \in taken : free[i] = s
                         THEN queue[CHOOSE i \in taken : free[i] = s]
                         ELSE slots[s]]

\* The slots that take part in a step.
Active(table) == {s \in SeqId : /\ table[s] # None
                                /\ slot[table[s]].pending > 0
                                /\ ~slot[table[s]].done}

\* Seeded fault: no cap on what a turn generates.
Over_StopOnly(j, stop) == j \in stop

\* A token ends a turn when it is a stop token, or the last one allowed.
Over(j, stop) == j \in stop \/ slot[j].generated + 1 >= MaxTokens

\* Seeded fault: the position advances by one token.
Advance_One(j) == slot[j].past + 1

Advance(j) == slot[j].past + slot[j].pending

\* What a slot is after its tokens were decoded and one was sampled.
Sampled(j, stop) ==
    [slot[j] EXCEPT !.past = Advance(j),
                    !.generated = @ + 1,
                    !.pending = IF Over(j, stop) THEN 0 ELSE 1,
                    !.done = Over(j, stop)]

\* step: admit, decode everything that is pending, sample, and let go of the
\* stateless slots that are finished.  stop: the jobs that draw a stop token.
Step(stop) ==
    LET table == SlotsAdmitted
        active == Active(table)
        gone == {s \in active : /\ Over(table[s], stop)
                                /\ ~slot[table[s]].session}
    IN
    /\ \A s \in active : Len(kv[s]) + slot[table[s]].pending <= NCtx
    /\ queue' = SubSeq(queue, Admitted + 1, Len(queue))
    /\ slots' = [s \in SeqId |-> IF s \in gone THEN None ELSE table[s]]
    /\ slot' = [j \in Job |-> IF \E s \in gone : table[s] = j THEN Blank
                              ELSE IF \E s \in active : table[s] = j
                              THEN Sampled(j, stop) ELSE slot[j]]
    /\ kv' = [s \in SeqId |->
                IF s \in gone THEN Emptied(gone)[s]
                ELSE IF s \in active
                THEN kv[s] \o Cells(slot[table[s]].past, slot[table[s]].pending)
                ELSE kv[s]]
    /\ \E order \in [1..Cardinality(gone) -> gone] :
         /\ Range(order) = gone
         /\ free' = SubSeq(free, Admitted + 1, Len(free)) \o order
    /\ Recycled(gone)
    /\ UNCHANGED holders

\* step, when decode() raises: the requests have been admitted, and that is all.
StepFails ==
    /\ Active(SlotsAdmitted) # {}
    /\ queue' = SubSeq(queue, Admitted + 1, Len(queue))
    /\ free' = SubSeq(free, Admitted + 1, Len(free))
    /\ slots' = SlotsAdmitted
    /\ UNCHANGED <<slot, holders, consumers, kv, shared>>

-----------------------------------------------------------------------------
\* As the engine calls them: a holder is warmed once, a prefix is copied into
\* a slot that is new.
Next == \/ \E j \in Job :
              \/ OpenSlot(j)
              \/ \E n \in Input : Submit(j, n)
        \/ \E s \in Live :
              \/ CloseSlot(s)
              \/ /\ slot[slots[s]].session
                 /\ \/ \E n \in Input : Feed({slots[s]}, [j \in Job |-> n])
                    \/ \E n \in 1..NCtx : LoadState(s, n)
                    \/ \E h \in holders :
                         /\ kv[h] # <<>>
                         /\ kv[s] = <<>>
                         /\ CopyPrefix(h, s, Len(kv[h]))
        \/ Reserve
        \/ \E h \in holders :
              \/ /\ kv[h] = <<>>
                 /\ \E n \in Input : Warm(h, n)
              \/ ReleaseHolder(h)
        \/ \E stop \in SUBSET {j \in Job : slot[j].pending > 0} : Step(stop)
        \/ StepFails

Spec == Init /\ [][Next]_vars

-----------------------------------------------------------------------------
Slot == [session : BOOLEAN, pending : Nat, generated : Nat, done : BOOLEAN,
         past : Nat]

TypeOK == /\ free \in Seq(SeqId)
          /\ queue \in Seq(Job)
          /\ slots \in [SeqId -> Job \cup {None}]
          /\ slot \in [Job -> Slot]
          /\ holders \subseteq SeqId
          /\ consumers \in [SeqId -> SUBSET SeqId]
          /\ kv \in [SeqId -> Seq(Nat)]
          /\ shared \in [SeqId -> SeqId \cup {None}]

\* A sequence is free, or some slot's, or a holder, and only one of these, a
\* slot has one sequence, and no more than MaxActive are slots: however they
\* are taken, recycled and released, none is lost and none handed out twice.
OneOwner ==
    /\ \A i, k \in 1..Len(free) : free[i] = free[k] => i = k
    /\ \A s \in SeqId :
         /\ s \in Range(free) <=> s \notin Live \cup holders
         /\ ~(s \in Live /\ s \in holders)
    /\ \A s, t \in Live : slots[s] = slots[t] => s = t
    /\ Cardinality(Live) <= MaxActive

\* BatchEntry.start_pos is "how many tokens already sit in this sequence's
\* KV": a slot's position is what its sequence holds, without gap or overlap,
\* also after a recycled sequence, a copied prefix or a restored state; and the
\* cells it shares with a holder are not recycled under it.
PositionIsKV ==
    \A s \in Live : /\ kv[s] = Cells(0, slot[slots[s]].past)
                    /\ shared[s] # None => shared[s] \in holders

\* What the invariants rest on: a sequence in nobody's hands is clean, holders
\* know their consumers, and a waiting request has no slot yet.
CleanInv == \A s \in SeqId \ (Live \cup holders) :
                kv[s] = <<>> /\ shared[s] = None
HolderInv == /\ \A s \in SeqId : shared[s] # None => s \in consumers[shared[s]]
             /\ \A h \in SeqId : /\ consumers[h] \subseteq Live
                                 /\ h \notin holders => consumers[h] = {}
             /\ \A h \in holders : /\ shared[h] = None
                                   /\ kv[h] = Cells(0, Len(kv[h]))
QueueInv == /\ \A i, k \in 1..Len(queue) : queue[i] = queue[k] => i = k
            /\ \A j \in Waiting : /\ \A s \in SeqId : slots[s] # j
                                  /\ slot[j].past = 0

IInv == /\ TypeOK
        /\ OneOwner
        /\ PositionIsKV
        /\ CleanInv
        /\ HolderInv
        /\ QueueInv
=============================================================================
