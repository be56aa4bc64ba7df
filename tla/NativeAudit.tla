---------------------------- MODULE NativeAudit ----------------------------
(***************************************************************************)
(* NativeAudit (providers/native/audit.py) over its PalaWriter, as a       *)
(* serve opens it on <config>/serve.pala: the records that follow from     *)
(* other records, written by several threads of a process that may die.    *)
(*                                                                         *)
(* A write has two steps, with the writer's lock held in between: what is  *)
(* on disk until the second one is what a reader, or a crash, may find.    *)
(* It may also raise before a byte is out, and on a full disk it may end   *)
(* early without saying so.  Times are ticks of the clock; a thread that   *)
(* has read the clock is held up for at most MaxStall ticks.               *)
(***************************************************************************)
EXTENDS Container, FiniteSets, Functions

CONSTANTS Thread,         \* the threads that use the audit
          Main,           \* the thread that opens it
          Nobody,         \* no thread
          GuardThreshold, \* guard_escalation_threshold
          GuardWindow,    \* guard_escalation_window_ns, in ticks
          AnchorThreshold,\* anchor_failure_threshold
          MaxStall,       \* bound: ticks that pass while a thread is held up
          MaxClock,       \* bound: ticks
          MaxRecords,     \* bound: records ever written
          MaxFaults       \* bound: faults, of all kinds together (see Weight)

Faults == {"crash", "raise", "short", "rot", "store"}

ASSUME ThresholdAssumption == GuardThreshold \in Nat \ {0} /\ AnchorThreshold \in Nat \ {0}
ASSUME MainAssumption == Main \notin Thread /\ Nobody \notin Thread \cup {Main}
ASSUME BoundAssumption == {GuardWindow, MaxStall, MaxClock, MaxRecords, MaxFaults} \subseteq Nat

VARIABLES file,        \* the container, as cells
          writer,      \* the PalaWriter: _boot_id, _seq, _head, and whether
                       \* its resume cut a torn tail
          todo,        \* the constructor's records still to be written
          up,          \* the process serves
          writing,     \* the record being written under the writer's lock
          pc, arg,     \* where each thread is, and what it holds
          guards,      \* _guards: refusals that count, with their times
          failures,    \* _anchor_failures
          stored,      \* the head in the anchor store
          clock,
          faults,      \* how many faults of each kind there have been
          acked,       \* history: the records whose write returned
          escalations  \* history: the refusals that each escalation counted

threadVars == <<pc, arg>>
auditVars == <<guards, failures, stored, clock, escalations>>
nativeAuditVars == <<file, writer, todo, up, writing, threadVars, auditVars, faults, acked>>

NoArg == [type |-> "NONE", ref |-> Zero32, ret |-> Zero32, time |-> 0]
NoRecord == [type |-> "NONE", boot |-> 0, seq |-> 0, prev |-> Zero32, ref |-> Zero32,
             rot |-> FALSE]

AuditInit == /\ file = <<>>
             /\ writer = [open |-> FALSE, boot |-> 0, seq |-> 0, head |-> Zero32, recovered |-> FALSE]
             /\ todo = <<>>
             /\ up = FALSE
             /\ writing = [by |-> Nobody, rec |-> NoRecord]
             /\ pc = [t \in Thread |-> "idle"]
             /\ arg = [t \in Thread |-> NoArg]
             /\ guards = <<>>
             /\ failures = 0
             /\ stored = Zero32
             /\ clock = 0
             /\ faults = [f \in Faults |-> 0]
             /\ acked = <<>>
             /\ escalations = <<>>

\* Bound: what rots weighs as much as two other faults.
Weight(f) == IF f = "rot" THEN 2 ELSE 1

Fault(f) == /\ SumFunction(faults) + Weight(f) <= MaxFaults
            /\ faults' = [faults EXCEPT ![f] = @ + Weight(f)]

-----------------------------------------------------------------------------
(* Opening and dying.                                                       *)

\* Seeded fault: the constructor forgets that bytes were recovered.
Opening_NoRecovery(fresh, cut) == (IF fresh THEN <<"GENESIS">> ELSE <<>>) \o <<"BOOT">>

\* Seeded fault: the recovery is recorded before the boot it belongs to.
Opening_RecoveryFirst(fresh, cut) ==
    (IF fresh THEN <<"GENESIS">> ELSE <<>>) \o
    (IF cut THEN <<"RECOVERY">> ELSE <<>>) \o <<"BOOT">>

\* What NativeAudit.__init__ writes.
Opening(fresh, cut) ==
    (IF fresh THEN <<"GENESIS">> ELSE <<>>) \o <<"BOOT">> \o
    (IF cut THEN <<"RECOVERY">> ELSE <<>>)

\* A file that is missing or empty starts a chain.
OpenFresh ==
    /\ ~writer.open /\ file = <<>>
    /\ writer' = [open |-> TRUE, boot |-> writer.boot + 1, seq |-> 0, head |-> Zero32,
                  recovered |-> FALSE]
    /\ todo' = Opening(TRUE, FALSE)
    /\ UNCHANGED <<file, up, writing, threadVars, auditVars, faults, acked>>

\* open_existing refuses what has no complete record, or more behind a gap.
Resumable == Records(file) # <<>> /\ ~MagicBeyond(file)

\* The torn tail is cut off before the writer has anything to say of it.
OpenExisting ==
    /\ ~writer.open /\ file # <<>> /\ Resumable
    /\ LET last == Last(Records(file))
           cut == ~WellFormed(file)
       IN  /\ writer' = [open |-> TRUE, boot |-> writer.boot + 1, seq |-> last.seq + 1,
                         head |-> Hash(last), recovered |-> cut]
           /\ file' = Truncated(file)
           /\ todo' = Opening(FALSE, cut)
    /\ UNCHANGED <<up, writing, threadVars, auditVars, faults, acked>>

\* How far the write at the end of the file may have come.
BreaksOff == \E bytes \in Fragments(writing.rec) : file' = Front(file) \o bytes

\* What is in memory is gone.
Die == /\ writer' = [writer EXCEPT !.open = FALSE, !.seq = 0, !.head = Zero32,
                                   !.recovered = FALSE]
       /\ todo' = <<>>
       /\ up' = FALSE
       /\ writing' = [by |-> Nobody, rec |-> NoRecord]
       /\ pc' = [t \in Thread |-> "idle"]
       /\ arg' = [t \in Thread |-> NoArg]
       /\ guards' = <<>>
       /\ failures' = 0

Crash == /\ writer.open
         /\ Fault("crash")
         /\ IF writing.by = Nobody THEN UNCHANGED file ELSE BreaksOff
         /\ Die
         /\ UNCHANGED <<stored, clock, escalations, acked>>

-----------------------------------------------------------------------------
(* One record, under the writer's lock: _emit.                              *)

\* Seeded fault: the record is linked to the head that a thread read before.
NextRecord_OldHead(by, type, ref) ==
    [type |-> type, boot |-> writer.boot, seq |-> writer.seq,
     prev |-> IF by # Main /\ type = "ANCHOR" THEN arg[by].ref ELSE writer.head,
     ref |-> ref, rot |-> FALSE]

NextRecord(by, type, ref) ==
    [type |-> type, boot |-> writer.boot, seq |-> writer.seq, prev |-> writer.head,
     ref |-> ref, rot |-> FALSE]

BeginWrite(by, type, ref) ==
    /\ writing.by = Nobody
    /\ Len(acked) < MaxRecords
    /\ LET r == NextRecord(by, type, ref)
       IN  /\ file' = Append(file, Cell("cut", r))
           /\ writing' = [by |-> by, rec |-> r]
    /\ UNCHANGED faults

\* write() raises and nothing of the record is on disk.
RaiseWrite == writing.by = Nobody /\ Fault("raise")

\* The rest of the bytes, or, with nobody noticing, no more of them.
EndWrite(by) ==
    /\ writing.by = by
    /\ \/ /\ file' = Front(file) \o Written(writing.rec)
          /\ UNCHANGED faults
       \/ Fault("short") /\ BreaksOff
    /\ writer' = [writer EXCEPT !.seq = @ + 1, !.head = Hash(writing.rec)]
    /\ acked' = Append(acked, writing.rec)
    /\ writing' = [by |-> Nobody, rec |-> NoRecord]

\* The constructor's next record; if it raises, so does default_audit.
Construct ==
    /\ writer.open /\ ~up
    /\ \/ /\ BeginWrite(Main, Head(todo), Zero32)
          /\ UNCHANGED <<writer, todo, up, threadVars, auditVars, acked>>
       \/ /\ EndWrite(Main)
          /\ todo' = Tail(todo)
          /\ up' = (Len(todo) = 1)
          /\ UNCHANGED <<threadVars, auditVars>>
       \/ /\ RaiseWrite
          /\ Die
          /\ UNCHANGED <<file, stored, clock, escalations, acked>>

\* A thread's record: what it does next depends on its type.
EmitBegins(t, type, ref) ==
    \/ /\ BeginWrite(t, type, ref)
       /\ pc' = [pc EXCEPT ![t] = "writing"]
       /\ arg' = [arg EXCEPT ![t] = NoArg]
       /\ UNCHANGED <<writer, todo, up, auditVars, acked>>
    \/ /\ RaiseWrite
       /\ pc' = [pc EXCEPT ![t] = "idle"]
       /\ arg' = [arg EXCEPT ![t] = NoArg]
       /\ UNCHANGED <<file, writing, writer, todo, up, auditVars, acked>>

EmitEnds(t) ==
    /\ pc[t] = "writing"
    /\ EndWrite(t)
    /\ LET r == writing.rec
       IN  /\ pc' = [pc EXCEPT ![t] = CASE r.type = "GUARD" -> "refused"
                                        [] r.type = "ANCHOR" -> "anchored"
                                        [] OTHER -> "idle"]
           /\ arg' = [arg EXCEPT ![t].ret = IF r.type = "GUARD" THEN Hash(r) ELSE Zero32]
    /\ UNCHANGED <<todo, up, auditVars>>

-----------------------------------------------------------------------------
(* Refusals and their escalation.                                           *)

\* state_rejected, tool_loop_limited, prefix_release_refused: each writes a
\* guard record first.
Refuse(t) == up /\ pc[t] = "idle" /\ EmitBegins(t, "GUARD", Zero32)

\* _note_guard reads the clock before it has the trigger lock.
ReadClock(t) ==
    /\ pc[t] = "refused"
    /\ pc' = [pc EXCEPT ![t] = "clocked"]
    /\ arg' = [arg EXCEPT ![t].time = clock]
    /\ UNCHANGED <<file, writer, todo, up, writing, auditVars, faults, acked>>

\* Seeded fault: the record that the writer wrote last is taken for the refusal.
Refusal_Late(t) == [time |-> arg[t].time, ref |-> writer.head]

\* What is counted: the refusal under the seq and hash that its write returned.
Refusal(t) == [time |-> arg[t].time, ref |-> arg[t].ret]

\* The queue without the refusals at its front that are older than the window.
InWindow(queue, now) ==
    LET old == SelectInSeq(queue, LAMBDA g : g.time >= now - GuardWindow)
    IN  SubSeq(queue, old, Len(queue))

\* Seeded fault: the queue is not cleared by an escalation.
AfterEscalation_Kept(kept) == kept

\* What is left of the queue when it has been escalated.
AfterEscalation(kept) == <<>>

\* Append, drop what is old, escalate: under the trigger lock.
NoteGuard(t) ==
    /\ pc[t] = "clocked"
    /\ LET kept == InWindow(Append(guards, Refusal(t)), arg[t].time)
       IN  IF Len(kept) >= GuardThreshold
           THEN /\ guards' = AfterEscalation(kept)
                /\ pc' = [pc EXCEPT ![t] = "GUARD_ESCALATION"]
                /\ arg' = [arg EXCEPT ![t] = [NoArg EXCEPT !.ref = Last(kept).ref]]
                /\ escalations' = Append(escalations, kept)
           ELSE /\ guards' = kept
                /\ pc' = [pc EXCEPT ![t] = "idle"]
                /\ arg' = [arg EXCEPT ![t] = NoArg]
                /\ UNCHANGED escalations
    /\ UNCHANGED <<file, writer, todo, up, writing, failures, stored, clock, faults, acked>>

\* Time passes, but not over the heads of those who have read it.
Tick ==
    /\ clock < MaxClock
    /\ guards # <<>> \/ \E t \in Thread : pc[t] = "clocked"
    /\ \A t \in Thread : pc[t] = "clocked" => clock < arg[t].time + MaxStall
    /\ clock' = clock + 1
    /\ UNCHANGED <<file, writer, todo, up, writing, threadVars, guards, failures, stored,
                   escalations, faults, acked>>

-----------------------------------------------------------------------------
(* Anchors and the self-check.                                              *)

\* Threads that anchor: it is the engine's close, or one owner, that does.
Anchoring == {t \in Thread : pc[t] \in {"ANCHOR", "anchored"}} \cup
             (IF writing.rec.type = "ANCHOR" THEN {writing.by} ELSE {})

\* anchor() reads the head without the lock, and again when its record is
\* written: that second head is the one to store.
Anchor(t) ==
    /\ up /\ pc[t] = "idle" /\ Anchoring = {}
    /\ pc' = [pc EXCEPT ![t] = "ANCHOR"]
    /\ arg' = [arg EXCEPT ![t].ref = writer.head]
    /\ UNCHANGED <<file, writer, todo, up, writing, auditVars, faults, acked>>

\* Its caller stores that head and reports how it went: anchor_stored or
\* anchor_store_failed.
Store(t) ==
    /\ pc[t] = "anchored"
    /\ \/ /\ stored' = writer.head
          /\ failures' = 0
          /\ pc' = [pc EXCEPT ![t] = "idle"]
          /\ UNCHANGED faults
       \/ /\ Fault("store")
          /\ failures' = failures + 1
          /\ pc' = [pc EXCEPT ![t] = IF failures + 1 = AnchorThreshold
                                     THEN "ANCHOR_ANOMALY" ELSE "idle"]
          /\ UNCHANGED stored
    /\ UNCHANGED <<file, writer, todo, up, writing, arg, guards, clock, escalations, acked>>

\* Seeded fault: a record that is being written counts against the chain.
SelfCheckFails_InFlight == ~WellFormed(file) \/ ~ChainOk(Records(file))

\* The whole file is read without the lock; an unfinished record raises, and
\* then nothing is recorded.
SelfCheckFails == WellFormed(file) /\ ~ChainOk(Records(file))

SelfCheck(t) ==
    /\ up /\ pc[t] = "idle"
    /\ SelfCheckFails
    /\ pc' = [pc EXCEPT ![t] = "SELF_CHECK_FAILED"]
    /\ UNCHANGED <<file, writer, todo, up, writing, arg, auditVars, faults, acked>>

\* What a thread has decided to write.
Emit(t) ==
    /\ pc[t] \in {"ANCHOR", "GUARD_ESCALATION", "ANCHOR_ANOMALY", "SELF_CHECK_FAILED"}
    /\ EmitBegins(t, pc[t], arg[t].ref)

\* A byte of the newest stored header changes: nobody tells whether an older
\* one did so then or later.
Rot == /\ Fault("rot")
       /\ writing.by = Nobody
       /\ \E i \in 1..Len(file) :
             /\ file[i].part = "head" /\ ~file[i].rec.rot
             /\ \A j \in (i + 1)..Len(file) : file[j].part # "head"
             /\ file' = [file EXCEPT ![i].rec.rot = TRUE]
       /\ UNCHANGED <<writer, todo, up, writing, threadVars, auditVars, acked>>

ThreadStep(t) ==
    \/ Refuse(t) \/ ReadClock(t) \/ NoteGuard(t)
    \/ Anchor(t) \/ Store(t)
    \/ SelfCheck(t) \/ Emit(t) \/ EmitEnds(t)

AuditNext == \/ OpenFresh \/ OpenExisting \/ Construct \/ Crash
             \/ \E t \in Thread : ThreadStep(t)
             \/ Tick \/ Rot

AuditSpec == AuditInit /\ [][AuditNext]_nativeAuditVars

-----------------------------------------------------------------------------
(* Properties.                                                              *)

\* Writes ended as their return said.
NoShort == faults["short"] = 0

\* The type invariant of the native audit: who is writing what, and what the
\* threads hold at each of their points.
AuditTypeOK ==
    /\ writing.by \in {Nobody, Main} \cup Thread
    /\ (writing.by # Nobody) => (writer.open /\ file # <<>>)
    /\ up => (writer.open /\ todo = <<>>)
    /\ (writer.open /\ ~up) => todo # <<>>
    /\ \A t \in Thread :
          /\ pc[t] = "writing" <=> writing.by = t
          /\ pc[t] # "idle" => up
          /\ pc[t] \in {"refused", "clocked"} => arg[t].ret # Zero32
          /\ arg[t].time <= clock
    /\ Len(guards) < GuardThreshold
    /\ writing.by = Main => writing.rec.type = Head(todo)

\* While writes are not cut short unseen, the records on disk are those whose
\* write returned, none lost and none doubled, through crashes, truncations
\* and writes that raise; and the only links that break are behind a record
\* that rotted.
ChainSound ==
    /\ AuditTypeOK
    /\ NoShort => LET recs == Records(file) IN
        /\ [i \in 1..Len(recs) |-> [recs[i] EXCEPT !.rot = FALSE]] = acked
        /\ Breaks(recs) \subseteq {i \in 2..Len(recs) : recs[i - 1].rot}
        /\ Gaps(recs) = {} /\ Violations(recs) = {}

Counted(e) == {e[i].ref : i \in 1..Len(e)}

\* The refusals that an escalation counted, of all threads, were as many as the
\* threshold asks for, lay in the window (but for the time that a thread was
\* held up), and count for no other escalation; and what an escalation on
\* record refers to is the last of them, a refusal.
EscalationTrue ==
    /\ \A k \in 1..Len(escalations) :
          LET e == escalations[k]
          IN  /\ Cardinality(Counted(e)) >= GuardThreshold
              /\ \A i, j \in 1..Len(e) : e[i].time - e[j].time <= GuardWindow + MaxStall
              /\ \A h \in Counted(e) :
                    \E i \in 1..Len(acked) : Hash(acked[i]) = h /\ acked[i].type = "GUARD"
              /\ \A l \in 1..(k - 1) : Counted(e) \cap Counted(escalations[l]) = {}
    /\ \A i \in 1..Len(acked) : acked[i].type = "GUARD_ESCALATION" =>
          \E k \in 1..Len(escalations) : Last(escalations[k]).ref = acked[i].ref

\* An ANCHOR record names a head that the chain had before it, every reference
\* resolves, and the stored anchor is always answered with "complete" or with a
\* tail behind it, whatever other threads write during the two unlocked reads
\* of the head and whatever a crash tears: never with "replaced".
AnchorVerifies ==
    (NoShort /\ faults["rot"] = 0) => LET recs == Records(file) IN
        /\ stored = Zero32 \/ AnchorAnswer(recs, stored) # "replaced"
        /\ BadReferences(recs) = {}
        /\ \A i \in 1..Len(recs) : recs[i].type = "ANCHOR" =>
              \E j \in 1..(i - 1) : Hash(recs[j]) = recs[i].ref

\* A self-check that accuses the chain is right: a stored record did change.
\* A record that another thread is writing, or a torn one, is no accusation.
NoFalseAlarm ==
    (\E t \in Thread : pc[t] = "SELF_CHECK_FAILED") \/
    (\E i \in 1..Len(acked) : acked[i].type = "SELF_CHECK_FAILED")
        => faults["rot"] > 0

\* Whoever asks the engine's own checks is told nothing false: neither by the
\* stored anchor nor by the self-check.
ChecksAreTrue == AnchorVerifies /\ NoFalseAlarm

\* A write that ended early without saying so costs records whose write did
\* return, but not in silence: the walk ends before the file does, or a
\* recovery is on record.  That takes a resume that lives to record it: one that
\* dies between the truncation and the record leaves no trace.  Otherwise a
\* process that cut a torn tail off and came up has put that on record where the
\* reader looks for it, and no other record claims a recovery.
LossShows ==
    LET recs == Records(file)
        whole == {Hash([recs[i] EXCEPT !.rot = FALSE]) : i \in 1..Len(recs)}
    IN
    /\ \/ \A i \in 1..Len(acked) : Hash(acked[i]) \in whole
       \/ ~WellFormed(file)
       \/ \E i \in 1..Len(recs) : recs[i].type = "RECOVERY"
       \/ writer.open /\ ~up
       \/ faults["crash"] + faults["raise"] > 1
    /\ NoShort =>
          /\ (up /\ writer.recovered) => Recovered(recs, writer.boot)
          /\ \A i \in 1..Len(recs) : recs[i].type = "RECOVERY" =>
                i > 1 /\ recs[i - 1].type = "BOOT" /\ recs[i - 1].boot = recs[i].boot
=============================================================================
