------------------------------ MODULE Tailing ------------------------------
(***************************************************************************)
(* TailingReader (audit/tailing.py): a reader that polls a container while *)
(* it is written, torn by a crash and truncated by the resume, and tells   *)
(* the reasons apart for which the end of the file moved.                  *)
(*                                                                         *)
(* The file is a sequence of units, of which a record has a fixed number;  *)
(* a poll takes the size and then, when the file may be another, reads.    *)
(* The writer is the one of audit/pala_writer.py seen from outside, and a  *)
(* rollback stands for whoever rewrites history.  The events of a poll are *)
(* in what it changes: records in verified, shrunk and recovered in        *)
(* awaiting, pending_tail in age, and the diagnoses in their flags.        *)
(***************************************************************************)
EXTENDS Container

CONSTANTS Units,      \* units of a record
          Grace,      \* torn_grace, in ticks
          MaxRecords, \* bound: records ever begun
          MaxBoots    \* bound: writers ever opened

ASSUME UnitsAssumption == Units \in Nat \ {0, 1}
ASSUME GraceAssumption == Grace \in Nat \ {0}
ASSUME BoundAssumption == {MaxRecords, MaxBoots} \subseteq Nat

VARIABLES units,        \* the file: who each unit of it belongs to
          writer,       \* the writer: whether it lives, and its memory
          pc,           \* between polls, or between the size and the read
          size,         \* the size that this poll goes by
          cursor,       \* _cursor, in units
          lastSize,     \* _last_size
          age,          \* how long ago _pending_since is; -1 for None
          awaiting,     \* _awaiting_recovery
          diagTorn,     \* _diag_torn
          diagReplaced, \* _diag_replaced
          verified,     \* the records that were stepped and emitted
          rolled        \* history: the file was rolled back

tailVars == <<pc, size, cursor, lastSize, age, awaiting, diagTorn, diagReplaced, verified>>
tailingVars == <<units, writer, tailVars, rolled>>

Nobody == [open |-> FALSE, boot |-> 0, begun |-> 0, seq |-> 0, head |-> Zero32, todo |-> <<>>]

TailInit == /\ units = <<>>
            /\ writer = Nobody
            /\ pc = "rest"
            /\ size = 0
            /\ cursor = 0
            /\ lastSize = 0
            /\ age = -1
            /\ awaiting = FALSE
            /\ diagTorn = FALSE
            /\ diagReplaced = FALSE
            /\ verified = <<>>
            /\ rolled = FALSE

-----------------------------------------------------------------------------
(* The records of a run of units.                                           *)

Lesser(a, b) == IF a < b THEN a ELSE b

\* _parse_one, from offset i: all of the units of one record follow.
Parses(run, i) ==
    /\ i + Units <= Len(run)
    /\ \A k \in 1..Units : run[i + k] = [rec |-> run[i + 1].rec, nth |-> k]

\* How many records follow one another from the start, before one does not parse.
Parsed(run) == LET ends == {n \in 0..(Len(run) \div Units) : ~Parses(run, n * Units)}
               IN  CHOOSE n \in ends : \A k \in ends : n <= k

RecordsOf(run) == [k \in 1..Parsed(run) |-> run[k * Units].rec]

\* Bytes behind the last whole record.
Pending(run) == Len(run) - Parsed(run) * Units

-----------------------------------------------------------------------------
(* The writer, a unit at a time, and what may befall it.                    *)

InRecord == Pending(units) > 0

Next0(type) == [type |-> type, boot |-> writer.boot, seq |-> writer.seq,
                prev |-> writer.head, ref |-> Zero32, rot |-> FALSE]

\* A writer on a new file, or one that resumes: a torn tail is cut off first,
\* then come BOOT and, if there was one, RECOVERY_TRUNCATED_TAIL.
Open ==
    /\ ~writer.open
    /\ writer.boot < MaxBoots
    /\ LET recs == RecordsOf(units)
       IN  /\ units = <<>> \/ recs # <<>>
           /\ units' = SubSeq(units, 1, Len(recs) * Units)
           /\ writer' = [open |-> TRUE, boot |-> writer.boot + 1, begun |-> writer.begun,
                         seq |-> IF recs = <<>> THEN 0 ELSE Last(recs).seq + 1,
                         head |-> HeadHash(recs),
                         todo |-> (IF recs = <<>> THEN <<"GENESIS">> ELSE <<>>) \o <<"BOOT">>
                                  \o (IF InRecord THEN <<"RECOVERY">> ELSE <<>>)]
    /\ UNCHANGED <<tailVars, rolled>>

\* The first unit of the next record.
BeginRecord ==
    /\ writer.open /\ ~InRecord
    /\ writer.begun < MaxRecords
    /\ LET type == IF writer.todo = <<>> THEN "EVENT" ELSE Head(writer.todo)
       IN  units' = Append(units, [rec |-> Next0(type), nth |-> 1])
    /\ writer' = [writer EXCEPT !.begun = @ + 1]
    /\ UNCHANGED <<tailVars, rolled>>

\* One more; with the last one the writer moves on.
Proceed ==
    /\ writer.open /\ InRecord
    /\ LET last == Last(units)
       IN  /\ units' = Append(units, [last EXCEPT !.nth = @ + 1])
           /\ writer' = IF last.nth + 1 < Units THEN writer
                        ELSE [writer EXCEPT !.seq = @ + 1, !.head = Hash(last.rec),
                                 !.todo = IF @ = <<>> THEN @ ELSE Tail(@)]
    /\ UNCHANGED <<tailVars, rolled>>

Gone(w) == [Nobody EXCEPT !.boot = w.boot, !.begun = w.begun]

Crash == /\ writer.open
         /\ writer' = Gone(writer)
         /\ UNCHANGED <<units, tailVars, rolled>>

\* Some of the file is taken away, while nobody has it open.
Rollback ==
    /\ ~writer.open /\ ~rolled
    /\ \E n \in 1..(Parsed(units) - 1) : units' = SubSeq(units, 1, n * Units)
    /\ rolled' = TRUE
    /\ UNCHANGED <<writer, tailVars>>

-----------------------------------------------------------------------------
(* The reader: _drain.                                                      *)

TakeSize == /\ pc = "rest"
            /\ size' = Len(units)
            /\ pc' = "sized"
            /\ UNCHANGED <<units, writer, cursor, lastSize, age, awaiting, diagTorn,
                           diagReplaced, verified, rolled>>

\* Below what was verified: one alarm, and nothing is read.
DrainReplaced ==
    /\ pc = "sized" /\ size < cursor
    /\ diagReplaced' = TRUE
    /\ lastSize' = size
    /\ pc' = "rest"
    /\ UNCHANGED <<units, writer, size, cursor, age, awaiting, diagTorn, verified, rolled>>

\* The bytes from the cursor to the size that was taken, or to the end.
Read == SubSeq(units, cursor + 1, Lesser(size, Len(units)))

\* Seeded fault: what does not parse yet is stepped over as a record.
Ready_Torn(tail) == RecordsOf(tail) \o (IF Pending(tail) > 1 THEN <<Last(tail).rec>> ELSE <<>>)

\* The records that are stepped, decoded and emitted.
Ready(tail) == RecordsOf(tail)

\* Seeded fault: every poll takes the time anew.
PendingAge_Anew(shrunk) == 0

\* How old _pending_since is when there are pending bytes.
PendingAge(shrunk) == IF shrunk \/ size > lastSize \/ age = -1 THEN 0 ELSE age

\* Seeded fault: the diagnosis stays given when the tail has become whole.
StillTorn_Sticky == diagTorn

\* _diag_torn when nothing is pending.
StillTorn == FALSE

Drain ==
    /\ pc = "sized" /\ size >= cursor
    /\ LET tail == Read
           recs == Ready(tail)
           shrunk == size < lastSize
           awaits == awaiting \/ shrunk
           recovered == awaits /\ \E k \in 1..Len(recs) : recs[k].type = "RECOVERY"
           pending == Len(tail) > Len(recs) * Units
           grew == size > lastSize \/ (age = -1 /\ ~shrunk)
           torn == pending /\ ~grew /\ ~diagTorn /\ PendingAge(shrunk) >= Grace
       IN  /\ verified' = verified \o recs
           /\ cursor' = cursor + Len(recs) * Units
           /\ awaiting' = (awaits /\ ~recovered)
           /\ age' = IF pending THEN PendingAge(shrunk) ELSE -1
           /\ diagTorn' = IF pending THEN diagTorn \/ torn ELSE StillTorn
    /\ lastSize' = size
    /\ pc' = "rest"
    /\ UNCHANGED <<units, writer, size, diagReplaced, rolled>>

\* Time passes.
Tick == /\ age \in 0..(Grace - 1)
        /\ age' = age + 1
        /\ UNCHANGED <<units, writer, pc, size, cursor, lastSize, awaiting, diagTorn,
                       diagReplaced, verified, rolled>>

TailNext == \/ Open \/ BeginRecord \/ Proceed \/ Crash \/ Rollback
            \/ TakeSize \/ DrainReplaced \/ Drain \/ Tick

\* The consumer goes on polling, and time does not stop.
TailFairness == /\ WF_tailingVars(TakeSize) /\ WF_tailingVars(DrainReplaced)
                /\ WF_tailingVars(Drain) /\ WF_tailingVars(Tick)

TailSpec == TailInit /\ [][TailNext]_tailingVars /\ TailFairness

-----------------------------------------------------------------------------
(* Properties.                                                              *)

\* The type invariant of the tailing reader: its cursor stands behind the
\* records it emitted, and its times and flags agree with each other.
TypeOK ==
    /\ cursor = Units * Len(verified)
    /\ age \in -1..Grace
    /\ diagTorn => age # -1
    /\ Len(units) <= Units * MaxRecords
    /\ writer.open => writer.boot \in 1..MaxBoots

\* What the reader emits is the file's records, each once and in their order,
\* and never a torn one, whatever was truncated or appended between a poll's
\* size and its read; so it accuses nobody, takes no tail for truncated that no
\* resume came to, and its snapshot says what the batch verifier says, unless
\* history really was rolled back.
EmittedIsWritten ==
    /\ TypeOK
    /\ ~rolled =>
          /\ IsPrefix(verified, RecordsOf(units))
          /\ ~diagReplaced
          /\ awaiting => writer.boot > 1
          /\ ChainOk(verified)

\* The file of a writer that died in a record and is not resumed.
TornForGood == InRecord /\ ~writer.open

\* The verified records are not those of the file any more, and there is a
\* record behind them, or they are not all there.
Rewritten == /\ ~IsPrefix(verified, RecordsOf(units))
             /\ Parsed(units) # Len(verified)

\* The reader never stays behind: again and again it has emitted every whole
\* record, holds a truncated_tail diagnosis over the torn tail of a writer that
\* is gone, and has raised the alarm, or broken the chain it verifies, over a
\* history that was rolled back, also when it grew again before the next poll.
\* (The diagnosis in force may be an older one: it is not given again unless a
\* poll has found the file whole in between.)
TailIsTold ==
    /\ []<>(rolled \/ verified = RecordsOf(units))
    /\ []<>(TornForGood /\ ~rolled => diagTorn)
    /\ []<>(Rewritten => diagReplaced \/ ~ChainOk(verified))
=============================================================================
