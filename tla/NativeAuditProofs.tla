-------------------------- MODULE NativeAuditProofs --------------------------
(***************************************************************************)
(* Proofs about NativeAudit, for any number of threads, records and        *)
(* faults: what is on disk against what was acknowledged, what refers to   *)
(* what, and which refusals an escalation counted.                         *)
(***************************************************************************)
EXTENDS NativeAudit, FiniteSetTheorems, FunctionTheorems, SequenceTheorems, WellFoundedInduction, TLAPS

-----------------------------------------------------------------------------
(* The invariants.                                                          *)

Hashes == Nat \X Int
ThreadTypes == {"GUARD", "ANCHOR", "GUARD_ESCALATION", "ANCHOR_ANOMALY", "SELF_CHECK_FAILED"}
Types == {"NONE", "GENESIS", "BOOT", "RECOVERY"} \cup ThreadTypes
RecordSet == [type : Types, boot : Nat, seq : Nat, prev : Hashes, ref : Hashes, rot : BOOLEAN]
CellSet == [part : {"cut", "head", "body", "junk"}, rec : RecordSet]
WriterSet == [open : BOOLEAN, boot : Nat, seq : Nat, head : Hashes, recovered : BOOLEAN]
WritingSet == [by : Thread \cup {Main, Nobody}, rec : RecordSet]
PcSet == {"idle", "writing", "refused", "clocked", "anchored", "ANCHOR", "GUARD_ESCALATION",
          "ANCHOR_ANOMALY", "SELF_CHECK_FAILED"}
ArgSet == [type : {"NONE"}, ref : Hashes, ret : Hashes, time : Nat]
GuardSet == [time : Nat, ref : Hashes]
Openings == {<<>>, <<"GENESIS", "BOOT">>, <<"BOOT">>, <<"BOOT", "RECOVERY">>, <<"RECOVERY">>}

LogTypes == /\ file \in Seq(CellSet)
          /\ writer \in WriterSet
          /\ todo \in Openings
          /\ up \in BOOLEAN
          /\ writing \in WritingSet
          /\ faults \in [Faults -> Nat]
          /\ acked \in Seq(RecordSet)
QueueTypes == /\ pc \in [Thread -> PcSet]
          /\ arg \in [Thread -> ArgSet]
          /\ guards \in Seq(GuardSet)
          /\ failures \in Nat
          /\ stored \in Hashes
          /\ clock \in Nat
          /\ escalations \in Seq(Seq(GuardSet))
TypesInv == LogTypes /\ QueueTypes

\* The file without the record that is being written.
Settled == IF writing.by = Nobody THEN file ELSE Front(file)

\* Where the process is, and whose record is on its way to the disk.
ControlInv ==
    /\ up <=> (writer.open /\ todo = <<>>)
    /\ ~writer.open => /\ todo = <<>> /\ writing.by = Nobody
                       /\ ~writer.recovered
    /\ file # <<>> \/ writer.open => writer.boot > 0
    /\ writer.open => /\ writer.seq = 0 <=> todo = <<"GENESIS", "BOOT">>
                      /\ writer.seq = 0 => writer.head = Zero32
    /\ writing.by = Main => /\ ~up /\ writing.rec.type = Head(todo)
    /\ writing.by \in Thread => /\ up /\ writing.rec.type \in ThreadTypes
    /\ writing.by = Nobody => writing.rec = NoRecord
    /\ writing.by # Nobody =>
          /\ file # <<>> /\ Last(file) = Cell("cut", writing.rec)
          /\ writer.open
          /\ writing.rec.boot = writer.boot /\ writing.rec.seq = writer.seq
          /\ writing.rec.prev = writer.head /\ ~writing.rec.rot

\* Records are numbered within their boot, so that a hash names one of them.
Known(h) == \E i \in 1..Len(acked) : h = Hash(acked[i])
NumberInv ==
    /\ \A i \in 1..Len(acked) :
          /\ acked[i].boot \in 1..writer.boot /\ ~acked[i].rot
          /\ writer.open /\ acked[i].boot = writer.boot => acked[i].seq < writer.seq
    /\ \A i, j \in 1..Len(acked) : i < j =>
          \/ acked[i].boot < acked[j].boot
          \/ acked[i].boot = acked[j].boot /\ acked[i].seq < acked[j].seq
    /\ up => Known(writer.head)

\* What is referred to was written before.
RefersOk(type, ref) == (ref # Zero32 \/ type = "ANCHOR") => Known(ref)
ReferenceInv ==
    /\ RefersOk(writing.rec.type, writing.rec.ref)
    /\ \A i \in 1..Len(acked) : (acked[i].ref # Zero32 \/ acked[i].type = "ANCHOR") =>
          \E j \in 1..(i - 1) : acked[i].ref = Hash(acked[j])

\* A recovery is recorded after the boot that made it.
RecoveryInv ==
    /\ \A i \in 1..Len(acked) : acked[i].type = "RECOVERY" =>
          i > 1 /\ acked[i - 1].type = "BOOT" /\ acked[i - 1].boot = acked[i].boot
    /\ todo = <<"RECOVERY">> => /\ acked # <<>>
                                /\ acked[Len(acked)].type = "BOOT"
                                /\ acked[Len(acked)].boot = writer.boot
    /\ writer.recovered /\ ~up => todo \in {<<"BOOT", "RECOVERY">>, <<"RECOVERY">>}
    /\ writer.recovered /\ up =>
          \E i \in 1..(Len(acked) - 1) : /\ acked[i].type = "BOOT" /\ acked[i].boot = writer.boot
                                         /\ acked[i + 1].type = "RECOVERY"

\* What the threads hold is on record; and they accuse the chain of nothing,
\* unless a record rotted.
ThreadInv ==
    /\ stored # Zero32 => Known(stored)
    /\ \A t \in Thread : /\ pc[t] = "writing" <=> writing.by = t
                         /\ pc[t] # "idle" => up
                         /\ RefersOk(pc[t], arg[t].ref)
                         /\ pc[t] = "SELF_CHECK_FAILED" => faults["rot"] > 0
    /\ ~up => guards = <<>>

-----------------------------------------------------------------------------
\* A refusal on record; and the threads that have one to count.
Refusals(recs) == {Hash(recs[i]) : i \in {j \in 1..Len(recs) : recs[j].type = "GUARD"}}
IsRefusal(h) == h \in Refusals(acked)
Noting(t) == pc[t] \in {"refused", "clocked"}

\* A refusal is in one place: with its thread, in the queue or in an escalation.
PlaceInv ==
    /\ \A t \in Thread : Noting(t) =>
          /\ IsRefusal(arg[t].ret)
          /\ \A u \in Thread \ {t} : Noting(u) => arg[u].ret # arg[t].ret
          /\ \A i \in 1..Len(guards) : guards[i].ref # arg[t].ret
          /\ \A k \in 1..Len(escalations) : arg[t].ret \notin Counted(escalations[k])
    /\ \A i \in 1..Len(guards) :
          /\ IsRefusal(guards[i].ref)
          /\ \A j \in 1..Len(guards) : guards[i].ref = guards[j].ref => i = j
          /\ \A k \in 1..Len(escalations) : guards[i].ref \notin Counted(escalations[k])
    /\ \A k \in 1..Len(escalations) :
          /\ \A h \in Counted(escalations[k]) : IsRefusal(h)
          /\ \A l \in 1..(k - 1) : Counted(escalations[k]) \cap Counted(escalations[l]) = {}

\* The queue is not in the order of its times, as its threads may be held up; but
\* none is older than one before it by more than that, and none is younger by
\* more than the window than one that is younger than all before it.
Spread(queue) ==
    \A i, j \in 1..Len(queue) : i < j =>
        /\ queue[j].time >= queue[i].time - MaxStall
        /\ (\A k \in 1..(i - 1) : queue[k].time < queue[i].time) =>
               queue[j].time <= queue[i].time + GuardWindow
TimeInv ==
    /\ \A t \in Thread : /\ arg[t].time <= clock
                         /\ pc[t] = "clocked" => arg[t].time >= clock - MaxStall
    /\ \A i \in 1..Len(guards) : guards[i].time <= clock
    /\ Spread(guards)
    /\ Len(guards) < GuardThreshold

\* What an escalation counted, and what was or will be recorded of it.
Escalates(escs) == {Last(escs[k]).ref : k \in 1..Len(escs)}
Escalated(h) == h \in Escalates(escalations)
Counts(e) == /\ Len(e) >= GuardThreshold
             /\ \A i, j \in 1..Len(e) : /\ e[i].ref = e[j].ref => i = j
                                        /\ e[i].time - e[j].time <= GuardWindow + MaxStall
EscalationInv ==
    /\ \A k \in 1..Len(escalations) : Counts(escalations[k])
    /\ \A t \in Thread : pc[t] = "GUARD_ESCALATION" => Escalated(arg[t].ref)
    /\ writing.rec.type = "GUARD_ESCALATION" => Escalated(writing.rec.ref)
    /\ \A i \in 1..Len(acked) :
          acked[i].type = "GUARD_ESCALATION" => Escalated(acked[i].ref)

-----------------------------------------------------------------------------
\* The records up to the place where the walk stops, and the header there.
Lesser(a, b) == IF a < b THEN a ELSE b
Reach(f) == RecordsTo(f, Lesser(Stop(f), Len(f)))

\* They are linked, but for those behind a record that rotted.
Linked(recs) ==
    /\ \A i \in 2..Len(recs) : /\ recs[i].prev = Hash(recs[i - 1]) \/ recs[i - 1].rot
                               /\ recs[i].seq = recs[i - 1].seq + 1
    /\ \A i \in 1..Len(recs) : recs[i].type = "GENESIS" <=> i = 1
    /\ recs # <<>> => recs[1].prev = Zero32

\* A record with these fields may follow them.
Follows(recs, seq, head) ==
    IF recs = <<>> THEN seq = 0 /\ head = Zero32
    ELSE /\ seq = recs[Len(recs)].seq + 1
         /\ head = Hash(recs[Len(recs)]) \/ recs[Len(recs)].rot

WalkInv ==
    /\ Linked(Reach(file))
    /\ writer.open /\ WellFormed(Settled) => Follows(Reach(Settled), writer.seq, writer.head)
    /\ faults["rot"] = 0 => \A i \in 1..Len(file) : ~file[i].rec.rot

\* A record before and after it rotted.
Clean(r) == [r EXCEPT !.rot = FALSE]
Rotten(r) == [r EXCEPT !.rot = TRUE]
Unrotted(recs) == [i \in 1..Len(recs) |-> Clean(recs[i])]

\* While no write was cut short unseen, nothing is behind the place where the walk stops.
NoLossInv ==
    NoShort => /\ writer.open => WellFormed(Settled)
               /\ Stop(file) >= Len(file)
               /\ Unrotted(Records(file)) = acked

\* Nor is any accusation on record.
AccusedInv ==
    faults["rot"] = 0 => /\ writing.rec.type # "SELF_CHECK_FAILED"
                         /\ \A i \in 1..Len(acked) : acked[i].type # "SELF_CHECK_FAILED"

Deaths == faults["crash"] + faults["raise"]
Kept == \A i \in 1..Len(acked) :
            \E k \in 1..Len(Records(file)) : Hash(acked[i]) = Hash(Clean(Records(file)[k]))
Told == \E k \in 1..Len(Records(file)) : Records(file)[k].type = "RECOVERY"

\* How a record that was lost shows, with one death at most.
SilenceInv ==
    /\ writer.boot <= Deaths + (IF writer.open THEN 1 ELSE 0)
    /\ Deaths <= 1 => \/ Kept
                      \/ ~WellFormed(Settled)
                      \/ writer.open /\ writer.boot = 2 /\ todo \in {<<"BOOT", "RECOVERY">>, <<"RECOVERY">>}
                      \/ writer.open /\ writer.boot = 2 /\ Told

LogInv == ControlInv /\ NumberInv /\ ReferenceInv /\ RecoveryInv /\ ThreadInv
QueueInv == PlaceInv /\ TimeInv /\ EscalationInv
FileInv == WalkInv /\ NoLossInv /\ AccusedInv /\ SilenceInv
-----------------------------------------------------------------------------
(* The walk over a file, one cell at a time.                                *)

\* A set of natural numbers that is not empty has a least member.
LEMMA LeastNat ==
    ASSUME NEW S, S \subseteq Nat, S # {}
    PROVE  \E x \in S : \A y \in S : x <= y
<1> DEFINE Less == {ss \in Nat \X Nat : ss[1] < ss[2]}
<1>1. IsWellFoundedOn(Less, Nat)
  BY NatLessThanWellFounded DEF OpToRel
<1> HIDE DEF Less
<1>2. \E x \in S : \A y \in S : ~(<<y, x>> \in Less)
  BY <1>1, WFMin
<1>3. PICK x \in S : \A y \in S : ~(<<y, x>> \in Less)
  BY <1>2
<1>4. \A y \in S : ~(y < x)
  BY <1>3 DEF Less
<1> QED BY <1>4

\* Each number up to the size of a set of positions is the rank of one of them.
LEMMA Ranked ==
    ASSUME NEW n \in Nat, NEW I, I \subseteq 1..n, NEW k \in 1..Cardinality(I)
    PROVE  \E i \in I : /\ Cardinality(I \cap (1..i)) = k
                        /\ \A j \in I : Cardinality(I \cap (1..j)) = k => j = i
<1>1. IsFiniteSet(I) /\ Cardinality(I) \in Nat
  <2>1. IsFiniteSet(1..n)
    BY FS_Interval
  <2> QED BY <2>1, FS_Subset, FS_CardinalityType
<1>2. \A T \in SUBSET I : IsFiniteSet(T) /\ Cardinality(T) \in Nat
  BY <1>1, FS_Subset, FS_CardinalityType
<1> DEFINE c(i) == Cardinality(I \cap (1..i))
           S == {i \in 0..n : c(i) >= k}
<1>3. \A i : c(i) \in Nat
  <2> TAKE i
  <2>1. I \cap (1..i) \in SUBSET I
    OBVIOUS
  <2> QED BY <1>2, <2>1
<1>4. n \in S
  <2>1. I \cap (1..n) = I
    OBVIOUS
  <2> QED BY <1>1, <2>1
<1>5. PICK m \in S : \A y \in S : m <= y
  <2>1. S # {}
    BY <1>4
  <2>2. S \subseteq Nat
    OBVIOUS
  <2> HIDE DEF S
  <2> QED BY <2>1, <2>2, LeastNat
<1>6. m # 0
  <2>1. I \cap (1..0) = {}
    OBVIOUS
  <2>2. c(0) = 0
    BY <2>1, FS_EmptySet
  <2>3. c(m) >= k
    BY <1>5
  <2> QED BY <2>2, <2>3
<1>7. m \in 1..n /\ c(m) >= k /\ c(m - 1) < k
  <2>1. m \in 1..n /\ c(m) >= k
    BY <1>5, <1>6
  <2>2. m - 1 \in 0..n /\ ~(m <= m - 1)
    BY <2>1
  <2>3. m - 1 \notin S
    BY <1>5, <2>2
  <2>4. ~(c(m - 1) >= k)
    BY <2>2, <2>3
  <2>5. c(m - 1) \in Nat
    BY <1>3
  <2> QED BY <2>1, <2>4, <2>5
<1>8. m \in I /\ c(m) = k
  <2>1. I \cap (1..m) = (I \cap (1..(m - 1))) \cup (I \cap {m})
    BY <1>7
  <2>2. CASE m \notin I
    <3>1. I \cap (1..m) = I \cap (1..(m - 1))
      BY <2>1, <2>2
    <3>2. c(m) = c(m - 1)
      BY <3>1
    <3>3. c(m) \in Nat
      BY <1>3
    <3> QED BY <1>7, <3>2, <3>3
  <2>3. CASE m \in I
    <3>1. I \cap (1..m) = (I \cap (1..(m - 1))) \cup {m}
      BY <2>1, <2>3
    <3>2. IsFiniteSet(I \cap (1..(m - 1))) /\ m \notin I \cap (1..(m - 1))
      <4>1. I \cap (1..(m - 1)) \in SUBSET I
        OBVIOUS
      <4> QED BY <1>2, <1>7, <4>1
    <3>3. c(m) = c(m - 1) + 1
      BY <3>1, <3>2, FS_AddElement
    <3>4. c(m) \in Nat /\ c(m - 1) \in Nat
      BY <1>3
    <3> QED BY <1>7, <2>3, <3>3, <3>4
  <2> QED BY <2>2, <2>3
<1>9. ASSUME NEW j \in I, c(j) = k PROVE j = m
  <2>1. ASSUME NEW a \in I, NEW b \in I, a < b PROVE c(a) # c(b)
    <3>1. I \cap (1..a) \in SUBSET (I \cap (1..b))
      BY <2>1
    <3>2. b \in I \cap (1..b) /\ b \notin I \cap (1..a)
      BY <2>1
    <3>3. IsFiniteSet(I \cap (1..b))
      <4>1. I \cap (1..b) \in SUBSET I
        OBVIOUS
      <4> QED BY <1>2, <4>1
    <3>4. Cardinality(I \cap (1..b)) = Cardinality(I \cap (1..a)) => I \cap (1..b) = I \cap (1..a)
      BY <3>1, <3>3, FS_Subset
    <3> QED BY <3>2, <3>4
  <2>2. j \in Nat /\ m \in Nat
    BY <1>7
  <2> HIDE DEF c
  <2> QED BY <1>8, <1>9, <2>1, <2>2
<1> QED BY <1>8, <1>9

\* The headers among the first n cells.
Heads(f, n) == {i \in 1..n : f[i].part = "head"}
Nth(I, k) == CHOOSE i \in I : Cardinality(I \cap (1..i)) = k

LEMMA NthFacts ==
    ASSUME NEW n \in Nat, NEW I, I \subseteq 1..n, NEW k \in 1..Cardinality(I)
    PROVE  /\ Nth(I, k) \in I /\ Cardinality(I \cap (1..Nth(I, k))) = k
           /\ \A j \in I : Cardinality(I \cap (1..j)) = k => j = Nth(I, k)
BY Ranked DEF Nth

LEMMA HeadsFinite ==
    ASSUME NEW f, NEW n \in Nat
    PROVE  /\ Heads(f, n) \subseteq 1..n
           /\ IsFiniteSet(Heads(f, n)) /\ Cardinality(Heads(f, n)) \in Nat
<1>1. IsFiniteSet(1..n) /\ Heads(f, n) \in SUBSET (1..n)
  BY FS_Interval DEF Heads
<1> QED BY <1>1, FS_Subset, FS_CardinalityType

LEMMA RecordsToIs ==
    ASSUME NEW f, NEW n
    PROVE  RecordsTo(f, n) = [k \in 1..Cardinality(Heads(f, n)) |-> f[Nth(Heads(f, n), k)].rec]
BY DEF RecordsTo, Heads, Nth

LEMMA RecordsToType ==
    ASSUME NEW T, NEW f, NEW n \in Nat, \A i \in 1..n : f[i].rec \in T
    PROVE  /\ RecordsTo(f, n) \in Seq(T)
           /\ Len(RecordsTo(f, n)) = Cardinality(Heads(f, n))
           /\ \A k \in 1..Len(RecordsTo(f, n)) : \E i \in Heads(f, n) : RecordsTo(f, n)[k] = f[i].rec
<1> DEFINE I == Heads(f, n)
           c == Cardinality(I)
<1>1. I \subseteq 1..n /\ c \in Nat
  BY HeadsFinite
<1>2. RecordsTo(f, n) = [k \in 1..c |-> f[Nth(I, k)].rec]
  BY RecordsToIs
<1> HIDE DEF I, c
<1>3. \A k \in 1..c : Nth(I, k) \in I
  BY <1>1, NthFacts DEF c
<1>4. \A k \in 1..c : f[Nth(I, k)].rec \in T
  BY <1>1, <1>3
<1>5. RecordsTo(f, n) \in [1..c -> T]
  BY <1>2, <1>4
<1>6. RecordsTo(f, n) \in Seq(T) /\ Len(RecordsTo(f, n)) = c
  BY <1>1, <1>5
<1>7. \A k \in 1..c : \E i \in I : RecordsTo(f, n)[k] = f[i].rec
  BY <1>2, <1>3
<1> QED BY <1>6, <1>7 DEF I, c

\* Only the headers matter, and what they head.
LEMMA RecordsSame ==
    ASSUME NEW f, NEW g, NEW n \in Nat,
           \A i \in 1..n : (f[i].part = "head" <=> g[i].part = "head")
                           /\ (f[i].part = "head" => f[i].rec = g[i].rec)
    PROVE  RecordsTo(f, n) = RecordsTo(g, n)
<1> DEFINE I == Heads(f, n)
<1>1. I = Heads(g, n)
  BY DEF Heads
<1>2. I \subseteq 1..n
  BY HeadsFinite
<1>3. \A k \in 1..Cardinality(I) : Nth(I, k) \in I
  <2> HIDE DEF I
  <2> QED BY <1>2, NthFacts
<1>4. \A k \in 1..Cardinality(I) : f[Nth(I, k)].rec = g[Nth(I, k)].rec
  BY <1>3 DEF Heads
<1>5. /\ RecordsTo(f, n) = [k \in 1..Cardinality(I) |-> f[Nth(I, k)].rec]
      /\ RecordsTo(g, n) = [k \in 1..Cardinality(I) |-> g[Nth(I, k)].rec]
  BY <1>1, RecordsToIs
<1> HIDE DEF I
<1> QED BY <1>4, <1>5

LEMMA RecordsNone == \A f : RecordsTo(f, 0) = <<>>
<1> TAKE f
<1>1. Heads(f, 0) = {}
  BY DEF Heads
<1>2. Cardinality(Heads(f, 0)) = 0
  BY <1>1, FS_EmptySet
<1>3. RecordsTo(f, 0) = [k \in 1..0 |-> f[Nth(Heads(f, 0), k)].rec]
  BY <1>2, RecordsToIs
<1> QED BY <1>3

\* Cells that are no headers hold no records.
LEMMA RecordsSkip ==
    ASSUME NEW f, NEW m \in Nat, NEW n \in Nat, m <= n,
           \A i \in (m + 1)..n : f[i].part # "head"
    PROVE  RecordsTo(f, n) = RecordsTo(f, m)
<1>1. Heads(f, n) = Heads(f, m)
  BY DEF Heads
<1> QED BY <1>1, RecordsToIs

\* A header adds its record.
LEMMA RecordsNext ==
    ASSUME NEW T, NEW f, NEW n \in Nat, \A i \in 1..(n + 1) : f[i].rec \in T,
           f[n + 1].part = "head"
    PROVE  RecordsTo(f, n + 1) = Append(RecordsTo(f, n), f[n + 1].rec)
<1> DEFINE I == Heads(f, n)
           J == Heads(f, n + 1)
           c == Cardinality(I)
<1>1. J = I \cup {n + 1} /\ n + 1 \notin I /\ J \subseteq 1..(n + 1)
  BY DEF Heads
<1>2. IsFiniteSet(I) /\ c \in Nat /\ I \subseteq 1..n
  BY HeadsFinite
<1> HIDE DEF I, J
<1>3. Cardinality(J) = c + 1
  BY <1>1, <1>2, FS_AddElement
<1>11. \A k \in 1..c : Nth(I, k) \in I /\ Cardinality(I \cap (1..Nth(I, k))) = k
  BY <1>2, NthFacts
<1>12. \A k \in 1..(c + 1) : \A j \in J : Cardinality(J \cap (1..j)) = k => j = Nth(J, k)
  <2>1. n + 1 \in Nat /\ J \subseteq 1..(n + 1)
    BY <1>1
  <2> DEFINE m == n + 1
  <2>2. m \in Nat /\ J \subseteq 1..m
    BY <2>1
  <2> HIDE DEF m
  <2>3. \A k \in 1..Cardinality(J) : \A j \in J : Cardinality(J \cap (1..j)) = k => j = Nth(J, k)
    BY <2>2, NthFacts
  <2> QED BY <1>3, <2>3
<1>4. ASSUME NEW k \in 1..c PROVE Nth(J, k) = Nth(I, k)
  <2>1. Nth(I, k) \in I /\ Cardinality(I \cap (1..Nth(I, k))) = k
    BY <1>11
  <2>2. \A i \in I : J \cap (1..i) = I \cap (1..i) /\ i \in J
    BY <1>1, <1>2
  <2>3. k \in 1..(c + 1)
    BY <1>2
  <2> QED BY <1>12, <2>1, <2>2, <2>3
<1>5. Nth(J, c + 1) = n + 1
  <2>1. J \cap (1..(n + 1)) = J
    BY <1>1
  <2>2. c + 1 \in 1..(c + 1) /\ n + 1 \in J
    BY <1>1, <1>2
  <2> QED BY <1>3, <1>12, <2>1, <2>2
<1>6. /\ RecordsTo(f, n) = [k \in 1..c |-> f[Nth(I, k)].rec]
      /\ RecordsTo(f, n + 1) = [k \in 1..(c + 1) |-> f[Nth(J, k)].rec]
  BY <1>3, RecordsToIs DEF I, J
<1>7. /\ RecordsTo(f, n) \in Seq(T) /\ Len(RecordsTo(f, n)) = c
      /\ RecordsTo(f, n + 1) \in Seq(T) /\ Len(RecordsTo(f, n + 1)) = c + 1
  <2>1. n + 1 \in Nat /\ \A i \in 1..n : f[i].rec \in T
    OBVIOUS
  <2> QED BY <1>3, <2>1, RecordsToType DEF I, J
<1>8. f[n + 1].rec \in T
  OBVIOUS
<1> HIDE DEF c
<1>9. /\ Append(RecordsTo(f, n), f[n + 1].rec) \in Seq(T)
      /\ Len(Append(RecordsTo(f, n), f[n + 1].rec)) = c + 1
      /\ \A k \in 1..c : Append(RecordsTo(f, n), f[n + 1].rec)[k] = RecordsTo(f, n)[k]
      /\ Append(RecordsTo(f, n), f[n + 1].rec)[c + 1] = f[n + 1].rec
  BY <1>7, <1>8, AppendProperties
<1>10. \A k \in 1..(c + 1) :
          RecordsTo(f, n + 1)[k] = Append(RecordsTo(f, n), f[n + 1].rec)[k]
  <2> TAKE k \in 1..(c + 1)
  <2>1. CASE k = c + 1
    BY <1>5, <1>6, <1>9, <2>1
  <2>2. CASE k # c + 1
    <3>1. k \in 1..c
      BY <1>2, <2>2
    <3>2. RecordsTo(f, n + 1)[k] = f[Nth(J, k)].rec /\ RecordsTo(f, n)[k] = f[Nth(I, k)].rec
      BY <1>6, <3>1
    <3> QED BY <1>4, <1>9, <3>1, <3>2
  <2> QED BY <2>1, <2>2
<1> QED BY <1>7, <1>9, <1>10, SeqEqual

-----------------------------------------------------------------------------
(* Where the walk stops.                                                    *)

LEMMA StopFacts ==
    ASSUME NEW f \in Seq(CellSet)
    PROVE  /\ Stop(f) \in 1..(Len(f) + 1)
           /\ \A i \in 1..(Stop(f) - 1) : Complete(f, i)
           /\ Stop(f) <= Len(f) => ~Complete(f, Stop(f))
           /\ \A n \in 1..(Len(f) + 1) :
                 (\A i \in 1..(n - 1) : Complete(f, i)) /\ (n <= Len(f) => ~Complete(f, n))
                    => n = Stop(f)
<1> DEFINE gaps == {i \in 1..Len(f) : ~Complete(f, i)}
<1>1. Len(f) \in Nat /\ gaps \subseteq Nat
  OBVIOUS
<1>2. Stop(f) = IF gaps = {} THEN Len(f) + 1 ELSE CHOOSE i \in gaps : \A j \in gaps : i <= j
  BY DEF Stop
<1>3. CASE gaps = {}
  <2>1. Stop(f) = Len(f) + 1
    BY <1>2, <1>3
  <2>2. \A i \in 1..Len(f) : Complete(f, i)
    BY <1>3
  <2> QED BY <1>1, <2>1, <2>2
<1>4. CASE gaps # {}
  <2>1. Stop(f) \in gaps /\ \A j \in gaps : Stop(f) <= j
    <3> HIDE DEF gaps
    <3> QED BY <1>1, <1>2, <1>4, LeastNat
  <2>2. Stop(f) \in 1..Len(f) /\ ~Complete(f, Stop(f))
    BY <2>1
  <2>3. \A i \in 1..(Stop(f) - 1) : Complete(f, i)
    <3> TAKE i \in 1..(Stop(f) - 1)
    <3>1. i \in 1..Len(f) /\ ~(Stop(f) <= i)
      BY <1>1, <2>2
    <3> QED BY <2>1, <3>1
  <2>4. ASSUME NEW n \in 1..(Len(f) + 1), \A i \in 1..(n - 1) : Complete(f, i),
               n <= Len(f) => ~Complete(f, n)
        PROVE  n = Stop(f)
    <3>1. ~(Stop(f) < n)
      BY <1>1, <2>2, <2>4
    <3>2. ~(n < Stop(f))
      BY <1>1, <2>2, <2>3, <2>4
    <3> QED BY <1>1, <2>2, <3>1, <3>2
  <2> QED BY <1>1, <2>2, <2>3, <2>4
<1> QED BY <1>3, <1>4

\* A file that agrees with another up to where that one stops.
LEMMA StopOf ==
    ASSUME NEW f \in Seq(CellSet), NEW n \in 1..(Len(f) + 1),
           \A i \in 1..(n - 1) : Complete(f, i), n <= Len(f) => ~Complete(f, n)
    PROVE  Stop(f) = n
BY StopFacts

-----------------------------------------------------------------------------
(* What the walk makes of a file that grows.                                *)

\* h begins with the cells of f, and the cell behind them is no body.
Extends(f, h) == /\ f \in Seq(CellSet) /\ h \in Seq(CellSet) /\ Len(f) < Len(h)
                 /\ \A i \in 1..Len(f) : h[i] = f[i]
                 /\ h[Len(f) + 1].part \in {"cut", "head"}

LEMMA CellFacts ==
    ASSUME NEW f \in Seq(CellSet)
    PROVE  /\ Len(f) \in Nat
           /\ \A i \in 1..Len(f) : f[i] \in CellSet /\ f[i].rec \in RecordSet
<1>1. \A i \in 1..Len(f) : f[i] \in CellSet
  BY ElementOfSeq
<1> QED BY <1>1 DEF CellSet

LEMMA SameWhole ==
    ASSUME NEW f, NEW h, Extends(f, h)
    PROVE  \A i \in 1..Len(f) : Complete(h, i) <=> Complete(f, i)
<1> TAKE i \in 1..Len(f)
<1>1. Len(f) \in Nat /\ Len(h) \in Nat /\ Len(f) < Len(h) /\ h[i] = f[i]
  BY DEF Extends
<1>2. CASE i < Len(f)
  <2>1. h[i + 1] = f[i + 1]
    BY <1>1, <1>2 DEF Extends
  <2> QED BY <1>1, <1>2, <2>1 DEF Complete
<1>3. CASE i = Len(f)
  <2>1. h[i + 1].part \notin {"body", "junk"}
    BY <1>3 DEF Extends
  <2> QED BY <1>1, <1>3, <2>1 DEF Complete
<1> QED BY <1>1, <1>2, <1>3

LEMMA SameRecords ==
    ASSUME NEW f, NEW h, f \in Seq(CellSet), h \in Seq(CellSet), NEW n \in Nat,
           n <= Len(f), \A i \in 1..n : h[i] = f[i]
    PROVE  RecordsTo(h, n) = RecordsTo(f, n)
BY RecordsSame

LEMMA WellFormedFacts ==
    ASSUME NEW f \in Seq(CellSet)
    PROVE  /\ WellFormed(f) <=> Stop(f) = Len(f) + 1
           /\ WellFormed(f) <=> \A i \in 1..Len(f) : Complete(f, i)
           /\ WellFormed(f) => /\ Records(f) = RecordsTo(f, Len(f))
                               /\ Reach(f) = RecordsTo(f, Len(f))
           /\ ~WellFormed(f) => Stop(f) \in 1..Len(f) /\ Reach(f) = RecordsTo(f, Stop(f))
<1>1. /\ Len(f) \in Nat /\ Stop(f) \in 1..(Len(f) + 1)
      /\ \A i \in 1..(Stop(f) - 1) : Complete(f, i)
      /\ Stop(f) <= Len(f) => ~Complete(f, Stop(f))
  BY StopFacts
<1>2. WellFormed(f) <=> Stop(f) = Len(f) + 1
  BY <1>1 DEF WellFormed
<1>3. WellFormed(f) <=> \A i \in 1..Len(f) : Complete(f, i)
  BY <1>1, <1>2
<1>4. ASSUME WellFormed(f) PROVE Records(f) = RecordsTo(f, Len(f)) /\ Reach(f) = RecordsTo(f, Len(f))
  <2>1. ~Swallows(f) /\ Stop(f) - 1 = Len(f) /\ Lesser(Stop(f), Len(f)) = Len(f)
    BY <1>1, <1>2, <1>4 DEF Swallows, Lesser
  <2> QED BY <2>1 DEF Records, Reach
<1>5. ASSUME ~WellFormed(f) PROVE Stop(f) \in 1..Len(f) /\ Reach(f) = RecordsTo(f, Stop(f))
  <2>1. Stop(f) \in 1..Len(f) /\ Lesser(Stop(f), Len(f)) = Stop(f)
    BY <1>1, <1>5 DEF WellFormed, Lesser
  <2> QED BY <2>1 DEF Reach
<1> QED BY <1>2, <1>3, <1>4, <1>5

LEMMA RecordsTypes ==
    ASSUME NEW f \in Seq(CellSet)
    PROVE  /\ Reach(f) \in Seq(RecordSet) /\ Records(f) \in Seq(RecordSet)
           /\ \A k \in 1..Len(Reach(f)) : \E i \in 1..Len(f) : Reach(f)[k] = f[i].rec
           /\ \A k \in 1..Len(Records(f)) : \E i \in 1..Len(f) : Records(f)[k] = f[i].rec
<1>1. Len(f) \in Nat /\ Stop(f) \in 1..(Len(f) + 1)
  BY StopFacts
<1>2. ASSUME NEW n \in 0..Len(f)
      PROVE  /\ RecordsTo(f, n) \in Seq(RecordSet)
             /\ \A k \in 1..Len(RecordsTo(f, n)) : \E i \in 1..Len(f) : RecordsTo(f, n)[k] = f[i].rec
  <2>1. n \in Nat /\ \A i \in 1..n : f[i].rec \in RecordSet
    BY <1>1, CellFacts
  <2>2. Heads(f, n) \subseteq 1..n /\ 1..n \subseteq 1..Len(f)
    BY <1>1 DEF Heads
  <2>3. /\ RecordsTo(f, n) \in Seq(RecordSet)
        /\ \A k \in 1..Len(RecordsTo(f, n)) : \E i \in Heads(f, n) : RecordsTo(f, n)[k] = f[i].rec
    BY <2>1, RecordsToType
  <2> QED BY <2>2, <2>3
<1>3. \E n \in 0..Len(f) : Reach(f) = RecordsTo(f, n)
  <2>1. Lesser(Stop(f), Len(f)) \in 0..Len(f)
    BY <1>1 DEF Lesser
  <2> QED BY <2>1 DEF Reach
<1>4. \E n \in 0..Len(f) : Records(f) = RecordsTo(f, n)
  <2>1. (IF Swallows(f) THEN Stop(f) ELSE Stop(f) - 1) \in 0..Len(f)
    BY <1>1 DEF Swallows
  <2> QED BY <2>1 DEF Records
<1>5. PICK n \in 0..Len(f) : Reach(f) = RecordsTo(f, n)
  BY <1>3
<1>6. PICK m \in 0..Len(f) : Records(f) = RecordsTo(f, m)
  BY <1>4
<1>7. /\ Reach(f) \in Seq(RecordSet)
      /\ \A k \in 1..Len(Reach(f)) : \E i \in 1..Len(f) : Reach(f)[k] = f[i].rec
  BY <1>2, <1>5
<1>8. /\ Records(f) \in Seq(RecordSet)
      /\ \A k \in 1..Len(Records(f)) : \E i \in 1..Len(f) : Records(f)[k] = f[i].rec
  <2>1. /\ RecordsTo(f, m) \in Seq(RecordSet)
        /\ \A k \in 1..Len(RecordsTo(f, m)) : \E i \in 1..Len(f) : RecordsTo(f, m)[k] = f[i].rec
    BY <1>2
  <2> QED BY <1>6, <2>1, Zenon
<1> QED BY <1>7, <1>8

\* Where the walk stopped once it stops for ever.
LEMMA StaysBroken ==
    ASSUME NEW f, NEW h, Extends(f, h), ~WellFormed(f)
    PROVE  ~WellFormed(h) /\ Stop(h) = Stop(f) /\ Reach(h) = Reach(f)
<1>1. /\ f \in Seq(CellSet) /\ h \in Seq(CellSet) /\ Len(f) \in Nat /\ Len(h) \in Nat
      /\ Len(f) < Len(h) /\ \A i \in 1..Len(f) : h[i] = f[i]
  BY DEF Extends
<1>2. Stop(f) \in 1..Len(f) /\ Reach(f) = RecordsTo(f, Stop(f))
  BY <1>1, WellFormedFacts
<1>3. /\ \A i \in 1..(Stop(f) - 1) : Complete(f, i)
      /\ ~Complete(f, Stop(f))
  BY <1>1, <1>2, StopFacts
<1>4. /\ \A i \in 1..(Stop(f) - 1) : Complete(h, i)
      /\ ~Complete(h, Stop(f)) /\ Stop(f) \in 1..(Len(h) + 1)
  BY <1>1, <1>2, <1>3, SameWhole
<1>5. Stop(h) = Stop(f)
  BY <1>1, <1>4, StopOf
<1>6. ~WellFormed(h)
  BY <1>1, <1>2, <1>5 DEF WellFormed
<1>7. Reach(h) = RecordsTo(h, Stop(f))
  BY <1>1, <1>5, <1>6, WellFormedFacts
<1>8. RecordsTo(h, Stop(f)) = RecordsTo(f, Stop(f))
  BY <1>1, <1>2, SameRecords
<1> QED BY <1>2, <1>5, <1>6, <1>7, <1>8

\* A cell is missing at the end: what is before it is whole.
LEMMA StopsAtEnd ==
    ASSUME NEW f, NEW h, Extends(f, h), WellFormed(f), Len(h) = Len(f) + 1,
           ~Complete(h, Len(h))
    PROVE  /\ ~WellFormed(h) /\ Stop(h) = Len(h)
           /\ Records(h) = Records(f)
           /\ h[Len(h)].part = "cut" => Reach(h) = Reach(f)
           /\ h[Len(h)].part = "head" => Reach(h) = Append(Reach(f), h[Len(h)].rec)
<1>1. /\ f \in Seq(CellSet) /\ h \in Seq(CellSet) /\ Len(f) \in Nat /\ Len(h) \in Nat
      /\ Len(f) < Len(h) /\ \A i \in 1..Len(f) : h[i] = f[i]
  BY DEF Extends
<1>2. /\ \A i \in 1..Len(f) : Complete(f, i)
      /\ Records(f) = RecordsTo(f, Len(f)) /\ Reach(f) = RecordsTo(f, Len(f))
  BY <1>1, WellFormedFacts
<1>3. \A i \in 1..Len(f) : Complete(h, i)
  BY <1>2, SameWhole
<1>4. Stop(h) = Len(h)
  <2>1. Len(h) \in 1..(Len(h) + 1) /\ \A i \in 1..(Len(h) - 1) : Complete(h, i)
    BY <1>1, <1>3
  <2> QED BY <1>1, <2>1, StopOf
<1>5. ~WellFormed(h) /\ ~Swallows(h)
  BY <1>1, <1>4 DEF WellFormed, Swallows
<1>6. RecordsTo(h, Len(f)) = RecordsTo(f, Len(f))
  BY <1>1, SameRecords
<1>7. Records(h) = RecordsTo(h, Len(f))
  BY <1>1, <1>4, <1>5 DEF Records
<1>8. Reach(h) = RecordsTo(h, Len(f) + 1)
  BY <1>1, <1>4, <1>5, WellFormedFacts
<1>9. ASSUME h[Len(h)].part = "cut" PROVE Reach(h) = Reach(f)
  <2>1. Len(f) + 1 \in Nat /\ Len(f) <= Len(f) + 1 /\ \A i \in (Len(f) + 1)..(Len(f) + 1) : h[i].part # "head"
    BY <1>1, <1>9
  <2>2. RecordsTo(h, Len(f) + 1) = RecordsTo(h, Len(f))
    BY <1>1, <2>1, RecordsSkip
  <2> QED BY <1>2, <1>6, <1>8, <2>2
<1>10. ASSUME h[Len(h)].part = "head" PROVE Reach(h) = Append(Reach(f), h[Len(h)].rec)
  <2>1. \A i \in 1..(Len(f) + 1) : h[i].rec \in RecordSet
    BY <1>1, CellFacts
  <2>2. RecordsTo(h, Len(f) + 1) = Append(RecordsTo(h, Len(f)), h[Len(f) + 1].rec)
    <3>1. Len(f) \in Nat /\ h[Len(f) + 1].part = "head"
      BY <1>1, <1>10
    <3> QED BY <2>1, <3>1, RecordsNext
  <2> QED BY <1>2, <1>6, <1>8, <2>2
<1> QED BY <1>2, <1>4, <1>5, <1>6, <1>7, <1>9, <1>10

\* A record whose write has begun is no more than a cut header.
LEMMA WithCut ==
    ASSUME NEW f \in Seq(CellSet), NEW r \in RecordSet, NEW h, h = Append(f, Cell("cut", r))
    PROVE  /\ Extends(f, h) /\ h \in Seq(CellSet) /\ h # <<>>
           /\ Front(h) = f /\ Last(h) = Cell("cut", r) /\ Len(h) = Len(f) + 1
           /\ ~WellFormed(h) /\ Reach(h) = Reach(f)
           /\ WellFormed(f) => Stop(h) = Len(h) /\ Records(h) = Records(f)
<1>1. Cell("cut", r) \in CellSet /\ Cell("cut", r).part = "cut"
  BY DEF Cell, CellSet
<1>2. /\ h \in Seq(CellSet) /\ Len(f) \in Nat /\ Len(h) = Len(f) + 1
      /\ h[Len(h)] = Cell("cut", r) /\ \A i \in 1..Len(f) : h[i] = f[i]
  BY <1>1
<1>3. Extends(f, h)
  BY <1>1, <1>2 DEF Extends
<1>4. ~Complete(h, Len(h))
  BY <1>1, <1>2 DEF Complete
<1>5. h # <<>> /\ Front(h) = f /\ Last(h) = Cell("cut", r)
  BY <1>1, <1>2 DEF Front, Last
<1>6. CASE WellFormed(f)
  BY <1>1, <1>2, <1>3, <1>4, <1>5, <1>6, StopsAtEnd
<1>7. CASE ~WellFormed(f)
  BY <1>2, <1>3, <1>5, <1>7, StaysBroken
<1> QED BY <1>6, <1>7

\* h holds nothing but cells of f and of r.
Adds(f, r, h) == \A i \in 1..Len(h) : h[i].rec = r \/ \E j \in 1..Len(f) : h[i] = f[j]

\* A record that is written to its end is the last one of the walk.
LEMMA WithWritten ==
    ASSUME NEW f \in Seq(CellSet), NEW r \in RecordSet, NEW h, h = f \o Written(r)
    PROVE  /\ Extends(f, h) /\ h \in Seq(CellSet) /\ h # <<>>
           /\ Adds(f, r, h)
           /\ WellFormed(f) => /\ WellFormed(h)
                               /\ Reach(h) = Append(Reach(f), r)
                               /\ Records(h) = Append(Records(f), r)
           /\ ~WellFormed(f) => ~WellFormed(h) /\ Reach(h) = Reach(f)
<1> DEFINE n == Len(f)
<1>1. /\ Cell("head", r) \in CellSet /\ Cell("head", r).part = "head" /\ Cell("head", r).rec = r
      /\ Cell("body", r) \in CellSet /\ Cell("body", r).part = "body" /\ Cell("body", r).rec = r
  BY DEF Cell, CellSet
<1>2. n \in Nat
  OBVIOUS
<1>5. /\ Extends(f, h) /\ h \in Seq(CellSet) /\ Len(h) \in {n + 1, n + 2}
      /\ \A i \in 1..n : h[i] = f[i]
      /\ \A i \in 1..Len(h) : h[i].rec = r \/ \E j \in 1..Len(f) : h[i] = f[j]
      /\ h[n + 1].part = "head" /\ h[n + 1].rec = r
      /\ \A i \in (n + 1)..Len(h) : Complete(h, i)
      /\ RecordsTo(h, Len(h)) = RecordsTo(h, n + 1)
  <2>1. CASE HasBody(r)
    <3>1. h = f \o <<Cell("head", r), Cell("body", r)>>
      BY <2>1 DEF Written
    <3>2. /\ h \in Seq(CellSet) /\ Len(h) = n + 2 /\ \A i \in 1..n : h[i] = f[i]
          /\ h[n + 1] = Cell("head", r) /\ h[n + 2] = Cell("body", r)
      BY <1>1, <3>1
    <3>3. Extends(f, h)
      BY <1>1, <1>2, <3>2 DEF Extends
    <3>4. Complete(h, n + 1) /\ Complete(h, n + 2)
      BY <1>1, <1>2, <3>2 DEF Complete
    <3>5. RecordsTo(h, n + 2) = RecordsTo(h, n + 1)
      <4>1. /\ n + 1 \in Nat /\ n + 2 \in Nat /\ n + 1 <= n + 2
            /\ \A i \in ((n + 1) + 1)..(n + 2) : h[i].part # "head"
        BY <1>1, <1>2, <3>2
      <4> HIDE DEF n
      <4> QED BY <4>1, RecordsSkip
    <3>6. \A i \in (n + 1)..(n + 2) : i = n + 1 \/ i = n + 2
      BY <1>2
    <3>7. \A i \in 1..Len(h) : i \in 1..n \/ i = n + 1 \/ i = n + 2
      BY <1>2, <3>2
    <3> QED BY <1>1, <3>2, <3>3, <3>4, <3>5, <3>6, <3>7
  <2>2. CASE ~HasBody(r)
    <3>1. h = f \o <<Cell("head", r)>>
      BY <2>2 DEF Written
    <3>2. /\ h \in Seq(CellSet) /\ Len(h) = n + 1 /\ \A i \in 1..n : h[i] = f[i]
          /\ h[n + 1] = Cell("head", r)
      BY <1>1, <3>1
    <3>3. Extends(f, h)
      BY <1>1, <1>2, <3>2 DEF Extends
    <3>4. Complete(h, n + 1)
      BY <1>1, <1>2, <2>2, <3>2 DEF Complete
    <3>6. \A i \in (n + 1)..(n + 1) : i = n + 1
      BY <1>2
    <3>7. \A i \in 1..Len(h) : i \in 1..n \/ i = n + 1
      BY <1>2, <3>2
    <3> QED BY <1>1, <3>2, <3>3, <3>4, <3>6, <3>7
  <2> QED BY <2>1, <2>2
<1>6. h # <<>>
  BY <1>2, <1>5
<1>7. ASSUME WellFormed(f)
      PROVE  WellFormed(h) /\ Reach(h) = Append(Reach(f), r) /\ Records(h) = Append(Records(f), r)
  <2>1. \A i \in 1..n : Complete(h, i)
    <3>1. \A i \in 1..Len(f) : Complete(f, i)
      BY <1>7, WellFormedFacts
    <3> QED BY <1>5, <3>1, SameWhole
  <2>2. \A i \in 1..Len(h) : Complete(h, i)
    <3>1. \A i \in 1..Len(h) : i \in 1..n \/ i \in (n + 1)..Len(h)
      BY <1>2, <1>5
    <3> QED BY <1>5, <2>1, <3>1
  <2>3. WellFormed(h)
    BY <1>5, <2>2, WellFormedFacts
  <2>4. Records(h) = RecordsTo(h, Len(h)) /\ Reach(h) = RecordsTo(h, Len(h))
    BY <1>5, <2>3, WellFormedFacts
  <2>5. RecordsTo(h, n) = RecordsTo(f, n)
    <3>1. n \in Nat /\ n <= Len(f) /\ \A i \in 1..n : h[i] = f[i]
      BY <1>2, <1>5
    <3> HIDE DEF n
    <3> QED BY <1>5, <3>1, SameRecords
  <2>6. RecordsTo(h, n + 1) = Append(RecordsTo(h, n), h[n + 1].rec)
    <3>1. \A i \in 1..(n + 1) : h[i].rec \in RecordSet
      BY <1>2, <1>5, CellFacts
    <3> HIDE DEF n
    <3> QED BY <1>2, <1>5, <3>1, RecordsNext
  <2>7. Records(f) = RecordsTo(f, n) /\ Reach(f) = RecordsTo(f, n)
    BY <1>7, WellFormedFacts
  <2> QED BY <1>5, <2>3, <2>4, <2>5, <2>6, <2>7
<1>8. ASSUME ~WellFormed(f) PROVE ~WellFormed(h) /\ Reach(h) = Reach(f)
  BY <1>5, <1>8, StaysBroken
<1> QED BY <1>5, <1>6, <1>7, <1>8 DEF Adds

\* A record whose write broke off is none that the walk returns.
LEMMA WithFragment ==
    ASSUME NEW f \in Seq(CellSet), NEW r \in RecordSet, NEW bytes \in Fragments(r),
           NEW h, h = f \o bytes
    PROVE  /\ Extends(f, h) /\ h \in Seq(CellSet) /\ h # <<>>
           /\ Adds(f, r, h)
           /\ ~WellFormed(h)
           /\ Reach(h) = Reach(f) \/ (WellFormed(f) /\ Reach(h) = Append(Reach(f), r))
           /\ WellFormed(f) => Stop(h) = Len(h) /\ Records(h) = Records(f)
<1>1. PICK part \in {"cut", "head"} : /\ bytes = <<Cell(part, r)>>
                                      /\ part = "head" => HasBody(r)
  BY DEF Fragments
<1>2. /\ Cell(part, r) \in CellSet /\ Cell(part, r).part = part /\ Cell(part, r).rec = r
  BY DEF Cell, CellSet
<1>3. /\ h \in Seq(CellSet) /\ Len(f) \in Nat /\ Len(h) = Len(f) + 1
      /\ h[Len(h)] = Cell(part, r) /\ \A i \in 1..Len(f) : h[i] = f[i]
  BY <1>1, <1>2
<1>4. Extends(f, h) /\ h # <<>>
  BY <1>2, <1>3 DEF Extends
<1>5. ~Complete(h, Len(h))
  BY <1>1, <1>2, <1>3 DEF Complete
<1>6. \A i \in 1..Len(h) : h[i].rec = r \/ \E j \in 1..Len(f) : h[i] = f[j]
  <2>1. \A i \in 1..Len(h) : i \in 1..Len(f) \/ i = Len(h)
    BY <1>3
  <2> QED BY <1>2, <1>3, <2>1
<1>7. ASSUME WellFormed(f)
      PROVE  /\ ~WellFormed(h) /\ Stop(h) = Len(h) /\ Records(h) = Records(f)
             /\ Reach(h) = Reach(f) \/ Reach(h) = Append(Reach(f), r)
  <2>1. Len(h) = Len(f) + 1 /\ h[Len(h)].part = part /\ h[Len(h)].rec = r
    BY <1>2, <1>3
  <2>2. /\ ~WellFormed(h) /\ Stop(h) = Len(h) /\ Records(h) = Records(f)
        /\ h[Len(h)].part = "cut" => Reach(h) = Reach(f)
        /\ h[Len(h)].part = "head" => Reach(h) = Append(Reach(f), h[Len(h)].rec)
    BY <1>4, <1>5, <1>7, <2>1, StopsAtEnd
  <2>3. CASE part = "cut"
    BY <2>1, <2>2, <2>3
  <2>4. CASE part = "head"
    BY <2>1, <2>2, <2>4
  <2> QED BY <2>2, <2>3, <2>4
<1>8. ASSUME ~WellFormed(f) PROVE ~WellFormed(h) /\ Reach(h) = Reach(f)
  BY <1>4, <1>8, StaysBroken
<1> QED BY <1>3, <1>4, <1>6, <1>7, <1>8 DEF Adds

\* What the walk returns is what it reached, or that without the record whose
\* body is missing.
LEMMA RecordsInReach ==
    ASSUME NEW f \in Seq(CellSet)
    PROVE  Records(f) = Reach(f) \/ \E r \in RecordSet : Reach(f) = Append(Records(f), r)
<1>1. /\ Len(f) \in Nat /\ Stop(f) \in 1..(Len(f) + 1)
      /\ Stop(f) <= Len(f) => ~Complete(f, Stop(f))
  BY StopFacts
<1>2. CASE WellFormed(f)
  BY <1>2, WellFormedFacts
<1>3. CASE ~WellFormed(f)
  <2>1. Stop(f) \in 1..Len(f) /\ Reach(f) = RecordsTo(f, Stop(f))
    BY <1>3, WellFormedFacts
  <2>2. CASE Swallows(f)
    BY <2>1, <2>2 DEF Records
  <2>3. CASE ~Swallows(f)
    <3>1. Records(f) = RecordsTo(f, Stop(f) - 1)
      BY <2>3 DEF Records
    <3>2. PICK n \in Nat : Stop(f) = n + 1
      <4>1. Stop(f) - 1 \in Nat /\ Stop(f) = (Stop(f) - 1) + 1
        BY <1>1
      <4> QED BY <4>1
    <3>3. n + 1 \in 1..Len(f) /\ Records(f) = RecordsTo(f, n) /\ Reach(f) = RecordsTo(f, n + 1)
      BY <2>1, <3>1, <3>2
    <3>4. CASE f[n + 1].part = "head"
      <4>1. \A i \in 1..(n + 1) : f[i].rec \in RecordSet
        BY <1>1, <3>3, CellFacts
      <4>2. RecordsTo(f, n + 1) = Append(RecordsTo(f, n), f[n + 1].rec)
        BY <3>2, <3>4, <4>1, RecordsNext
      <4>3. f[n + 1].rec \in RecordSet
        BY <3>2, <4>1
      <4> QED BY <3>3, <4>2, <4>3
    <3>5. CASE f[n + 1].part # "head"
      <4>1. n + 1 \in Nat /\ n <= n + 1 /\ \A i \in (n + 1)..(n + 1) : f[i].part # "head"
        BY <3>2, <3>5
      <4>2. RecordsTo(f, n + 1) = RecordsTo(f, n)
        BY <3>2, <4>1, RecordsSkip
      <4> QED BY <3>3, <4>2
    <3> QED BY <3>4, <3>5
  <2> QED BY <2>2, <2>3
<1> QED BY <1>2, <1>3

\* A resume cuts off no record that the walk returns.
LEMMA TruncatedFacts ==
    ASSUME NEW f \in Seq(CellSet), NEW g, g = Truncated(f)
    PROVE  /\ g \in Seq(CellSet) /\ WellFormed(g)
           /\ Records(g) = Records(f) /\ Reach(g) = Records(f)
           /\ \A i \in 1..Len(g) : \E j \in 1..Len(f) : g[i].rec = f[j].rec
<1> DEFINE s == Stop(f)
<1>1. /\ Len(f) \in Nat /\ s \in 1..(Len(f) + 1)
      /\ \A i \in 1..(s - 1) : Complete(f, i)
  BY StopFacts
<1>4. Stop(f) <= Len(f) => ~Complete(f, Stop(f))
  BY StopFacts
<1>2. CASE Swallows(f)
  <2>1. s < Len(f) /\ f[s].part = "head" /\ f[s + 1].part = "head"
    BY <1>2 DEF Swallows
  <2>2. g = Append(SubSeq(f, 1, s), Cell("junk", f[s].rec))
    BY <1>2 DEF Truncated
  <2>3. f[s].rec \in RecordSet
    BY <1>1, <2>1, CellFacts
  <2>4. Cell("junk", f[s].rec) \in CellSet
    BY <2>3 DEF Cell, CellSet
  <2>5. SubSeq(f, 1, s) \in Seq(CellSet) /\ Len(SubSeq(f, 1, s)) = s /\ \A i \in 1..s : SubSeq(f, 1, s)[i] = f[i]
    <3> HIDE DEF s
    <3> QED BY <1>1, <2>1
  <2>6. /\ g \in Seq(CellSet) /\ Len(g) = s + 1
        /\ \A i \in 1..s : g[i] = f[i]
        /\ g[s + 1] = Cell("junk", f[s].rec)
    <3> HIDE DEF s
    <3> QED BY <1>1, <2>2, <2>4, <2>5
  <2>7. g[s + 1].part = "junk" /\ g[s + 1].rec = f[s].rec
    BY <2>6 DEF Cell
  <2>8. \A i \in 1..Len(g) : Complete(g, i)
    <3> TAKE i \in 1..Len(g)
    <3>1. i \in 1..(s - 1) \/ i = s \/ i = s + 1
      BY <1>1, <2>6
    <3>2. CASE i \in 1..(s - 1)
      <4>1. Complete(f, i) /\ g[i] = f[i] /\ g[i + 1] = f[i + 1] /\ i < Len(g) /\ i < Len(f)
        BY <1>1, <2>1, <2>6, <3>2
      <4> QED BY <4>1 DEF Complete
    <3>3. CASE i = s
      BY <1>1, <2>1, <2>6, <2>7, <3>3 DEF Complete
    <3>4. CASE i = s + 1
      BY <2>7, <3>4 DEF Complete
    <3> QED BY <3>1, <3>2, <3>3, <3>4
  <2>9. WellFormed(g)
    BY <2>6, <2>8, WellFormedFacts
  <2>10. Records(g) = RecordsTo(g, s + 1) /\ Reach(g) = RecordsTo(g, s + 1)
    BY <2>6, <2>9, WellFormedFacts
  <2>11. RecordsTo(g, s + 1) = RecordsTo(g, s)
    <3>1. s \in Nat /\ s + 1 \in Nat /\ s <= s + 1 /\ \A i \in (s + 1)..(s + 1) : g[i].part # "head"
      BY <1>1, <2>7
    <3> HIDE DEF s
    <3> QED BY <3>1, RecordsSkip
  <2>12. RecordsTo(g, s) = RecordsTo(f, s)
    <3>1. s \in Nat /\ s <= Len(f) /\ \A i \in 1..s : g[i] = f[i]
      BY <1>1, <2>1, <2>6
    <3> HIDE DEF s
    <3> QED BY <2>6, <3>1, SameRecords
  <2>13. Records(f) = RecordsTo(f, s)
    BY <1>2 DEF Records
  <2>14. \A i \in 1..Len(g) : \E j \in 1..Len(f) : g[i].rec = f[j].rec
    <3> TAKE i \in 1..Len(g)
    <3>1. i \in 1..s \/ i = s + 1
      BY <1>1, <2>6
    <3>2. s \in 1..Len(f) /\ (i \in 1..s => i \in 1..Len(f))
      BY <1>1, <2>1
    <3> QED BY <2>6, <2>7, <3>1, <3>2
  <2> QED BY <2>6, <2>9, <2>10, <2>11, <2>12, <2>13, <2>14
<1>3. CASE ~Swallows(f)
  <2>1. PICK n \in Nat : s = n + 1
    <3>1. s - 1 \in Nat /\ s = (s - 1) + 1
      BY <1>1
    <3> QED BY <3>1
  <2> HIDE DEF s
  <2>2. g = SubSeq(f, 1, n) /\ n <= Len(f) /\ Records(f) = RecordsTo(f, n)
    BY <1>1, <1>3, <2>1 DEF Truncated, Records, s
  <2>3. g \in Seq(CellSet) /\ Len(g) = n /\ \A i \in 1..n : g[i] = f[i]
    BY <1>1, <2>1, <2>2
  <2>4. \A i \in 1..n : Complete(g, i)
    <3> TAKE i \in 1..n
    <3>1. Complete(f, i) /\ g[i] = f[i]
      BY <1>1, <2>1, <2>3
    <3>2. CASE i < n
      <4>1. g[i + 1] = f[i + 1] /\ i < Len(g) /\ i < Len(f)
        BY <1>1, <2>2, <2>3, <3>2
      <4> QED BY <3>1, <4>1 DEF Complete
    <3>3. CASE i = n
      <4>1. f[n].part = "head" /\ HasBody(f[n].rec) => n + 1 <= Len(f) /\ f[n + 1].part \in {"body", "junk"}
        BY <3>1, <3>3 DEF Complete
      <4>2. n + 1 <= Len(f) => ~Complete(f, n + 1)
        BY <1>4, <2>1 DEF s
      <4>3. n + 1 <= Len(f) => f[n + 1].part \in {"cut", "head"}
        BY <4>2 DEF Complete
      <4>4. f[n].part = "head" => ~HasBody(f[n].rec)
        BY <4>1, <4>3
      <4> QED BY <3>1, <3>3, <4>4 DEF Complete
    <3> QED BY <3>2, <3>3
  <2>5. WellFormed(g)
    BY <2>3, <2>4, WellFormedFacts
  <2>6. Records(g) = RecordsTo(g, n) /\ Reach(g) = RecordsTo(g, n)
    BY <2>3, <2>5, WellFormedFacts
  <2>7. RecordsTo(g, n) = RecordsTo(f, n)
    BY <2>2, <2>3, SameRecords
  <2>8. \A i \in 1..Len(g) : \E j \in 1..Len(f) : g[i].rec = f[j].rec
    <3> TAKE i \in 1..Len(g)
    <3>1. i \in 1..Len(f) /\ g[i] = f[i]
      BY <1>1, <2>2, <2>3
    <3> QED BY <3>1
  <2> QED BY <2>2, <2>3, <2>5, <2>6, <2>7, <2>8
<1> QED BY <1>2, <1>3

\* The same records, the last of which may have rotted.
LastRotted(a, b) ==
    /\ Len(a) = Len(b)
    /\ \A k \in 1..Len(a) : b[k] = a[k] \/ (k = Len(a) /\ b[k] = Rotten(a[k]))

LEMMA CleanFacts ==
    ASSUME NEW r \in RecordSet
    PROVE  /\ Clean(r) \in RecordSet /\ ~Clean(r).rot
           /\ Rotten(r) \in RecordSet /\ Rotten(r).rot
           /\ Rotten(r).type = r.type /\ Rotten(r).seq = r.seq /\ Rotten(r).prev = r.prev
           /\ Clean(r).type = r.type /\ Clean(r).seq = r.seq /\ Clean(r).boot = r.boot
           /\ Clean(r).ref = r.ref
           /\ ~r.rot => Clean(r) = r
           /\ Clean(Rotten(r)) = Clean(r)
BY DEF Clean, Rotten, RecordSet

LEMMA RottedIs ==
    ASSUME NEW f \in Seq(CellSet), NEW i \in 1..Len(f), NEW x \in CellSet,
           NEW g, g = [f EXCEPT ![i] = x]
    PROVE  /\ g \in Seq(CellSet) /\ Len(g) = Len(f)
           /\ g[i] = x /\ \A k \in 1..Len(f) : k # i => g[k] = f[k]
OBVIOUS

\* What rots in the newest header is the last record of the walk, if any.
LEMMA RottedFacts ==
    ASSUME NEW f \in Seq(CellSet), NEW i \in 1..Len(f), f[i].part = "head",
           \A j \in (i + 1)..Len(f) : f[j].part # "head",
           NEW g \in Seq(CellSet), Len(g) = Len(f), \A k \in 1..Len(f) : k # i => g[k] = f[k],
           g[i].part = "head", g[i].rec = Rotten(f[i].rec)
    PROVE  /\ Stop(g) = Stop(f)
           /\ WellFormed(g) <=> WellFormed(f)
           /\ LastRotted(Records(f), Records(g)) /\ LastRotted(Reach(f), Reach(g))
<1> DEFINE r == Rotten(f[i].rec)
<1>1. /\ Len(f) \in Nat /\ \A k \in 1..Len(f) : f[k] \in CellSet /\ f[k].rec \in RecordSet
  BY CellFacts
<1>2. r \in RecordSet /\ r.type = f[i].rec.type
  BY <1>1, CleanFacts
<1>3. \A k \in 1..Len(f) : k # i => g[k] = f[k]
  OBVIOUS
<1>4. g[i].part = "head" /\ g[i].rec = r
  OBVIOUS
<1>5. g \in Seq(CellSet) /\ Len(g) = Len(f)
  OBVIOUS
<1>6. \A k \in 1..Len(f) : g[k].part = f[k].part /\ (HasBody(g[k].rec) <=> HasBody(f[k].rec))
  BY <1>2, <1>3, <1>4 DEF HasBody
<1> HIDE DEF r
<1>7. \A k \in 1..Len(f) : Complete(g, k) <=> Complete(f, k)
  <2> TAKE k \in 1..Len(f)
  <2>1. k < Len(f) => g[k + 1].part = f[k + 1].part
    BY <1>1, <1>6
  <2> QED BY <1>5, <1>6, <2>1 DEF Complete
<1>8. Stop(g) = Stop(f)
  <2>1. /\ Stop(f) \in 1..(Len(f) + 1)
        /\ \A k \in 1..(Stop(f) - 1) : Complete(f, k)
        /\ Stop(f) <= Len(f) => ~Complete(f, Stop(f))
    BY StopFacts
  <2>2. /\ Stop(f) \in 1..(Len(g) + 1)
        /\ \A k \in 1..(Stop(f) - 1) : Complete(g, k)
        /\ Stop(f) <= Len(g) => ~Complete(g, Stop(f))
    BY <1>1, <1>5, <1>7, <2>1
  <2> QED BY <1>5, <2>2, StopOf
<1>9. Swallows(g) <=> Swallows(f)
  <2>1. Stop(f) \in 1..(Len(f) + 1)
    BY StopFacts
  <2>2. Stop(f) < Len(f) => g[Stop(f)].part = f[Stop(f)].part /\ g[Stop(f) + 1].part = f[Stop(f) + 1].part
    BY <1>1, <1>6, <2>1
  <2> QED BY <1>5, <1>8, <2>2 DEF Swallows
<1>10. ASSUME NEW n \in 0..Len(f) PROVE LastRotted(RecordsTo(f, n), RecordsTo(g, n))
  <2>0. n \in Nat
    OBVIOUS
  <2>1. CASE n < i
    <3>1. \A k \in 1..n : g[k] = f[k]
      BY <1>1, <1>3, <2>1
    <3>2. RecordsTo(g, n) = RecordsTo(f, n)
      BY <1>1, <1>5, <2>0, <3>1, SameRecords
    <3> QED BY <3>2 DEF LastRotted
  <2>2. CASE i <= n
    <3>1. PICK m \in Nat : i = m + 1
      <4>1. i - 1 \in Nat /\ i = (i - 1) + 1
        BY <1>1
      <4> QED BY <4>1
    <3>2. /\ i \in Nat /\ \A k \in (i + 1)..n : f[k].part # "head"
          /\ \A k \in (i + 1)..n : g[k].part # "head"
      BY <1>1, <1>6, <2>2
    <3>3. RecordsTo(f, n) = RecordsTo(f, i)
      BY <2>0, <2>2, <3>2, RecordsSkip
    <3>3a. RecordsTo(g, n) = RecordsTo(g, i)
      BY <2>0, <2>2, <3>2, RecordsSkip
    <3>4. \A k \in 1..(m + 1) : f[k].rec \in RecordSet /\ g[k].rec \in RecordSet
      <4>1. \A k \in 1..Len(g) : g[k].rec \in RecordSet
        BY <1>5, CellFacts
      <4>2. m + 1 <= Len(f)
        BY <3>1
      <4> QED BY <1>1, <1>5, <3>1, <4>1, <4>2
    <3>5. RecordsTo(f, m + 1) = Append(RecordsTo(f, m), f[m + 1].rec)
      BY <3>1, <3>4, RecordsNext
    <3>6. RecordsTo(g, m + 1) = Append(RecordsTo(g, m), g[m + 1].rec)
      BY <1>4, <3>1, <3>4, RecordsNext
    <3>7. RecordsTo(g, m) = RecordsTo(f, m)
      <4>1. m <= Len(f) /\ \A k \in 1..m : g[k] = f[k]
        BY <1>1, <1>3, <3>1
      <4> QED BY <1>5, <4>1, SameRecords
    <3>8. RecordsTo(f, m) \in Seq(RecordSet)
      <4>1. \A k \in 1..m : f[k].rec \in RecordSet
        BY <3>4
      <4> QED BY <4>1, RecordsToType
    <3>9. PICK s \in Seq(RecordSet) : s = RecordsTo(f, m)
      BY <3>8
    <3>10. RecordsTo(f, n) = Append(s, f[i].rec) /\ RecordsTo(g, n) = Append(s, r)
      BY <1>4, <3>1, <3>3, <3>3a, <3>5, <3>6, <3>7, <3>9
    <3>11. f[i].rec \in RecordSet
      BY <1>1
    <3> QED BY <1>2, <3>10, <3>11 DEF LastRotted, r
  <2> QED BY <2>0, <2>1, <2>2
<1>11. /\ Len(f) \in Nat /\ Stop(f) \in 1..(Len(f) + 1)
  BY StopFacts
<1>12. LastRotted(Reach(f), Reach(g))
  <2>1. PICK n \in 0..Len(f) : n = Lesser(Stop(f), Len(f))
    BY <1>11 DEF Lesser
  <2>2. Reach(f) = RecordsTo(f, n) /\ Reach(g) = RecordsTo(g, n)
    BY <1>5, <1>8, <2>1 DEF Reach
  <2> QED BY <1>10, <2>2
<1>13. LastRotted(Records(f), Records(g))
  <2>1. PICK n \in 0..Len(f) : n = IF Swallows(f) THEN Stop(f) ELSE Stop(f) - 1
    BY <1>11 DEF Swallows
  <2>2. Records(f) = RecordsTo(f, n) /\ Records(g) = RecordsTo(g, n)
    BY <1>8, <1>9, <2>1 DEF Records
  <2> QED BY <1>10, <2>2
<1>14. WellFormed(g) <=> WellFormed(f)
  BY <1>5, <1>8 DEF WellFormed
<1> QED BY <1>5, <1>6, <1>8, <1>12, <1>13, <1>14

-----------------------------------------------------------------------------
(* Links.                                                                   *)

LEMMA RottedLinked ==
    ASSUME NEW a \in Seq(RecordSet), NEW b \in Seq(RecordSet), LastRotted(a, b)
    PROVE  /\ Linked(a) => Linked(b)
           /\ \A seq, head : Follows(a, seq, head) => Follows(b, seq, head)
           /\ Unrotted(b) = Unrotted(a)
<1>1. Len(a) \in Nat /\ Len(b) = Len(a)
  BY DEF LastRotted
<1>2. \A k \in 1..Len(a) :    /\ a[k] \in RecordSet /\ b[k] \in RecordSet
                              /\ b[k].type = a[k].type /\ b[k].seq = a[k].seq
                              /\ b[k].prev = a[k].prev
                              /\ b[k] = a[k] \/ b[k].rot
                              /\ k < Len(a) => b[k] = a[k]
                              /\ Clean(b[k]) = Clean(a[k])
  <2> TAKE k \in 1..Len(a)
  <2>1. a[k] \in RecordSet /\ b[k] \in RecordSet
    BY <1>1
  <2>2. b[k] = a[k] \/ (k = Len(a) /\ b[k] = Rotten(a[k]))
    BY DEF LastRotted
  <2>3. CASE b[k] = a[k]
    BY <2>1, <2>3
  <2>4. CASE k = Len(a) /\ b[k] = Rotten(a[k])
    BY <1>1, <2>1, <2>4, CleanFacts
  <2> QED BY <2>2, <2>3, <2>4
<1>3. ASSUME Linked(a) PROVE Linked(b)
  <2>1. ASSUME NEW i \in 2..Len(b)
        PROVE  /\ b[i].prev = Hash(b[i - 1]) \/ b[i - 1].rot
               /\ b[i].seq = b[i - 1].seq + 1
    <3>1. /\ i \in 2..Len(a) /\ i \in 1..Len(a) /\ i - 1 \in 1..Len(a) /\ i - 1 < Len(a)
      BY <1>1
    <3> QED BY <1>2, <1>3, <3>1 DEF Linked
  <2>2. \A i \in 1..Len(b) : b[i].type = "GENESIS" <=> i = 1
    BY <1>1, <1>2, <1>3 DEF Linked
  <2>3. b # <<>> => b[1].prev = Zero32
    <3> HAVE b # <<>>
    <3>1. a # <<>> /\ 1 \in 1..Len(a)
      BY <1>1
    <3> QED BY <1>2, <1>3, <3>1 DEF Linked
  <2> QED BY <2>1, <2>2, <2>3 DEF Linked
<1>4. ASSUME NEW seq, NEW head, Follows(a, seq, head) PROVE Follows(b, seq, head)
  <2>1. CASE a = <<>>
    BY <1>1, <1>4, <2>1 DEF Follows
  <2>2. CASE a # <<>>
    <3>1. b # <<>> /\ Len(a) \in 1..Len(a)
      BY <1>1, <2>2
    <3> QED BY <1>1, <1>2, <1>4, <2>2, <3>1 DEF Follows
  <2> QED BY <2>1, <2>2
<1>5. Unrotted(b) = Unrotted(a)
  BY <1>1, <1>2 DEF Unrotted
<1> QED BY <1>3, <1>4, <1>5

LEMMA LinkedAppend ==
    ASSUME NEW s \in Seq(RecordSet), NEW r \in RecordSet
    PROVE  /\ Linked(s) /\ Follows(s, r.seq, r.prev) /\ (r.type = "GENESIS" <=> s = <<>>)
                  => Linked(Append(s, r))
           /\ Linked(Append(s, r)) => Linked(s)
           /\ Follows(Append(s, r), r.seq + 1, Hash(r))
           /\ ~r.rot => Unrotted(Append(s, r)) = Append(Unrotted(s), r)
<1> DEFINE t == Append(s, r)
<1>1. /\ Len(s) \in Nat /\ t \in Seq(RecordSet) /\ Len(t) = Len(s) + 1
      /\ t[Len(s) + 1] = r /\ \A i \in 1..Len(s) : t[i] = s[i] /\ s[i] \in RecordSet
  OBVIOUS
<1>2. t # <<>>
  BY <1>1
<1> HIDE DEF t
<1>3. ASSUME Linked(s), Follows(s, r.seq, r.prev), r.type = "GENESIS" <=> s = <<>>
      PROVE  Linked(t)
  <2>1. CASE s = <<>>
    BY <1>1, <1>2, <1>3, <2>1 DEF Linked, Follows
  <2>2. CASE s # <<>>
    <3>1. Len(s) >= 1
      BY <1>1, <2>2
    <3>2. ASSUME NEW i \in 2..Len(t)
          PROVE  /\ t[i].prev = Hash(t[i - 1]) \/ t[i - 1].rot
                 /\ t[i].seq = t[i - 1].seq + 1
      <4>1. CASE i \in 2..Len(s)
        <5>1. i \in 1..Len(s) /\ i - 1 \in 1..Len(s)
          BY <1>1, <4>1
        <5> QED BY <1>1, <1>3, <4>1, <5>1 DEF Linked
      <4>2. CASE i = Len(s) + 1
        <5>1. i - 1 = Len(s) /\ Len(s) \in 1..Len(s)
          BY <1>1, <3>1, <4>2
        <5> QED BY <1>1, <1>3, <2>2, <4>2, <5>1 DEF Follows
      <4> QED BY <1>1, <4>1, <4>2
    <3>3. \A i \in 1..Len(t) : t[i].type = "GENESIS" <=> i = 1
      <4> TAKE i \in 1..Len(t)
      <4>1. CASE i \in 1..Len(s)
        BY <1>1, <1>3, <4>1 DEF Linked
      <4>2. CASE i = Len(s) + 1
        BY <1>1, <1>3, <2>2, <3>1, <4>2
      <4> QED BY <1>1, <4>1, <4>2
    <3>4. t[1].prev = Zero32
      <4>1. 1 \in 1..Len(s)
        BY <1>1, <3>1
      <4> QED BY <1>1, <1>3, <2>2, <4>1 DEF Linked
    <3> QED BY <3>2, <3>3, <3>4 DEF Linked
  <2> QED BY <2>1, <2>2
<1>4. ASSUME Linked(t) PROVE Linked(s)
  <2>1. ASSUME NEW i \in 2..Len(s)
        PROVE  /\ s[i].prev = Hash(s[i - 1]) \/ s[i - 1].rot
               /\ s[i].seq = s[i - 1].seq + 1
    <3>1. i \in 1..Len(s) /\ i - 1 \in 1..Len(s) /\ i \in 2..Len(t)
      BY <1>1
    <3> QED BY <1>1, <1>4, <3>1 DEF Linked
  <2>2. \A i \in 1..Len(s) : s[i].type = "GENESIS" <=> i = 1
    <3> TAKE i \in 1..Len(s)
    <3>1. i \in 1..Len(t)
      BY <1>1
    <3> QED BY <1>1, <1>4, <3>1 DEF Linked
  <2>3. s # <<>> => s[1].prev = Zero32
    <3> HAVE s # <<>>
    <3>1. 1 \in 1..Len(s)
      BY <1>1
    <3> QED BY <1>1, <1>2, <1>4, <3>1 DEF Linked
  <2> QED BY <2>1, <2>2, <2>3 DEF Linked
<1>5. Follows(t, r.seq + 1, Hash(r))
  BY <1>1, <1>2 DEF Follows
<1>6. ASSUME ~r.rot PROVE Unrotted(t) = Append(Unrotted(s), r)
  <2>1. Clean(r) = r
    BY <1>6, CleanFacts
  <2>2. \A i \in 1..Len(s) : Clean(s[i]) \in RecordSet
    BY <1>1, CleanFacts
  <2>3. /\ Unrotted(s) \in Seq(RecordSet) /\ Len(Unrotted(s)) = Len(s)
        /\ \A i \in 1..Len(s) : Unrotted(s)[i] = Clean(s[i])
    BY <1>1, <2>2 DEF Unrotted
  <2>4. Unrotted(t) \in Seq(RecordSet) /\ Len(Unrotted(t)) = Len(s) + 1
        /\ \A i \in 1..(Len(s) + 1) : Unrotted(t)[i] = Clean(t[i])
    <3>1. \A i \in 1..(Len(s) + 1) : Clean(t[i]) \in RecordSet
      <4> TAKE i \in 1..(Len(s) + 1)
      <4>1. i \in 1..Len(s) \/ i = Len(s) + 1
        BY <1>1
      <4> QED BY <1>1, <2>1, <2>2, <4>1
    <3> QED BY <1>1, <3>1 DEF Unrotted
  <2>5. PICK u \in Seq(RecordSet) : u = Unrotted(s)
    BY <2>3
  <2>6. PICK v \in Seq(RecordSet) : v = Unrotted(t)
    BY <2>4
  <2>7. \A i \in 1..Len(s) : v[i] = u[i]
    BY <1>1, <2>3, <2>4, <2>5, <2>6
  <2>8. v[Len(s) + 1] = r
    BY <1>1, <2>1, <2>4, <2>6
  <2>9. v = Append(u, r)
    BY <1>1, <2>3, <2>4, <2>5, <2>6, <2>7, <2>8
  <2> QED BY <2>5, <2>6, <2>9
<1> QED BY <1>3, <1>4, <1>5, <1>6 DEF t

-----------------------------------------------------------------------------
(* The steps, as far as the records and the file are concerned.             *)

\* The faults that a step may have met.
FaultsGrow == /\ faults' \in [Faults -> Nat]
              /\ \A f \in Faults : faults'[f] >= faults[f]

LEMMA FaultGrows ==
    ASSUME LogTypes, NEW f \in Faults, Fault(f)
    PROVE  /\ FaultsGrow
           /\ faults'[f] >= faults[f] + 1
           /\ \A g \in Faults \ {f} : faults'[g] = faults[g]
<1>1. faults \in [Faults -> Nat] /\ Weight(f) \in {1, 2}
  BY DEF LogTypes, Weight
<1>2. faults' = [faults EXCEPT ![f] = faults[f] + Weight(f)]
  BY DEF Fault
<1> HIDE DEF Faults
<1> QED BY <1>1, <1>2 DEF FaultsGrow

\* A write begins; by whom, and what it may refer to.
Begun(by, type, ref) ==
    /\ BeginWrite(by, type, ref)
    /\ UNCHANGED <<writer, todo, up, acked, faults>>
    /\ ref \in Hashes
    /\ \/ by = Main /\ writer.open /\ ~up /\ type = Head(todo) /\ ref = Zero32
       \/ by \in Thread /\ up /\ type \in ThreadTypes
    /\ RefersOk(type, ref)
    /\ type = "SELF_CHECK_FAILED" => faults["rot"] > 0

Ended(by) ==
    /\ EndWrite(by)
    /\ IF by = Main THEN todo' = Tail(todo) /\ up' = (Len(todo) = 1)
       ELSE by \in Thread /\ UNCHANGED <<todo, up>>

Died ==
    /\ writer.open /\ Die /\ UNCHANGED <<acked, stored, clock, escalations>>
    /\ \/ Fault("crash") /\ IF writing.by = Nobody THEN UNCHANGED file ELSE BreaksOff
       \/ Fault("raise") /\ writing.by = Nobody /\ UNCHANGED file

\* Nothing of the log changes; a fault may be counted.
Idled ==
    /\ UNCHANGED <<file, writer, todo, up, writing, acked>>
    /\ UNCHANGED faults \/ \E f \in {"raise", "store"} : Fault(f)

LogStep == \/ OpenFresh \/ OpenExisting \/ Died \/ Rot \/ Idled
           \/ \E by, type, ref : Begun(by, type, ref)
           \/ \E by : Ended(by)

LEMMA ZeroIsHash == Zero32 \in Hashes
BY DEF Zero32, Hashes

LEMMA HashIsHash == \A r \in RecordSet : Hash(r) \in Hashes
BY DEF Hash, RecordSet, Hashes

LEMMA ThreadsApart == /\ Main \notin Thread /\ Nobody \notin Thread /\ Nobody # Main
BY MainAssumption

\* A write of a thread begins, or raises.
LEMMA EmitSteps ==
    ASSUME TypesInv, LogInv, NEW t \in Thread, NEW type, NEW ref,
           EmitBegins(t, type, ref), up, type \in ThreadTypes, ref \in Hashes,
           RefersOk(type, ref), type = "SELF_CHECK_FAILED" => faults["rot"] > 0
    PROVE  LogStep
<1>1. CASE BeginWrite(t, type, ref) /\ UNCHANGED <<writer, todo, up, auditVars, acked>>
  <2>1. Begun(t, type, ref)
    BY <1>1 DEF Begun, BeginWrite
  <2> QED BY <2>1 DEF LogStep
<1>2. CASE RaiseWrite /\ UNCHANGED <<file, writing, writer, todo, up, auditVars, acked>>
  <2>1. Idled
    BY <1>2 DEF Idled, RaiseWrite
  <2> QED BY <2>1 DEF LogStep
<1> QED BY <1>1, <1>2 DEF EmitBegins

LEMMA LogSteps ==
    ASSUME TypesInv, LogInv, AuditNext
    PROVE  LogStep
<1>1. ASSUME Construct PROVE LogStep
  <2>1. CASE BeginWrite(Main, Head(todo), Zero32) /\ UNCHANGED <<writer, todo, up, threadVars, auditVars, acked>>
    <3>1. Head(todo) \notin {"ANCHOR", "SELF_CHECK_FAILED"}
      <4>1. todo \in Openings /\ todo # <<>>
        BY <1>1 DEF Construct, LogInv, ControlInv, TypesInv, LogTypes
      <4> QED BY <4>1 DEF Openings
    <3>2. Begun(Main, Head(todo), Zero32)
      BY <1>1, <2>1, <3>1, ZeroIsHash DEF Begun, BeginWrite, Construct, RefersOk
    <3> QED BY <3>2 DEF LogStep
  <2>2. CASE EndWrite(Main) /\ todo' = Tail(todo) /\ up' = (Len(todo) = 1)
    <3>1. Ended(Main)
      BY <2>2 DEF Ended
    <3> QED BY <3>1 DEF LogStep
  <2>3. CASE RaiseWrite /\ Die /\ UNCHANGED <<file, stored, clock, escalations, acked>>
    <3>1. Died
      BY <1>1, <2>3 DEF Died, RaiseWrite, Construct
    <3> QED BY <3>1 DEF LogStep
  <2> QED BY <1>1, <2>1, <2>2, <2>3 DEF Construct
<1>2. ASSUME Crash PROVE LogStep
  <2>1. Died
    BY <1>2 DEF Crash, Died
  <2> QED BY <2>1 DEF LogStep
<1>3. ASSUME NEW t \in Thread, ThreadStep(t) PROVE LogStep
  <2>0. arg[t] \in ArgSet /\ arg[t].ref \in Hashes
    <3>1. arg[t] \in ArgSet
      BY DEF TypesInv, QueueTypes
    <3> QED BY <3>1 DEF ArgSet
  <2>1. CASE Refuse(t)
    <3>1. /\ EmitBegins(t, "GUARD", Zero32) /\ up /\ "GUARD" \in ThreadTypes
          /\ RefersOk("GUARD", Zero32)
      BY <2>1 DEF Refuse, ThreadTypes, RefersOk
    <3> QED BY <3>1, ZeroIsHash, EmitSteps
  <2>2. CASE Emit(t)
    <3>1. /\ EmitBegins(t, pc[t], arg[t].ref) /\ pc[t] \in ThreadTypes
      BY <2>2 DEF Emit, ThreadTypes
    <3>2. pc[t] # "idle"
      BY <2>2 DEF Emit
    <3>3. up /\ RefersOk(pc[t], arg[t].ref) /\ (pc[t] = "SELF_CHECK_FAILED" => faults["rot"] > 0)
      BY <3>2 DEF LogInv, ThreadInv
    <3> QED BY <2>0, <3>1, <3>3, EmitSteps
  <2>3. CASE EmitEnds(t)
    <3>1. Ended(t)
      BY <2>3, ThreadsApart DEF Ended, EmitEnds
    <3> QED BY <3>1 DEF LogStep
  <2>4. CASE Store(t)
    <3>1. Idled
      BY <2>4 DEF Store, Idled
    <3> QED BY <3>1 DEF LogStep
  <2>5. CASE ReadClock(t) \/ NoteGuard(t) \/ Anchor(t) \/ SelfCheck(t)
    <3>1. Idled
      BY <2>5 DEF ReadClock, NoteGuard, Anchor, SelfCheck, Idled
    <3> QED BY <3>1 DEF LogStep
  <2> QED BY <1>3, <2>1, <2>2, <2>3, <2>4, <2>5 DEF ThreadStep
<1>4. ASSUME Tick PROVE LogStep
  <2>1. Idled
    BY <1>4 DEF Tick, Idled, threadVars
  <2> QED BY <2>1 DEF LogStep
<1>5. CASE OpenFresh \/ OpenExisting \/ Rot
  BY <1>5 DEF LogStep
<1> QED BY <1>1, <1>2, <1>3, <1>4, <1>5 DEF AuditNext

\* The constructor's records, one after the other.
LEMMA OpeningFacts ==
    /\ \A o \in Openings \ {<<>>} :
          /\ Head(o) \in {"GENESIS", "BOOT", "RECOVERY"} /\ Tail(o) \in Openings
          /\ Len(o) = 1 <=> Tail(o) = <<>>
          /\ Head(o) = "GENESIS" <=> o = <<"GENESIS", "BOOT">>
          /\ Tail(o) # <<"GENESIS", "BOOT">>
          /\ Head(o) = "RECOVERY" <=> o = <<"RECOVERY">>
          /\ Tail(o) = <<"RECOVERY">> <=> o = <<"BOOT", "RECOVERY">>
          /\ o = <<"BOOT", "RECOVERY">> => Head(o) = "BOOT"
          /\ o = <<"RECOVERY">> => Tail(o) = <<>>
    /\ Opening(TRUE, FALSE) = <<"GENESIS", "BOOT">>
    /\ Opening(FALSE, FALSE) = <<"BOOT">>
    /\ Opening(FALSE, TRUE) = <<"BOOT", "RECOVERY">>
<1>1. ASSUME NEW o \in Openings \ {<<>>}
      PROVE  \/ o = <<"GENESIS", "BOOT">> /\ Head(o) = "GENESIS" /\ Tail(o) = <<"BOOT">> /\ Len(o) = 2
             \/ o = <<"BOOT">> /\ Head(o) = "BOOT" /\ Tail(o) = <<>> /\ Len(o) = 1
             \/ o = <<"BOOT", "RECOVERY">> /\ Head(o) = "BOOT" /\ Tail(o) = <<"RECOVERY">> /\ Len(o) = 2
             \/ o = <<"RECOVERY">> /\ Head(o) = "RECOVERY" /\ Tail(o) = <<>> /\ Len(o) = 1
  <2>1. CASE o = <<"GENESIS", "BOOT">>
    BY <2>1
  <2>2. CASE o = <<"BOOT">>
    BY <2>2
  <2>3. CASE o = <<"BOOT", "RECOVERY">>
    BY <2>3
  <2>4. CASE o = <<"RECOVERY">>
    BY <2>4
  <2> QED BY <2>1, <2>2, <2>3, <2>4 DEF Openings
<1>2. /\ <<"GENESIS", "BOOT">> # <<"BOOT">> /\ <<"GENESIS", "BOOT">> # <<"RECOVERY">>
      /\ <<"GENESIS", "BOOT">> # <<"BOOT", "RECOVERY">> /\ <<"GENESIS", "BOOT">> # <<>>
      /\ <<"BOOT">> # <<"RECOVERY">> /\ <<"BOOT">> # <<>> /\ <<"RECOVERY">> # <<>>
      /\ <<"BOOT">> # <<"BOOT", "RECOVERY">> /\ <<"RECOVERY">> # <<"BOOT", "RECOVERY">>
  OBVIOUS
<1>3. /\ <<"BOOT">> \in Openings /\ <<>> \in Openings /\ <<"RECOVERY">> \in Openings
  BY DEF Openings
<1>4. \A o \in Openings \ {<<>>} :
          /\ Head(o) \in {"GENESIS", "BOOT", "RECOVERY"} /\ Tail(o) \in Openings
          /\ Len(o) = 1 <=> Tail(o) = <<>>
          /\ Head(o) = "GENESIS" <=> o = <<"GENESIS", "BOOT">>
          /\ Tail(o) # <<"GENESIS", "BOOT">>
          /\ Head(o) = "RECOVERY" <=> o = <<"RECOVERY">>
          /\ Tail(o) = <<"RECOVERY">> <=> o = <<"BOOT", "RECOVERY">>
          /\ o = <<"BOOT", "RECOVERY">> => Head(o) = "BOOT"
          /\ o = <<"RECOVERY">> => Tail(o) = <<>>
  <2> TAKE o \in Openings \ {<<>>}
  <2>1. CASE o = <<"GENESIS", "BOOT">> /\ Head(o) = "GENESIS" /\ Tail(o) = <<"BOOT">> /\ Len(o) = 2
    BY <2>1, <1>2, <1>3
  <2>2. CASE o = <<"BOOT">> /\ Head(o) = "BOOT" /\ Tail(o) = <<>> /\ Len(o) = 1
    BY <2>2, <1>2, <1>3
  <2>3. CASE o = <<"BOOT", "RECOVERY">> /\ Head(o) = "BOOT" /\ Tail(o) = <<"RECOVERY">> /\ Len(o) = 2
    BY <2>3, <1>2, <1>3
  <2>4. CASE o = <<"RECOVERY">> /\ Head(o) = "RECOVERY" /\ Tail(o) = <<>> /\ Len(o) = 1
    BY <2>4, <1>2, <1>3
  <2> QED BY <1>1, <2>1, <2>2, <2>3, <2>4
<1>5. /\ Opening(TRUE, FALSE) = <<"GENESIS", "BOOT">>
      /\ Opening(FALSE, FALSE) = <<"BOOT">>
      /\ Opening(FALSE, TRUE) = <<"BOOT", "RECOVERY">>
  <2> DEFINE S == {"GENESIS", "BOOT", "RECOVERY"}
  <2>1. ASSUME NEW a \in S, NEW b \in S PROVE <<a>> \o <<b>> = <<a, b>>
    <3> HIDE DEF S
    <3>0. <<a>> \in Seq(S)
      OBVIOUS
    <3>1. PICK s \in Seq(S) : s = <<a>>
      BY <3>0
    <3>2. PICK t : t = s \o <<b>>
      OBVIOUS
    <3>3. t \in Seq(S) /\ Len(t) = 2 /\ t[1] = a /\ t[2] = b
      BY <3>1, <3>2
    <3>4. t = <<a, b>>
      BY <3>3
    <3> QED BY <3>1, <3>2, <3>4
  <2>2. \A x \in Seq(S) : <<>> \o x = x /\ x \o <<>> = x
    <3> HIDE DEF S
    <3> QED OBVIOUS
  <2>3. /\ Opening(TRUE, FALSE) = (<<"GENESIS">> \o <<"BOOT">>) \o <<>>
        /\ Opening(FALSE, FALSE) = (<<>> \o <<"BOOT">>) \o <<>>
        /\ Opening(FALSE, TRUE) = (<<>> \o <<"BOOT">>) \o <<"RECOVERY">>
    BY DEF Opening
  <2>4. <<"BOOT">> \in Seq(S) /\ <<"GENESIS", "BOOT">> \in Seq(S)
    OBVIOUS
  <2>5. <<"GENESIS">> \o <<"BOOT">> = <<"GENESIS", "BOOT">> /\ <<"BOOT">> \o <<"RECOVERY">> = <<"BOOT", "RECOVERY">>
    BY <2>1
  <2> QED BY <2>2, <2>3, <2>4, <2>5
<1> QED BY <1>4, <1>5

\* A write that begins.
LEMMA BegunView ==
    ASSUME LogTypes, ControlInv, NEW by, NEW type, NEW ref, Begun(by, type, ref)
    PROVE  \E r \in RecordSet :
              /\ r.type = type /\ r.ref = ref /\ r.boot = writer.boot /\ r.seq = writer.seq
              /\ r.prev = writer.head /\ ~r.rot
              /\ by \in Thread \cup {Main} /\ writer.open
              /\ writing.by = Nobody /\ Settled = file
              /\ writing' = [by |-> by, rec |-> r] /\ file' = Append(file, Cell("cut", r))
<1> DEFINE r == NextRecord(by, type, ref)
<1>1. writing.by = Nobody /\ file' = Append(file, Cell("cut", r)) /\ writing' = [by |-> by, rec |-> r]
  BY DEF Begun, BeginWrite
<1>2. type \in Types
  <2>1. CASE by = Main
    <3>1. todo \in Openings \ {<<>>} /\ type = Head(todo)
      BY <2>1, ThreadsApart DEF Begun, ControlInv, LogTypes
    <3> QED BY <3>1, OpeningFacts DEF Types
  <2>2. CASE by \in Thread
    BY <2>2, ThreadsApart DEF Begun, Types
  <2> QED BY <2>1, <2>2 DEF Begun
<1>3. /\ writer.boot \in Nat /\ writer.seq \in Nat /\ writer.head \in Hashes
  BY DEF LogTypes, WriterSet
<1>4. ref \in Hashes
  BY DEF Begun
<1>5. /\ r \in RecordSet /\ r.type = type /\ r.ref = ref /\ r.boot = writer.boot
      /\ r.seq = writer.seq /\ r.prev = writer.head /\ ~r.rot
  BY <1>2, <1>3, <1>4 DEF NextRecord, RecordSet
<1>6. by \in Thread \cup {Main} /\ writer.open
  BY DEF Begun, ControlInv
<1> QED BY <1>1, <1>5, <1>6 DEF Settled

\* What a write that ends does: f is the file without it, r its record.
EndsAs(by, f, r) ==
    /\ f = Settled /\ r = writing.rec /\ file = Append(f, Cell("cut", r))
    /\ r.boot = writer.boot /\ r.seq = writer.seq /\ r.prev = writer.head /\ ~r.rot
    /\ \/ file' = f \o Written(r) /\ UNCHANGED faults
       \/ Fault("short") /\ \E bytes \in Fragments(r) : file' = f \o bytes
    /\ acked' = Append(acked, r)
    /\ writer' = [writer EXCEPT !.seq = writer.seq + 1, !.head = Hash(r)]
    /\ writing' = [by |-> Nobody, rec |-> NoRecord]
    /\ by = writing.by /\ by \in Thread \cup {Main} /\ writer.open

\* A write that ends does so for the file without it and its record.
LEMMA EndedView ==
    ASSUME LogTypes, ControlInv, NEW by, Ended(by)
    PROVE  \E f \in Seq(CellSet), r \in RecordSet : EndsAs(by, f, r)
<1>1. by = writing.by /\ by \in Thread \cup {Main} /\ by # Nobody
  BY ThreadsApart DEF Ended, EndWrite
<1>2. /\ file # <<>> /\ Last(file) = Cell("cut", writing.rec)
      /\ writer.open
      /\ writing.rec.boot = writer.boot /\ writing.rec.seq = writer.seq
      /\ writing.rec.prev = writer.head /\ ~writing.rec.rot
  BY <1>1 DEF ControlInv
<1>3. file \in Seq(CellSet) /\ writing.rec \in RecordSet
  BY DEF LogTypes, WritingSet
<1>4. PICK f \in Seq(CellSet) : f = Front(file) /\ file = Append(f, Cell("cut", writing.rec))
  <2>1. Len(file) \in Nat /\ Len(file) >= 1 /\ Last(file) = file[Len(file)]
    BY <1>2, <1>3 DEF Last
  <2>2. Front(file) \in Seq(CellSet) /\ file = Append(Front(file), file[Len(file)])
    BY <1>3, <2>1 DEF Front
  <2> QED BY <1>2, <2>1, <2>2
<1>5. PICK r \in RecordSet : r = writing.rec
  BY <1>3
<1>6. f = Settled
  BY <1>1, <1>4 DEF Settled
<1>7. \/ file' = f \o Written(r) /\ UNCHANGED faults
      \/ Fault("short") /\ \E bytes \in Fragments(r) : file' = f \o bytes
  BY <1>4, <1>5 DEF Ended, EndWrite, BreaksOff
<1>8. /\ acked' = Append(acked, r)
      /\ writer' = [writer EXCEPT !.seq = writer.seq + 1, !.head = Hash(r)]
      /\ writing' = [by |-> Nobody, rec |-> NoRecord]
  BY <1>5 DEF Ended, EndWrite
<1> QED BY <1>1, <1>2, <1>4, <1>5, <1>6, <1>7, <1>8 DEF EndsAs

\* A process that dies: nothing of a write, or a part of it, is left.
LEMMA DiedView ==
    ASSUME LogTypes, ControlInv, Died
    PROVE  \E f \in Seq(CellSet), r \in RecordSet :
              /\ f = Settled /\ r = writing.rec
              /\ \/ writing.by = Nobody /\ file = f /\ file' = f
                 \/ /\ writing.by # Nobody /\ file = Append(f, Cell("cut", r))
                    /\ r.boot = writer.boot /\ r.seq = writer.seq /\ r.prev = writer.head /\ ~r.rot
                    /\ \E bytes \in Fragments(r) : file' = f \o bytes
              /\ FaultsGrow /\ Deaths' >= Deaths + 1 /\ faults'["rot"] = faults["rot"]
              /\ faults'["short"] = faults["short"]
              /\ writer.open
<1>1. /\ writer.open
      /\ \/ Fault("crash") /\ IF writing.by = Nobody THEN UNCHANGED file ELSE BreaksOff
         \/ Fault("raise") /\ writing.by = Nobody /\ UNCHANGED file
  BY DEF Died
<1>2. file \in Seq(CellSet) /\ writing.rec \in RecordSet
  BY DEF LogTypes, WritingSet
<1>3. /\ FaultsGrow /\ Deaths' >= Deaths + 1 /\ faults'["rot"] = faults["rot"]
      /\ faults'["short"] = faults["short"]
  <2>0. faults \in [Faults -> Nat]
    BY DEF LogTypes
  <2>1. CASE Fault("crash")
    BY <2>0, <2>1, FaultGrows DEF Faults, FaultsGrow, Deaths
  <2>2. CASE Fault("raise")
    BY <2>0, <2>2, FaultGrows DEF Faults, FaultsGrow, Deaths
  <2> QED BY <1>1, <2>1, <2>2
<1>4. CASE writing.by = Nobody
  <2>1. Settled = file /\ file' = file
    BY <1>1, <1>4 DEF Settled
  <2> QED BY <1>1, <1>2, <1>3, <1>4, <2>1
<1>5. CASE writing.by # Nobody
  <2>1. /\ file # <<>> /\ Last(file) = Cell("cut", writing.rec)
        /\ writing.rec.boot = writer.boot /\ writing.rec.seq = writer.seq
        /\ writing.rec.prev = writer.head /\ ~writing.rec.rot
    BY <1>5 DEF ControlInv
  <2>2. PICK f \in Seq(CellSet) : f = Front(file) /\ file = Append(f, Cell("cut", writing.rec))
    <3>1. Len(file) \in Nat /\ Len(file) >= 1 /\ Last(file) = file[Len(file)]
      BY <2>1, <1>2 DEF Last
    <3>2. Front(file) \in Seq(CellSet) /\ file = Append(Front(file), file[Len(file)])
      BY <1>2, <3>1 DEF Front
    <3> QED BY <2>1, <3>1, <3>2
  <2>3. \E bytes \in Fragments(writing.rec) : file' = f \o bytes
    BY <1>1, <1>5, <2>2 DEF BreaksOff
  <2>4. f = Settled
    BY <1>5, <2>2 DEF Settled
  <2> QED BY <1>1, <1>2, <1>3, <1>5, <2>1, <2>2, <2>3, <2>4
<1> QED BY <1>4, <1>5

LEMMA IdleFaults ==
    ASSUME LogTypes, UNCHANGED faults \/ \E f \in {"raise", "store"} : Fault(f)
    PROVE  /\ FaultsGrow /\ faults'["rot"] = faults["rot"] /\ faults'["short"] = faults["short"]
           /\ Deaths' >= Deaths
<1>0. faults \in [Faults -> Nat]
  BY DEF LogTypes
<1>1. CASE UNCHANGED faults
  BY <1>0, <1>1 DEF FaultsGrow, Faults, Deaths
<1>2. CASE Fault("raise")
  BY <1>0, <1>2, FaultGrows DEF Faults, FaultsGrow, Deaths
<1>3. CASE Fault("store")
  BY <1>0, <1>3, FaultGrows DEF Faults, FaultsGrow, Deaths
<1> QED BY <1>1, <1>2, <1>3

\* The resume: last is the last record of the walk.
LEMMA ResumeView ==
    ASSUME LogTypes, OpenExisting
    PROVE  \E last \in RecordSet :
              /\ Records(file) \in Seq(RecordSet) /\ Records(file) # <<>>
              /\ last = Records(file)[Len(Records(file))]
              /\ writer' = [open |-> TRUE, boot |-> writer.boot + 1, seq |-> last.seq + 1,
                            head |-> Hash(last), recovered |-> ~WellFormed(file)]
              /\ file' = Truncated(file) /\ todo' = Opening(FALSE, ~WellFormed(file))
<1>1. file \in Seq(CellSet)
  BY DEF LogTypes
<1>2. Records(file) \in Seq(RecordSet) /\ Records(file) # <<>>
  BY <1>1, RecordsTypes DEF OpenExisting, Resumable
<1>3. Last(Records(file)) = Records(file)[Len(Records(file))] /\ Last(Records(file)) \in RecordSet
  BY <1>2 DEF Last
<1> QED BY <1>2, <1>3 DEF OpenExisting

LEMMA RotView ==
    ASSUME LogTypes, Rot
    PROVE  /\ file' \in Seq(CellSet) /\ file # <<>> /\ Stop(file') = Stop(file)
           /\ Len(file') = Len(file) /\ (WellFormed(file') <=> WellFormed(file))
           /\ LastRotted(Records(file), Records(file')) /\ LastRotted(Reach(file), Reach(file'))
           /\ FaultsGrow /\ faults'["rot"] > 0 /\ Deaths' = Deaths
           /\ faults'["short"] = faults["short"] /\ writing.by = Nobody
<1>1. file \in Seq(CellSet) /\ Len(file) \in Nat
  BY DEF LogTypes
<1>2. PICK i \in 1..Len(file) : /\ file[i].part = "head"
                                /\ \A j \in (i + 1)..Len(file) : file[j].part # "head"
                                /\ file' = [file EXCEPT ![i].rec.rot = TRUE]
  BY DEF Rot
<1>3. file[i] \in CellSet /\ file[i].rec \in RecordSet
  BY <1>1, CellFacts
<1> DEFINE x == [part |-> "head", rec |-> Rotten(file[i].rec)]
<1>4. x \in CellSet /\ x.part = "head" /\ x.rec = Rotten(file[i].rec)
  BY <1>3, CleanFacts DEF CellSet
<1>5. [file[i] EXCEPT !.rec.rot = TRUE] = x
  <2>1. PICK y : y = [file[i].rec EXCEPT !.rot = TRUE]
    OBVIOUS
  <2>2. [file[i] EXCEPT !.rec.rot = TRUE] = [file[i] EXCEPT !.rec = y]
    BY <2>1, Zenon
  <2>3. y = Rotten(file[i].rec)
    BY <2>1 DEF Rotten
  <2>4. PICK c \in CellSet : c = file[i]
    BY <1>3
  <2>5. [c EXCEPT !.rec = y] = [part |-> c.part, rec |-> y]
    BY DEF CellSet
  <2> QED BY <1>2, <2>2, <2>3, <2>4, <2>5
<1>6. file' = [file EXCEPT ![i] = x]
  <2>1. file' = [file EXCEPT ![i] = [file[i] EXCEPT !.rec.rot = TRUE]]
    BY <1>2, Zenon
  <2> HIDE DEF x
  <2> QED BY <1>5, <2>1
<1> HIDE DEF x
<1>7. /\ file' \in Seq(CellSet) /\ Len(file') = Len(file) /\ file'[i] = x
      /\ \A k \in 1..Len(file) : k # i => file'[k] = file[k]
  BY <1>1, <1>4, <1>6, RottedIs
<1>8. PICK g \in Seq(CellSet) : g = file'
  BY <1>7
<1>9. PICK f \in Seq(CellSet) : f = file
  BY <1>1
<1>10. /\ Len(g) = Len(f) /\ \A k \in 1..Len(f) : k # i => g[k] = f[k]
       /\ f[i].part = "head" /\ \A j \in (i + 1)..Len(f) : f[j].part # "head"
       /\ g[i].part = "head" /\ g[i].rec = Rotten(f[i].rec)
  BY <1>2, <1>4, <1>7, <1>8, <1>9
<1>11. /\ Stop(g) = Stop(f)
       /\ WellFormed(g) <=> WellFormed(f)
       /\ LastRotted(Records(f), Records(g)) /\ LastRotted(Reach(f), Reach(g))
  BY <1>9, <1>10, RottedFacts
<1>12. faults \in [Faults -> Nat] /\ Fault("rot") /\ writing.by = Nobody
  BY DEF LogTypes, Rot
<1>13. FaultsGrow /\ faults'["rot"] > 0 /\ Deaths' = Deaths /\ faults'["short"] = faults["short"]
  BY <1>12, FaultGrows DEF Faults, FaultsGrow, Deaths
<1>14. file # <<>>
  BY <1>1, <1>2
<1> QED BY <1>7, <1>8, <1>9, <1>11, <1>12, <1>13, <1>14

LEMMA NoRecordType == NoRecord \in RecordSet /\ NoRecord.type = "NONE" /\ NoRecord.ref = Zero32
BY ZeroIsHash DEF NoRecord, RecordSet, Types

\* The log keeps its types.
LEMMA LogTypesStep ==
    ASSUME LogTypes, ControlInv, LogStep
    PROVE  LogTypes'
<1>0. /\ file \in Seq(CellSet) /\ writer \in WriterSet /\ todo \in Openings /\ up \in BOOLEAN
      /\ writing \in WritingSet /\ faults \in [Faults -> Nat] /\ acked \in Seq(RecordSet)
      /\ writer.boot \in Nat /\ writer.seq \in Nat /\ writer.open \in BOOLEAN
  BY DEF LogTypes, WriterSet
<1>1. CASE OpenFresh
  <2>1. writer' = [open |-> TRUE, boot |-> writer.boot + 1, seq |-> 0, head |-> Zero32, recovered |-> FALSE]
    BY <1>1 DEF OpenFresh
  <2>2. writer' \in WriterSet
    BY <1>0, <2>1, ZeroIsHash DEF WriterSet
  <2>3. todo' \in Openings
    BY <1>1, OpeningFacts DEF OpenFresh, Openings
  <2> QED BY <1>0, <1>1, <2>2, <2>3 DEF OpenFresh, LogTypes
<1>2. CASE OpenExisting
  <2>1. PICK last \in RecordSet :
              /\ writer' = [open |-> TRUE, boot |-> writer.boot + 1, seq |-> last.seq + 1,
                            head |-> Hash(last), recovered |-> ~WellFormed(file)]
              /\ file' = Truncated(file) /\ todo' = Opening(FALSE, ~WellFormed(file))
    BY <1>2, ResumeView
  <2>2. last.seq \in Nat /\ Hash(last) \in Hashes
    BY HashIsHash DEF RecordSet
  <2>3. writer' \in WriterSet
    <3>1. (~WellFormed(file)) \in BOOLEAN
      BY DEF WellFormed
    <3> QED BY <1>0, <2>1, <2>2, <3>1 DEF WriterSet
  <2>4. todo' \in Openings
    <3>1. CASE WellFormed(file)
      BY <2>1, <3>1, OpeningFacts DEF Openings
    <3>2. CASE ~WellFormed(file)
      BY <2>1, <3>2, OpeningFacts DEF Openings
    <3> QED BY <3>1, <3>2
  <2>5. file' \in Seq(CellSet)
    <3>1. \A g : g = Truncated(file) => g \in Seq(CellSet)
      BY <1>0, TruncatedFacts
    <3> QED BY <2>1, <3>1
  <2> QED BY <1>0, <1>2, <2>3, <2>4, <2>5 DEF OpenExisting, LogTypes
<1>3. CASE Died
  <2>1. PICK f \in Seq(CellSet), r \in RecordSet :
              /\ file' = f \/ \E bytes \in Fragments(r) : file' = f \o bytes
              /\ FaultsGrow
    BY <1>3, DiedView
  <2>2. file' \in Seq(CellSet)
    <3>1. CASE file' = f
      BY <3>1
    <3>2. ASSUME NEW bytes \in Fragments(r), file' = f \o bytes PROVE file' \in Seq(CellSet)
      <4>1. PICK h : h = f \o bytes
        OBVIOUS
      <4>2. h \in Seq(CellSet)
        BY <4>1, WithFragment
      <4> QED BY <3>2, <4>1, <4>2
    <3> QED BY <2>1, <3>1, <3>2
  <2>3. writer' = [writer EXCEPT !.open = FALSE, !.seq = 0, !.head = Zero32, !.recovered = FALSE]
    BY <1>3 DEF Died, Die
  <2>4. writer' \in WriterSet
    BY <1>0, <2>3, ZeroIsHash DEF WriterSet
  <2>5. /\ todo' = <<>> /\ up' = FALSE /\ writing' = [by |-> Nobody, rec |-> NoRecord] /\ acked' = acked
    BY <1>3 DEF Died, Die
  <2>6. writing' \in WritingSet /\ todo' \in Openings
    BY <2>5, NoRecordType DEF WritingSet, Openings
  <2> QED BY <1>0, <2>1, <2>2, <2>4, <2>5, <2>6 DEF FaultsGrow, LogTypes
<1>4. CASE Rot
  <2>1. file' \in Seq(CellSet) /\ FaultsGrow
    BY <1>4, RotView
  <2> QED BY <1>0, <1>4, <2>1 DEF Rot, FaultsGrow, LogTypes
<1>5. CASE Idled
  <2>1. FaultsGrow
    BY <1>5, IdleFaults DEF Idled
  <2> QED BY <1>0, <1>5, <2>1 DEF Idled, FaultsGrow, LogTypes
<1>6. ASSUME NEW by, NEW type, NEW ref, Begun(by, type, ref) PROVE LogTypes'
  <2>1. PICK r \in RecordSet : /\ by \in Thread \cup {Main}
                               /\ writing' = [by |-> by, rec |-> r] /\ file' = Append(file, Cell("cut", r))
    BY <1>6, BegunView
  <2>2. file' \in Seq(CellSet)
    BY <1>0, <2>1 DEF Cell, CellSet
  <2>3. writing' \in WritingSet
    BY <2>1 DEF WritingSet
  <2> QED BY <1>0, <1>6, <2>2, <2>3 DEF Begun, LogTypes
<1>7. ASSUME NEW by, Ended(by) PROVE LogTypes'
  <2>0. PICK f \in Seq(CellSet), r \in RecordSet : EndsAs(by, f, r)
    BY <1>7, EndedView
  <2>1. /\ f \in Seq(CellSet) /\ r \in RecordSet
        /\ f = Settled /\ r = writing.rec /\ file = Append(f, Cell("cut", r))
        /\ r.boot = writer.boot /\ r.seq = writer.seq /\ r.prev = writer.head /\ ~r.rot
        /\ \/ file' = f \o Written(r) /\ UNCHANGED faults
           \/ Fault("short") /\ \E bytes \in Fragments(r) : file' = f \o bytes
        /\ acked' = Append(acked, r)
        /\ writer' = [writer EXCEPT !.seq = writer.seq + 1, !.head = Hash(r)]
        /\ writing' = [by |-> Nobody, rec |-> NoRecord]
        /\ by = writing.by /\ by \in Thread \cup {Main} /\ writer.open
    BY <2>0 DEF EndsAs
  <2>2. file' \in Seq(CellSet) /\ faults' \in [Faults -> Nat]
    <3>1. CASE file' = f \o Written(r) /\ UNCHANGED faults
      <4>1. PICK h : h = f \o Written(r)
        OBVIOUS
      <4>2. h \in Seq(CellSet)
        BY <4>1, WithWritten
      <4> QED BY <1>0, <3>1, <4>1, <4>2
    <3>2. ASSUME Fault("short"), NEW bytes \in Fragments(r), file' = f \o bytes
          PROVE  file' \in Seq(CellSet) /\ faults' \in [Faults -> Nat]
      <4>1. PICK h : h = f \o bytes
        OBVIOUS
      <4>2. h \in Seq(CellSet)
        BY <4>1, WithFragment
      <4>3. FaultsGrow
        BY <3>2, FaultGrows DEF Faults
      <4> QED BY <3>2, <4>1, <4>2, <4>3 DEF FaultsGrow
    <3> QED BY <2>1, <3>1, <3>2
  <2>3. writer' \in WriterSet
    <3>1. Hash(r) \in Hashes /\ writer.seq + 1 \in Nat
      BY <1>0, HashIsHash
    <3> QED BY <1>0, <2>1, <3>1 DEF WriterSet
  <2>4. writing' \in WritingSet /\ acked' \in Seq(RecordSet)
    BY <1>0, <2>1, NoRecordType DEF WritingSet
  <2>5. todo' \in Openings /\ up' \in BOOLEAN
    <3>1. CASE by = Main
      <4>1. todo \in Openings \ {<<>>}
        <5>1. writing.by = Main
          BY <2>1, <3>1
        <5> QED BY <1>0, <2>1, <5>1 DEF ControlInv
      <4> QED BY <1>7, <3>1, <4>1, OpeningFacts DEF Ended
    <3>2. CASE by # Main
      BY <1>0, <1>7, <3>2 DEF Ended
    <3> QED BY <3>1, <3>2
  <2> QED BY <2>2, <2>3, <2>4, <2>5 DEF LogTypes
<1> QED BY <1>1, <1>2, <1>3, <1>4, <1>5, <1>6, <1>7 DEF LogStep

\* What ControlInv says is kept.
LEMMA ControlStep ==
    ASSUME LogTypes, ControlInv, LogStep
    PROVE  ControlInv'
<1>0. /\ file \in Seq(CellSet) /\ writer \in WriterSet /\ todo \in Openings /\ up \in BOOLEAN
      /\ writing \in WritingSet /\ faults \in [Faults -> Nat] /\ acked \in Seq(RecordSet)
      /\ writer.boot \in Nat /\ writer.seq \in Nat /\ writer.open \in BOOLEAN
  BY DEF LogTypes, WriterSet
<1>1. CASE OpenFresh
  <2>1. /\ writer' = [open |-> TRUE, boot |-> writer.boot + 1, seq |-> 0, head |-> Zero32, recovered |-> FALSE]
        /\ todo' = <<"GENESIS", "BOOT">> /\ ~writer.open
        /\ UNCHANGED <<file, up, writing>>
    BY <1>1, OpeningFacts DEF OpenFresh
  <2>2. writer'.open /\ writer'.boot = writer.boot + 1 /\ writer'.seq = 0 /\ writer'.head = Zero32
    BY <2>1
  <2>3. ~up /\ writing.by = Nobody /\ writing.rec = NoRecord
    BY <2>1 DEF ControlInv
  <2>4. todo' # <<>>
    BY <2>1
  <2> QED BY <1>0, <2>1, <2>2, <2>3, <2>4, ThreadsApart DEF ControlInv
<1>2. CASE OpenExisting
  <2>1. PICK last \in RecordSet :
              /\ writer' = [open |-> TRUE, boot |-> writer.boot + 1, seq |-> last.seq + 1,
                            head |-> Hash(last), recovered |-> ~WellFormed(file)]
              /\ file' = Truncated(file) /\ todo' = Opening(FALSE, ~WellFormed(file))
    BY <1>2, ResumeView
  <2>2. last.seq \in Nat
    BY DEF RecordSet
  <2>3. writer'.open /\ writer'.boot = writer.boot + 1 /\ writer'.seq # 0
    BY <1>0, <2>1, <2>2
  <2>4. todo' # <<>> /\ todo' # <<"GENESIS", "BOOT">>
    <3>1. /\ <<"BOOT">> # <<>> /\ <<"BOOT">> # <<"GENESIS", "BOOT">>
          /\ <<"BOOT", "RECOVERY">> # <<>> /\ <<"BOOT", "RECOVERY">> # <<"GENESIS", "BOOT">>
      OBVIOUS
    <3>2. CASE WellFormed(file)
      <4>1. todo' = <<"BOOT">>
        BY <2>1, <3>2, OpeningFacts
      <4> QED BY <3>1, <4>1
    <3>3. CASE ~WellFormed(file)
      <4>1. todo' = <<"BOOT", "RECOVERY">>
        BY <2>1, <3>3, OpeningFacts
      <4> QED BY <3>1, <4>1
    <3> QED BY <3>2, <3>3
  <2>5. ~up /\ writing.by = Nobody /\ writing.rec = NoRecord /\ UNCHANGED <<up, writing>>
    BY <1>2 DEF ControlInv, OpenExisting
  <2> QED BY <1>0, <2>3, <2>4, <2>5, ThreadsApart DEF ControlInv
<1>3. CASE Died
  <2>1. /\ writer' = [writer EXCEPT !.open = FALSE, !.seq = 0, !.head = Zero32, !.recovered = FALSE]
        /\ todo' = <<>> /\ up' = FALSE /\ writing' = [by |-> Nobody, rec |-> NoRecord]
        /\ writer.open
    BY <1>3 DEF Died, Die
  <2>2. ~writer'.open /\ ~writer'.recovered /\ writer'.boot = writer.boot
    BY <1>0, <2>1 DEF WriterSet
  <2>3. writer.boot > 0
    BY <2>1 DEF ControlInv
  <2>4. writing'.by = Nobody /\ writing'.rec = NoRecord
    BY <2>1
  <2> QED BY <1>0, <2>1, <2>2, <2>3, <2>4, ThreadsApart DEF ControlInv
<1>4. CASE Rot
  <2>1. writing.by = Nobody /\ file # <<>> /\ UNCHANGED <<writer, todo, up, writing>>
    BY <1>4, RotView DEF Rot
  <2> QED BY <2>1, ThreadsApart DEF ControlInv
<1>5. CASE Idled
  BY <1>5 DEF Idled, ControlInv
<1>6. ASSUME NEW by, NEW type, NEW ref, Begun(by, type, ref) PROVE ControlInv'
  <2>1. PICK r \in RecordSet :
              /\ r.type = type /\ r.boot = writer.boot /\ r.seq = writer.seq
              /\ r.prev = writer.head /\ ~r.rot
              /\ by \in Thread \cup {Main} /\ writer.open
              /\ writing' = [by |-> by, rec |-> r] /\ file' = Append(file, Cell("cut", r))
    BY <1>6, BegunView
  <2>2. PICK h : h = Append(file, Cell("cut", r))
    OBVIOUS
  <2>3. file' # <<>> /\ Last(file') = Cell("cut", r)
    <3>1. h # <<>> /\ Last(h) = Cell("cut", r)
      BY <1>0, <2>2, WithCut
    <3> QED BY <2>1, <2>2, <3>1
  <2>4. writing'.by = by /\ writing'.rec = r /\ UNCHANGED <<writer, todo, up>>
    BY <1>6, <2>1 DEF Begun
  <2>5. /\ by = Main => ~up /\ type = Head(todo)
        /\ by \in Thread => up /\ type \in ThreadTypes
    BY <1>6, ThreadsApart DEF Begun
  <2>6. writer.boot > 0
    BY <2>1 DEF ControlInv
  <2> QED BY <2>1, <2>3, <2>4, <2>5, <2>6, ThreadsApart DEF ControlInv
<1>7. ASSUME NEW by, Ended(by) PROVE ControlInv'
  <2>0. PICK f \in Seq(CellSet), r \in RecordSet : EndsAs(by, f, r)
    BY <1>7, EndedView
  <2>1. /\ r \in RecordSet
        /\ r.seq = writer.seq
        /\ writer' = [writer EXCEPT !.seq = writer.seq + 1, !.head = Hash(r)]
        /\ writing' = [by |-> Nobody, rec |-> NoRecord]
        /\ by = writing.by /\ by \in Thread \cup {Main} /\ writer.open
    BY <2>0 DEF EndsAs
  <2>2. /\ writer'.open /\ writer'.boot = writer.boot /\ writer'.seq # 0
        /\ writer'.recovered = writer.recovered
    BY <1>0, <2>1 DEF WriterSet
  <2>3. writing'.by = Nobody /\ writing'.rec = NoRecord
    BY <2>1
  <2>4. writer.boot > 0
    BY <2>1 DEF ControlInv
  <2>5. /\ up' <=> todo' = <<>>
        /\ todo' # <<"GENESIS", "BOOT">>
    <3>1. CASE by = Main
      <4>1. todo \in Openings \ {<<>>}
        <5>1. writing.by = Main
          BY <2>1, <3>1
        <5> QED BY <1>0, <2>1, <5>1 DEF ControlInv
      <4>2. todo' = Tail(todo) /\ up' = (Len(todo) = 1)
        BY <1>7, <3>1 DEF Ended
      <4> QED BY <4>1, <4>2, OpeningFacts
    <3>2. CASE by \in Thread
      <4>1. up /\ todo = <<>>
        BY <2>1, <3>2 DEF ControlInv
      <4>2. up' = up /\ todo' = todo
        BY <1>7, <3>2, ThreadsApart DEF Ended
      <4> QED BY <4>1, <4>2
    <3> QED BY <2>1, <3>1, <3>2
  <2> QED BY <2>1, <2>2, <2>3, <2>4, <2>5, ThreadsApart DEF ControlInv
<1> QED BY <1>1, <1>2, <1>3, <1>4, <1>5, <1>6, <1>7 DEF LogStep

-----------------------------------------------------------------------------
(* The log: numbers, references and recoveries.                             *)

\* What the log knew, it knows.
LEMMA KnownGrows ==
    ASSUME LogTypes, NEW r \in RecordSet, acked' = Append(acked, r)
    PROVE  /\ Len(acked') = Len(acked) + 1 /\ Len(acked) \in Nat
           /\ acked'[Len(acked) + 1] = r /\ \A i \in 1..Len(acked) : acked'[i] = acked[i]
           /\ \A i \in 1..Len(acked') : i \in 1..Len(acked) \/ i = Len(acked) + 1
           /\ \A h : Known(h) => Known(h)'
           /\ \A h : IsRefusal(h) => IsRefusal(h)'
           /\ Known(Hash(r))'
           /\ r.type = "GUARD" => IsRefusal(Hash(r))'
<1>1. /\ Len(acked') = Len(acked) + 1 /\ Len(acked) \in Nat
      /\ acked'[Len(acked) + 1] = r /\ \A i \in 1..Len(acked) : acked'[i] = acked[i]
  BY DEF LogTypes
<1>2. \A i \in 1..Len(acked') : i \in 1..Len(acked) \/ i = Len(acked) + 1
  BY <1>1
<1>3. \A i \in 1..Len(acked) : i \in 1..Len(acked')
  BY <1>1
<1>4. \A h : Known(h) => Known(h)'
  BY <1>1, <1>3 DEF Known
<1>5. \A h : IsRefusal(h) => IsRefusal(h)'
  BY <1>1, <1>3 DEF IsRefusal, Refusals
<1>6. Len(acked) + 1 \in 1..Len(acked')
  BY <1>1
<1> QED BY <1>1, <1>2, <1>4, <1>5, <1>6 DEF Known, IsRefusal, Refusals

LEMMA NumberStep ==
    ASSUME LogTypes, ControlInv, NumberInv, LogStep
    PROVE  NumberInv'
<1>0. /\ writer \in WriterSet /\ acked \in Seq(RecordSet) /\ Len(acked) \in Nat
      /\ writer.boot \in Nat /\ writer.seq \in Nat /\ writer.open \in BOOLEAN /\ up \in BOOLEAN
      /\ \A i \in 1..Len(acked) : acked[i] \in RecordSet /\ acked[i].boot \in Nat /\ acked[i].seq \in Nat
  <2>1. /\ writer \in WriterSet /\ acked \in Seq(RecordSet) /\ Len(acked) \in Nat /\ up \in BOOLEAN
    BY DEF LogTypes
  <2>2. \A i \in 1..Len(acked) : acked[i] \in RecordSet
    BY <2>1
  <2> QED BY <2>1, <2>2 DEF WriterSet, RecordSet
<1>1. ASSUME writer'.boot = writer.boot + 1, ~up', acked' = acked
      PROVE  NumberInv'
  <2>1. \A i \in 1..Len(acked) : /\ acked[i].boot \in 1..writer'.boot /\ ~acked[i].rot
                                 /\ acked[i].boot # writer'.boot
    BY <1>0, <1>1 DEF NumberInv
  <2> QED BY <1>1, <2>1 DEF NumberInv
<1>2. CASE OpenFresh
  <2>1. writer'.boot = writer.boot + 1 /\ ~up' /\ acked' = acked
    BY <1>2 DEF OpenFresh, ControlInv
  <2> QED BY <1>1, <2>1
<1>3. CASE OpenExisting
  <2>1. writer'.boot = writer.boot + 1 /\ ~up' /\ acked' = acked
    BY <1>3 DEF OpenExisting, ControlInv
  <2> QED BY <1>1, <2>1
<1>4. CASE Died
  <2>1. writer' = [writer EXCEPT !.open = FALSE, !.seq = 0, !.head = Zero32, !.recovered = FALSE]
    BY <1>4 DEF Died, Die
  <2>2. ~writer'.open /\ writer'.boot = writer.boot
    BY <1>0, <2>1 DEF WriterSet
  <2>3. ~up' /\ acked' = acked
    BY <1>4 DEF Died, Die
  <2> QED BY <2>2, <2>3 DEF NumberInv
<1>5. CASE Rot \/ Idled \/ \E by, type, ref : Begun(by, type, ref)
  <2>1. UNCHANGED <<writer, up, acked>>
    BY <1>5 DEF Rot, Idled, Begun
  <2> QED BY <2>1 DEF NumberInv, Known
<1>6. ASSUME NEW by, Ended(by) PROVE NumberInv'
  <2>0. PICK f \in Seq(CellSet), r \in RecordSet : EndsAs(by, f, r)
    BY <1>6, EndedView
  <2>1. /\ r \in RecordSet
        /\ r.boot = writer.boot /\ r.seq = writer.seq /\ ~r.rot
        /\ acked' = Append(acked, r)
        /\ writer' = [writer EXCEPT !.seq = writer.seq + 1, !.head = Hash(r)]
        /\ writer.open
    BY <2>0 DEF EndsAs
  <2>2. writer'.boot = writer.boot /\ writer'.seq = writer.seq + 1 /\ writer'.head = Hash(r) /\ writer'.open
    BY <1>0, <2>1 DEF WriterSet
  <2>3. /\ Len(acked') = Len(acked) + 1
        /\ acked'[Len(acked) + 1] = r /\ \A i \in 1..Len(acked) : acked'[i] = acked[i]
        /\ \A i \in 1..Len(acked') : i \in 1..Len(acked) \/ i = Len(acked) + 1
        /\ Known(Hash(r))'
    BY <2>1, KnownGrows
  <2>4. writer.boot > 0
    BY <2>1 DEF ControlInv
  <2>5. \A i \in 1..Len(acked) : /\ acked[i].boot \in 1..writer.boot /\ ~acked[i].rot
                                 /\ acked[i].boot = writer.boot => acked[i].seq < writer.seq
    BY <2>1 DEF NumberInv
  <2>6. \A i \in 1..Len(acked') :
          /\ acked'[i].boot \in 1..writer'.boot /\ ~acked'[i].rot
          /\ acked'[i].boot = writer'.boot => acked'[i].seq < writer'.seq
    <3> TAKE i \in 1..Len(acked')
    <3>1. CASE i \in 1..Len(acked)
      BY <1>0, <2>2, <2>3, <2>5, <3>1
    <3>2. CASE i = Len(acked) + 1
      BY <1>0, <2>1, <2>2, <2>3, <2>4, <3>2
    <3> QED BY <2>3, <3>1, <3>2
  <2>7. ASSUME NEW i \in 1..Len(acked'), NEW j \in 1..Len(acked'), i < j
        PROVE  \/ acked'[i].boot < acked'[j].boot
               \/ acked'[i].boot = acked'[j].boot /\ acked'[i].seq < acked'[j].seq
    <3>1. i \in 1..Len(acked)
      BY <1>0, <2>3, <2>7
    <3>2. CASE j \in 1..Len(acked)
      BY <2>3, <2>7, <3>1, <3>2 DEF NumberInv
    <3>3. CASE j = Len(acked) + 1
      BY <1>0, <2>1, <2>3, <2>5, <3>1, <3>3
    <3> QED BY <2>3, <3>2, <3>3
  <2>8. \E i \in 1..Len(acked') : writer'.head = Hash(acked'[i])
    BY <2>2, <2>3 DEF Known
  <2> QED BY <2>6, <2>7, <2>8 DEF NumberInv, Known
<1> QED BY <1>2, <1>3, <1>4, <1>5, <1>6 DEF LogStep

\* No two records have the same hash.
LEMMA HashesDiffer ==
    ASSUME LogTypes, NumberInv, NEW i \in 1..Len(acked), NEW j \in 1..Len(acked),
           Hash(acked[i]) = Hash(acked[j])
    PROVE  i = j
<1>1. /\ acked \in Seq(RecordSet) /\ Len(acked) \in Nat
      /\ acked[i].boot \in Nat /\ acked[i].seq \in Nat
      /\ acked[j].boot \in Nat /\ acked[j].seq \in Nat
  <2>1. acked[i] \in RecordSet /\ acked[j] \in RecordSet
    BY DEF LogTypes
  <2>2. acked \in Seq(RecordSet) /\ Len(acked) \in Nat
    BY DEF LogTypes
  <2>3. \A r \in RecordSet : r.boot \in Nat /\ r.seq \in Nat
    BY DEF RecordSet
  <2> QED BY <2>1, <2>2, <2>3
<1>2. ~acked[i].rot /\ ~acked[j].rot
  BY DEF NumberInv
<1>3. acked[i].boot = acked[j].boot /\ acked[i].seq = acked[j].seq
  BY <1>1, <1>2 DEF Hash
<1>4. ~(i < j)
  BY <1>1, <1>3 DEF NumberInv
<1>5. ~(j < i)
  BY <1>1, <1>3 DEF NumberInv
<1> QED BY <1>1, <1>4, <1>5

\* Nor has the one that is being written the hash of an older one.
LEMMA NewHash ==
    ASSUME LogTypes, NumberInv, NEW r \in RecordSet, writer.open,
           r.boot = writer.boot, r.seq = writer.seq, ~r.rot
    PROVE  /\ \A i \in 1..Len(acked) : Hash(acked[i]) # Hash(r)
           /\ Hash(r) # Zero32
<1>1. /\ r.boot \in Nat /\ r.seq \in Nat
  BY DEF RecordSet
<1>2. ASSUME NEW i \in 1..Len(acked) PROVE Hash(acked[i]) # Hash(r)
  <2>1. acked[i] \in RecordSet
    BY DEF LogTypes
  <2>2. acked[i].boot \in Nat /\ acked[i].seq \in Nat
    BY <2>1 DEF RecordSet
  <2>3. ~acked[i].rot /\ (acked[i].boot = writer.boot => acked[i].seq < writer.seq)
    BY DEF NumberInv
  <2> QED BY <1>1, <2>2, <2>3 DEF Hash
<1>3. Hash(r) # Zero32
  BY <1>1 DEF Hash, Zero32
<1> QED BY <1>2, <1>3

LEMMA ReferenceStep ==
    ASSUME LogTypes, ControlInv, ReferenceInv, LogStep
    PROVE  ReferenceInv'
<1>0. RefersOk("NONE", Zero32)'
  BY DEF RefersOk
<1>1. CASE OpenFresh \/ OpenExisting \/ Rot \/ Idled
  <2>1. UNCHANGED <<writing, acked>>
    BY <1>1 DEF OpenFresh, OpenExisting, Rot, Idled
  <2> QED BY <2>1 DEF ReferenceInv, RefersOk, Known
<1>2. CASE Died
  <2>1. writing'.rec = NoRecord /\ acked' = acked
    BY <1>2 DEF Died, Die
  <2>2. writing'.rec.type = "NONE" /\ writing'.rec.ref = Zero32
    BY <2>1, NoRecordType
  <2> QED BY <2>1, <2>2, <1>0 DEF ReferenceInv, RefersOk
<1>3. ASSUME NEW by, NEW type, NEW ref, Begun(by, type, ref) PROVE ReferenceInv'
  <2>1. PICK r \in RecordSet : r.type = type /\ r.ref = ref /\ writing' = [by |-> by, rec |-> r]
    BY <1>3, BegunView
  <2>2. writing'.rec.type = type /\ writing'.rec.ref = ref /\ acked' = acked
    BY <1>3, <2>1 DEF Begun
  <2>3. RefersOk(type, ref)
    BY <1>3 DEF Begun
  <2> QED BY <2>2, <2>3 DEF ReferenceInv, RefersOk, Known
<1>4. ASSUME NEW by, Ended(by) PROVE ReferenceInv'
  <2>0. PICK f \in Seq(CellSet), r \in RecordSet : EndsAs(by, f, r)
    BY <1>4, EndedView
  <2>1. /\ r \in RecordSet
        /\ r = writing.rec /\ acked' = Append(acked, r)
        /\ writing' = [by |-> Nobody, rec |-> NoRecord]
    BY <2>0 DEF EndsAs
  <2>2. writing'.rec.type = "NONE" /\ writing'.rec.ref = Zero32
    BY <2>1, NoRecordType
  <2>3. /\ Len(acked') = Len(acked) + 1 /\ Len(acked) \in Nat
        /\ acked'[Len(acked) + 1] = r /\ \A i \in 1..Len(acked) : acked'[i] = acked[i]
        /\ \A i \in 1..Len(acked') : i \in 1..Len(acked) \/ i = Len(acked) + 1
    BY <2>1, KnownGrows
  <2>4. ASSUME NEW i \in 1..Len(acked'), acked'[i].ref # Zero32 \/ acked'[i].type = "ANCHOR"
        PROVE  \E j \in 1..(i - 1) : acked'[i].ref = Hash(acked'[j])
    <3>1. CASE i \in 1..Len(acked)
      <4>1. PICK j \in 1..(i - 1) : acked[i].ref = Hash(acked[j])
        BY <2>3, <2>4, <3>1 DEF ReferenceInv
      <4>2. j \in 1..Len(acked)
        BY <2>3, <3>1
      <4> QED BY <2>3, <3>1, <4>1, <4>2
    <3>2. CASE i = Len(acked) + 1
      <4>1. Known(r.ref)
        BY <2>1, <2>3, <2>4, <3>2 DEF ReferenceInv, RefersOk
      <4>2. PICK j \in 1..Len(acked) : r.ref = Hash(acked[j])
        BY <4>1 DEF Known
      <4> QED BY <2>3, <3>2, <4>2
    <3> QED BY <2>3, <3>1, <3>2
  <2> QED BY <1>0, <2>2, <2>4 DEF ReferenceInv, RefersOk
<1> QED BY <1>1, <1>2, <1>3, <1>4 DEF LogStep

LEMMA RecoveryStep ==
    ASSUME LogTypes, ControlInv, RecoveryInv, LogStep
    PROVE  RecoveryInv'
<1>0. /\ acked \in Seq(RecordSet) /\ Len(acked) \in Nat /\ writer \in WriterSet /\ todo \in Openings
      /\ <<"BOOT">> # <<"RECOVERY">> /\ <<"GENESIS", "BOOT">> # <<"RECOVERY">>
      /\ <<"BOOT", "RECOVERY">> # <<"RECOVERY">> /\ <<>> # <<"RECOVERY">>
      /\ <<"BOOT", "RECOVERY">> # <<>>
  BY DEF LogTypes
<1>1. CASE OpenFresh
  <2>1. todo' = <<"GENESIS", "BOOT">> /\ ~writer'.recovered /\ acked' = acked
    BY <1>1, OpeningFacts DEF OpenFresh
  <2> QED BY <1>0, <2>1 DEF RecoveryInv
<1>2. CASE OpenExisting
  <2>1. PICK last \in RecordSet :
              /\ writer' = [open |-> TRUE, boot |-> writer.boot + 1, seq |-> last.seq + 1,
                            head |-> Hash(last), recovered |-> ~WellFormed(file)]
              /\ todo' = Opening(FALSE, ~WellFormed(file))
    BY <1>2, ResumeView
  <2>2. ~up' /\ acked' = acked
    BY <1>2 DEF OpenExisting, ControlInv
  <2>3. CASE WellFormed(file)
    <3>1. todo' = <<"BOOT">> /\ ~writer'.recovered
      BY <2>1, <2>3, OpeningFacts
    <3> QED BY <1>0, <2>2, <3>1 DEF RecoveryInv
  <2>4. CASE ~WellFormed(file)
    <3>1. todo' = <<"BOOT", "RECOVERY">>
      BY <2>1, <2>4, OpeningFacts
    <3> QED BY <1>0, <2>2, <3>1 DEF RecoveryInv
  <2> QED BY <2>3, <2>4
<1>3. CASE Died
  <2>1. writer' = [writer EXCEPT !.open = FALSE, !.seq = 0, !.head = Zero32, !.recovered = FALSE]
    BY <1>3 DEF Died, Die
  <2>2. ~writer'.recovered
    BY <1>0, <2>1 DEF WriterSet
  <2>3. todo' = <<>> /\ acked' = acked
    BY <1>3 DEF Died, Die
  <2> QED BY <1>0, <2>2, <2>3 DEF RecoveryInv
<1>4. CASE Rot \/ Idled \/ \E by, type, ref : Begun(by, type, ref)
  <2>1. UNCHANGED <<writer, todo, up, acked>>
    BY <1>4 DEF Rot, Idled, Begun
  <2> QED BY <2>1 DEF RecoveryInv
<1>5. ASSUME NEW by, Ended(by) PROVE RecoveryInv'
  <2>0. PICK f \in Seq(CellSet), r \in RecordSet : EndsAs(by, f, r)
    BY <1>5, EndedView
  <2>1. /\ r \in RecordSet
        /\ r = writing.rec /\ r.boot = writer.boot /\ acked' = Append(acked, r)
        /\ writer' = [writer EXCEPT !.seq = writer.seq + 1, !.head = Hash(r)]
        /\ by = writing.by /\ by \in Thread \cup {Main} /\ writer.open
    BY <2>0 DEF EndsAs
  <2>2. /\ writer'.boot = writer.boot /\ writer'.recovered = writer.recovered
    BY <1>0, <2>1 DEF WriterSet
  <2>3. /\ Len(acked') = Len(acked) + 1 /\ Len(acked) \in Nat
        /\ acked'[Len(acked) + 1] = r /\ \A i \in 1..Len(acked) : acked'[i] = acked[i]
        /\ \A i \in 1..Len(acked') : i \in 1..Len(acked) \/ i = Len(acked) + 1
    BY <2>1, KnownGrows
  <2>4. \/ /\ by = Main /\ ~up /\ todo \in Openings \ {<<>>} /\ r.type = Head(todo)
           /\ todo' = Tail(todo) /\ up' = (Len(todo) = 1)
        \/ /\ by \in Thread /\ up /\ todo = <<>> /\ r.type \in ThreadTypes
           /\ todo' = todo /\ up' = up
    <3>1. CASE by = Main
      BY <1>0, <1>5, <2>1, <3>1 DEF ControlInv, Ended
    <3>2. CASE by \in Thread
      BY <1>5, <2>1, <3>2, ThreadsApart DEF ControlInv, Ended
    <3> QED BY <2>1, <3>1, <3>2
  <2>5. ASSUME NEW i \in 1..Len(acked'), acked'[i].type = "RECOVERY"
        PROVE  i > 1 /\ acked'[i - 1].type = "BOOT" /\ acked'[i - 1].boot = acked'[i].boot
    <3>1. CASE i \in 1..Len(acked)
      <4>1. i > 1 /\ acked[i - 1].type = "BOOT" /\ acked[i - 1].boot = acked[i].boot
        BY <2>3, <2>5, <3>1 DEF RecoveryInv
      <4>2. i - 1 \in 1..Len(acked)
        BY <2>3, <3>1, <4>1
      <4> QED BY <2>3, <3>1, <4>1, <4>2
    <3>2. CASE i = Len(acked) + 1
      <4>1. todo = <<"RECOVERY">>
        BY <2>3, <2>4, <2>5, <3>2, OpeningFacts DEF ThreadTypes
      <4>2. acked # <<>> /\ acked[Len(acked)].type = "BOOT" /\ acked[Len(acked)].boot = writer.boot
        BY <4>1 DEF RecoveryInv
      <4>3. Len(acked) \in 1..Len(acked)
        BY <1>0, <4>2
      <4>4. i - 1 = Len(acked)
        BY <2>3, <3>2
      <4> QED BY <2>1, <2>3, <3>2, <4>2, <4>3, <4>4
    <3> QED BY <2>3, <3>1, <3>2
  <2>6. ASSUME todo' = <<"RECOVERY">>
        PROVE  /\ acked' # <<>> /\ acked'[Len(acked')].type = "BOOT"
               /\ acked'[Len(acked')].boot = writer'.boot
    <3>1. todo = <<"BOOT", "RECOVERY">> /\ r.type = "BOOT"
      BY <1>0, <2>4, <2>6, OpeningFacts
    <3>2. acked' # <<>>
      BY <2>3
    <3> QED BY <2>1, <2>2, <2>3, <3>1, <3>2
  <2>7. ASSUME writer'.recovered, ~up' PROVE todo' \in {<<"BOOT", "RECOVERY">>, <<"RECOVERY">>}
    <3>1. by = Main /\ todo \in {<<"BOOT", "RECOVERY">>, <<"RECOVERY">>}
      BY <2>2, <2>4, <2>7 DEF RecoveryInv
    <3>2. Len(todo) # 1 /\ todo' = Tail(todo) /\ todo # <<>>
      BY <2>4, <2>7, <3>1, ThreadsApart
    <3>3. todo # <<"RECOVERY">>
      BY <1>0, <3>2, OpeningFacts
    <3> QED BY <1>0, <3>1, <3>2, <3>3, OpeningFacts
  <2>8. ASSUME writer'.recovered, up'
        PROVE  \E i \in 1..(Len(acked') - 1) : /\ acked'[i].type = "BOOT" /\ acked'[i].boot = writer'.boot
                                               /\ acked'[i + 1].type = "RECOVERY"
    <3>1. CASE up
      <4>1. PICK i \in 1..(Len(acked) - 1) : /\ acked[i].type = "BOOT" /\ acked[i].boot = writer.boot
                                             /\ acked[i + 1].type = "RECOVERY"
        BY <2>2, <2>8, <3>1 DEF RecoveryInv
      <4>2. i \in 1..(Len(acked') - 1) /\ i \in 1..Len(acked) /\ i + 1 \in 1..Len(acked)
        BY <2>3
      <4> QED BY <2>2, <2>3, <4>1, <4>2
    <3>2. CASE ~up
      <4>1. by = Main /\ Len(todo) = 1 /\ todo \in {<<"BOOT", "RECOVERY">>, <<"RECOVERY">>}
        BY <2>2, <2>4, <2>8, <3>2 DEF RecoveryInv
      <4>2. todo = <<"RECOVERY">> /\ r.type = "RECOVERY"
        <5>1. Len(<<"BOOT", "RECOVERY">>) = 2
          OBVIOUS
        <5>2. todo = <<"RECOVERY">>
          BY <4>1, <5>1
        <5> QED BY <1>0, <2>4, <3>2, <5>2, OpeningFacts
      <4>3. acked # <<>> /\ acked[Len(acked)].type = "BOOT" /\ acked[Len(acked)].boot = writer.boot
        BY <4>2 DEF RecoveryInv
      <4>4. Len(acked) \in 1..Len(acked) /\ Len(acked) \in 1..(Len(acked') - 1)
        BY <1>0, <2>3, <4>3
      <4> QED BY <2>2, <2>3, <4>2, <4>3, <4>4
    <3> QED BY <3>1, <3>2
  <2> QED BY <2>5, <2>6, <2>7, <2>8 DEF RecoveryInv
<1> QED BY <1>1, <1>2, <1>3, <1>4, <1>5 DEF LogStep

-----------------------------------------------------------------------------
(* The threads.                                                             *)

\* What holds when the process has died.
LEMMA DeadThreads ==
    ASSUME QueueTypes, Die, UNCHANGED <<stored, clock, escalations>>
    PROVE  /\ QueueTypes'
           /\ \A t \in Thread : pc'[t] = "idle" /\ arg'[t] = NoArg
           /\ guards' = <<>> /\ ~up' /\ writing'.by = Nobody
<1>1. /\ pc' = [t \in Thread |-> "idle"] /\ arg' = [t \in Thread |-> NoArg]
      /\ guards' = <<>> /\ failures' = 0 /\ up' = FALSE
      /\ writing' = [by |-> Nobody, rec |-> NoRecord]
  BY DEF Die
<1>2. NoArg \in ArgSet
  BY ZeroIsHash DEF NoArg, ArgSet
<1>3. "idle" \in PcSet
  BY DEF PcSet
<1>4. pc' \in [Thread -> PcSet] /\ arg' \in [Thread -> ArgSet]
  BY <1>1, <1>2, <1>3
<1>5. guards' \in Seq(GuardSet)
  BY <1>1
<1> QED BY <1>1, <1>4, <1>5 DEF QueueTypes

\* The refusals that are still in the window: the last of them is the newest.
IsKept(kept, queue, g) ==
    \E m \in 0..Len(queue) :
       /\ kept \in Seq(GuardSet) /\ Len(kept) = Len(queue) + 1 - m
       /\ \A k \in 1..Len(kept) : kept[k] = Append(queue, g)[k + m]
       /\ kept[Len(kept)] = g
       /\ \A i \in 1..m : queue[i].time < g.time - GuardWindow
       /\ kept[1].time >= g.time - GuardWindow

LEMMA KeptFacts ==
    ASSUME NEW queue \in Seq(GuardSet), NEW g \in GuardSet
    PROVE  IsKept(InWindow(Append(queue, g), g.time), queue, g)
<1> DEFINE kept == InWindow(Append(queue, g), g.time)
<1> DEFINE q == Append(queue, g)
           I == {i \in 1..Len(q) : q[i].time >= g.time - GuardWindow}
<1>1. /\ q \in Seq(GuardSet) /\ Len(q) = Len(queue) + 1 /\ Len(queue) \in Nat
      /\ q[Len(queue) + 1] = g /\ \A i \in 1..Len(queue) : q[i] = queue[i]
  OBVIOUS
<1>2. GuardWindow \in Nat /\ g.time \in Nat
  BY BoundAssumption DEF GuardSet
<1>3. \A i \in 1..Len(q) : q[i].time \in Nat
  <2>1. \A i \in 1..Len(q) : q[i] \in GuardSet
    <3> HIDE DEF q
    <3> QED BY <1>1
  <2> QED BY <2>1 DEF GuardSet
<1>4. Len(queue) + 1 \in I
  BY <1>1, <1>2
<1>5. PICK o \in I : \A i \in I : o <= i
  <2>1. I \subseteq Nat /\ I # {}
    BY <1>1, <1>4
  <2> HIDE DEF I
  <2> QED BY <2>1, LeastNat
<1>6. SelectInSeq(q, LAMBDA x : x.time >= g.time - GuardWindow) = o
  <2>1. SelectInSeq(q, LAMBDA x : x.time >= g.time - GuardWindow) = IF I # {} THEN Min(I) ELSE 0
    BY DEF SelectInSeq
  <2>2. Min(I) = CHOOSE x \in I : \A y \in I : x <= y
    BY DEF Min
  <2>3. \A x \in I : (\A y \in I : x <= y) => x = o
    BY <1>1, <1>5
  <2>4. Min(I) = o
    <3> HIDE DEF I
    <3> QED BY <1>5, <2>2, <2>3
  <2> QED BY <1>4, <2>1, <2>4
<1>7. kept = SubSeq(q, o, Len(q))
  BY <1>6 DEF InWindow
<1>8. PICK m \in 0..Len(queue) : o = m + 1
  <2>1. o - 1 \in 0..Len(queue) /\ o = (o - 1) + 1
    BY <1>1, <1>5
  <2> QED BY <2>1
<1> HIDE DEF kept
<1>9. /\ kept \in Seq(GuardSet) /\ Len(kept) = Len(queue) + 1 - m
      /\ \A k \in 1..Len(kept) : kept[k] = q[k + m]
  <2> HIDE DEF q
  <2>1. kept = SubSeq(q, m + 1, Len(queue) + 1)
    BY <1>1, <1>7, <1>8
  <2> QED BY <1>1, <1>8, <2>1
<1>10. \A i \in 1..m : queue[i].time < g.time - GuardWindow
  <2> TAKE i \in 1..m
  <2>1. i \in 1..Len(queue) /\ i \in 1..Len(q) /\ i < o
    BY <1>1, <1>8
  <2>2. i \notin I
    BY <1>1, <1>5, <2>1
  <2> QED BY <1>1, <1>2, <1>3, <2>1, <2>2
<1>11. kept[Len(kept)] = g /\ kept[1].time >= g.time - GuardWindow
  <2>1. Len(kept) \in 1..Len(kept) /\ 1 \in 1..Len(kept) /\ Len(kept) + m = Len(queue) + 1 /\ 1 + m = o
    BY <1>1, <1>8, <1>9
  <2>2. q[o].time >= g.time - GuardWindow
    BY <1>5
  <2> HIDE DEF q
  <2> QED BY <1>1, <1>9, <2>1, <2>2
<1> HIDE DEF kept
<1>12. IsKept(kept, queue, g)
  BY <1>9, <1>10, <1>11 DEF IsKept
<1> QED BY <1>12 DEF kept

\* What a thread notes, counts and keeps.
LEMMA NoteView ==
    ASSUME QueueTypes, NEW t \in Thread, NoteGuard(t)
    PROVE  \E kept \in Seq(GuardSet) :
              /\ IsKept(kept, guards, Refusal(t))
              /\ Refusal(t) \in GuardSet /\ Refusal(t).time = arg[t].time /\ Refusal(t).ref = arg[t].ret
              /\ Len(kept) >= 1
              /\ pc[t] = "clocked"
              /\ \/ /\ Len(kept) >= GuardThreshold
                    /\ guards' = <<>> /\ escalations' = Append(escalations, kept)
                    /\ pc' = [pc EXCEPT ![t] = "GUARD_ESCALATION"]
                    /\ arg' = [arg EXCEPT ![t] = [NoArg EXCEPT !.ref = kept[Len(kept)].ref]]
                 \/ /\ Len(kept) < GuardThreshold
                    /\ guards' = kept /\ escalations' = escalations
                    /\ pc' = [pc EXCEPT ![t] = "idle"]
                    /\ arg' = [arg EXCEPT ![t] = NoArg]
              /\ UNCHANGED <<file, writer, todo, up, writing, failures, stored, clock, faults, acked>>
<1>1. arg[t] \in ArgSet /\ guards \in Seq(GuardSet)
  BY DEF QueueTypes
<1>2. Refusal(t) \in GuardSet /\ Refusal(t).time = arg[t].time /\ Refusal(t).ref = arg[t].ret
  BY <1>1 DEF Refusal, GuardSet, ArgSet
<1>3. PICK kept : kept = InWindow(Append(guards, Refusal(t)), arg[t].time)
  OBVIOUS
<1>4. kept \in Seq(GuardSet) /\ Len(kept) >= 1 /\ IsKept(kept, guards, Refusal(t))
  <2>1. kept = InWindow(Append(guards, Refusal(t)), Refusal(t).time)
    BY <1>2, <1>3
  <2>2. PICK g \in GuardSet : g = Refusal(t)
    BY <1>2
  <2>3. kept = InWindow(Append(guards, g), g.time)
    BY <2>1, <2>2
  <2>4. IsKept(kept, guards, g)
    BY <1>1, <2>2, <2>3, KeptFacts
  <2>5. kept \in Seq(GuardSet) /\ Len(kept) >= 1
    BY <1>1, <2>4 DEF IsKept
  <2> QED BY <2>2, <2>4, <2>5
<1>5. GuardThreshold \in Nat
  BY ThresholdAssumption
<1>6. Last(kept) = kept[Len(kept)]
  BY DEF Last
<1>7. CASE Len(kept) >= GuardThreshold
  BY <1>2, <1>3, <1>4, <1>6, <1>7 DEF NoteGuard, AfterEscalation
<1>8. CASE ~(Len(kept) >= GuardThreshold)
  BY <1>2, <1>3, <1>4, <1>5, <1>8 DEF NoteGuard
<1> QED BY <1>7, <1>8

\* A process that serves has nothing left of its opening.
LEMMA UpMonotone ==
    ASSUME LogTypes, ControlInv, NEW by, Ended(by), up
    PROVE  up' = up
<1>1. by = writing.by /\ by \in Thread \cup {Main}
  BY EndedView DEF EndsAs
<1>2. by # Main
  BY <1>1 DEF ControlInv
<1> QED BY <1>2 DEF Ended

\* A self-check fails for no other reason than a record that rotted.
LEMMA FailsForRot ==
    ASSUME LogTypes, WalkInv, SelfCheckFails
    PROVE  faults["rot"] # 0
<1> SUFFICES ASSUME faults["rot"] = 0 PROVE FALSE
  OBVIOUS
<1>1. file \in Seq(CellSet)
  BY DEF LogTypes
<1>2. PICK recs \in Seq(RecordSet) : recs = Records(file)
  BY <1>1, RecordsTypes
<1>3. Linked(recs)
  <2>1. Linked(Reach(file))
    BY DEF WalkInv
  <2>2. CASE Records(file) = Reach(file)
    BY <1>2, <2>1, <2>2
  <2>3. ASSUME NEW r \in RecordSet, Reach(file) = Append(Records(file), r) PROVE Linked(recs)
    <3>1. Linked(Append(recs, r))
      BY <1>2, <2>1, <2>3
    <3> QED BY <1>2, <3>1, LinkedAppend
  <2> QED BY <1>1, <2>2, <2>3, RecordsInReach
<1>4. \A k \in 1..Len(recs) : ~recs[k].rot
  <2> TAKE k \in 1..Len(recs)
  <2>1. PICK i \in 1..Len(file) : recs[k] = file[i].rec
    BY <1>1, <1>2, RecordsTypes
  <2> QED BY <2>1 DEF WalkInv
<1>5. Breaks(recs) = {} /\ Gaps(recs) = {} /\ Violations(recs) = {}
  <2>0. Len(recs) \in Nat /\ DOMAIN recs = 1..Len(recs)
    BY <1>2
  <2>1. \A i \in 2..Len(recs) : recs[i].prev = Hash(recs[i - 1]) /\ recs[i].seq = recs[i - 1].seq + 1
    <3> TAKE i \in 2..Len(recs)
    <3>1. i - 1 \in 1..Len(recs)
      BY <2>0
    <3> QED BY <1>3, <1>4, <3>1 DEF Linked
  <2>2. Breaks(recs) = {}
    BY <2>0, <2>1 DEF Breaks, PrevOf
  <2>3. Gaps(recs) = {}
    BY <2>1 DEF Gaps
  <2>4. Violations(recs) = {}
    BY <1>3, <2>0 DEF Violations, Linked
  <2> QED BY <2>2, <2>3, <2>4
<1>6. ~ChainOk(recs)
  BY <1>2 DEF SelfCheckFails
<1> QED BY <1>5, <1>6 DEF ChainOk

\* A thread moves on, and writes nothing.
LEMMA ThreadMoves ==
    ASSUME TypesInv, LogInv, NEW t \in Thread, NEW p \in PcSet, NEW a \in ArgSet,
           pc' = [pc EXCEPT ![t] = p], arg' = [arg EXCEPT ![t] = a],
           UNCHANGED <<up, acked, writing>>, FaultsGrow, pc[t] # "writing", p # "writing",
           up, RefersOk(p, a.ref), p = "SELF_CHECK_FAILED" => faults["rot"] > 0,
           stored' = stored \/ stored' = writer.head,
           guards' \in Seq(GuardSet), escalations' \in Seq(Seq(GuardSet)), failures' \in Nat,
           clock' = clock
    PROVE  QueueTypes' /\ ThreadInv'
<1>0. /\ pc \in [Thread -> PcSet] /\ arg \in [Thread -> ArgSet]
      /\ stored \in Hashes /\ clock \in Nat
      /\ NumberInv /\ ThreadInv
      /\ faults \in [Faults -> Nat] /\ writer.head \in Hashes
  BY DEF TypesInv, QueueTypes, LogInv, LogTypes, WriterSet
<1>1. /\ pc' \in [Thread -> PcSet] /\ arg' \in [Thread -> ArgSet]
      /\ pc'[t] = p /\ arg'[t] = a
      /\ \A u \in Thread \ {t} : pc'[u] = pc[u] /\ arg'[u] = arg[u]
  BY <1>0
<1>2. QueueTypes'
  BY <1>0, <1>1 DEF QueueTypes
<1>3. faults["rot"] > 0 => faults'["rot"] > 0
  BY <1>0 DEF FaultsGrow, Faults
<1>4. stored' # Zero32 => \E i \in 1..Len(acked') : stored' = Hash(acked'[i])
  BY <1>0 DEF ThreadInv, NumberInv, Known
<1>5. ASSUME NEW u \in Thread
      PROVE  /\ pc'[u] = "writing" <=> writing'.by = u
             /\ pc'[u] # "idle" => up'
             /\ (arg'[u].ref # Zero32 \/ pc'[u] = "ANCHOR") => \E i \in 1..Len(acked') : arg'[u].ref = Hash(acked'[i])
             /\ pc'[u] = "SELF_CHECK_FAILED" => faults'["rot"] > 0
  <2>1. CASE u = t
    <3>1. writing.by # t
      BY <1>0 DEF ThreadInv
    <3> QED BY <1>1, <1>3, <2>1, <3>1 DEF RefersOk, Known
  <2>2. CASE u # t
    BY <1>0, <1>1, <1>3, <2>2 DEF ThreadInv, RefersOk, Known
  <2> QED BY <2>1, <2>2
<1> QED BY <1>2, <1>4, <1>5 DEF ThreadInv, RefersOk, Known

\* A thread's write begins, or raises.
LEMMA ThreadBegins ==
    ASSUME TypesInv, LogInv, NEW t \in Thread, NEW type, NEW ref, EmitBegins(t, type, ref),
           up, pc[t] # "writing"
    PROVE  QueueTypes' /\ ThreadInv'
<1>0. /\ pc \in [Thread -> PcSet] /\ arg \in [Thread -> ArgSet]
      /\ stored \in Hashes /\ clock \in Nat /\ guards \in Seq(GuardSet) /\ failures \in Nat
      /\ escalations \in Seq(Seq(GuardSet))
      /\ NumberInv /\ ThreadInv /\ LogTypes
  BY DEF TypesInv, QueueTypes, LogInv
<1>1. NoArg \in ArgSet /\ NoArg.ref = Zero32
  BY ZeroIsHash DEF NoArg, ArgSet
<1>2. "writing" \in PcSet /\ "idle" \in PcSet
  BY DEF PcSet
<1>3. CASE BeginWrite(t, type, ref)
  <2>1. /\ pc' = [pc EXCEPT ![t] = "writing"] /\ arg' = [arg EXCEPT ![t] = NoArg]
        /\ UNCHANGED <<writer, todo, up, auditVars, acked, faults>>
        /\ writing.by = Nobody /\ writing' = [by |-> t, rec |-> NextRecord(t, type, ref)]
    <3>1. RaiseWrite => faults' = [faults EXCEPT !["raise"] = faults["raise"] + Weight("raise")]
      BY DEF RaiseWrite, Fault
    <3>2. BeginWrite(t, type, ref) => faults' = faults
      BY DEF BeginWrite
    <3>3. [faults EXCEPT !["raise"] = faults["raise"] + Weight("raise")] # faults
      BY <1>0 DEF LogTypes, Faults, Weight
    <3>4. ~RaiseWrite
      BY <1>3, <3>1, <3>2, <3>3
    <3> QED BY <1>3, <3>2, <3>4 DEF EmitBegins, BeginWrite
  <2>2. /\ pc' \in [Thread -> PcSet] /\ arg' \in [Thread -> ArgSet]
        /\ pc'[t] = "writing" /\ arg'[t] = NoArg
        /\ \A u \in Thread \ {t} : pc'[u] = pc[u] /\ arg'[u] = arg[u]
    BY <1>0, <1>1, <1>2, <2>1
  <2>3. QueueTypes'
    BY <1>0, <2>1, <2>2 DEF QueueTypes, auditVars
  <2>4. writing'.by = t /\ \A u \in Thread : pc[u] # "writing"
    BY <1>0, <2>1, ThreadsApart DEF ThreadInv
  <2>5. UNCHANGED <<stored, guards, acked, up, faults>>
    BY <2>1 DEF auditVars
  <2>6. ASSUME NEW u \in Thread
        PROVE  /\ pc'[u] = "writing" <=> writing'.by = u
               /\ pc'[u] # "idle" => up'
               /\ (arg'[u].ref # Zero32 \/ pc'[u] = "ANCHOR") => \E i \in 1..Len(acked') : arg'[u].ref = Hash(acked'[i])
               /\ pc'[u] = "SELF_CHECK_FAILED" => faults'["rot"] > 0
    <3>1. CASE u = t
      BY <1>1, <2>2, <2>4, <2>5, <3>1
    <3>2. CASE u # t
      BY <1>0, <2>2, <2>4, <2>5, <3>2 DEF ThreadInv, RefersOk, Known
    <3> QED BY <3>1, <3>2
  <2> QED BY <1>0, <2>3, <2>5, <2>6 DEF ThreadInv, RefersOk, Known
<1>4. CASE RaiseWrite /\ pc' = [pc EXCEPT ![t] = "idle"] /\ arg' = [arg EXCEPT ![t] = NoArg]
           /\ UNCHANGED <<file, writing, writer, todo, up, auditVars, acked>>
  <2>1. FaultsGrow
    BY <1>0, <1>4, FaultGrows DEF RaiseWrite, Faults
  <2>2. UNCHANGED <<stored, guards, acked, up, writing, escalations, failures, clock>>
    BY <1>4 DEF auditVars
  <2>3. RefersOk("idle", NoArg.ref)
    BY <1>1 DEF RefersOk
  <2> QED BY <1>0, <1>1, <1>2, <1>4, <2>1, <2>2, <2>3, ThreadMoves
<1> QED BY <1>3, <1>4 DEF EmitBegins

\* A thread's write ends.
LEMMA ThreadEnds ==
    ASSUME TypesInv, LogInv, NEW t \in Thread, EmitEnds(t)
    PROVE  QueueTypes' /\ ThreadInv'
<1>0. /\ pc \in [Thread -> PcSet] /\ arg \in [Thread -> ArgSet]
      /\ stored \in Hashes /\ clock \in Nat /\ guards \in Seq(GuardSet) /\ failures \in Nat
      /\ escalations \in Seq(Seq(GuardSet))
      /\ NumberInv /\ ThreadInv /\ LogTypes /\ ControlInv
      /\ arg[t] \in ArgSet
  BY DEF TypesInv, QueueTypes, LogInv
<1>1. Ended(t)
  BY ThreadsApart DEF Ended, EmitEnds
<1>2. PICK r \in RecordSet : /\ acked' = Append(acked, r)
                             /\ \/ UNCHANGED faults
                                \/ Fault("short")
                             /\ r = writing.rec
                             /\ writing' = [by |-> Nobody, rec |-> NoRecord]
                             /\ t = writing.by
  <2>1. writing.rec \in RecordSet
    BY <1>0 DEF LogTypes, WritingSet
  <2>2. /\ acked' = Append(acked, writing.rec) /\ t = writing.by
        /\ writing' = [by |-> Nobody, rec |-> NoRecord]
        /\ \/ UNCHANGED faults
           \/ Fault("short")
    BY <1>1 DEF Ended, EndWrite
  <2> QED BY <2>1, <2>2
<1>3. \A h : Known(h) => Known(h)'
  BY <1>0, <1>2, KnownGrows
<1>4. PICK p \in {"refused", "anchored", "idle"}, a \in ArgSet :
          /\ pc' = [pc EXCEPT ![t] = p] /\ arg' = [arg EXCEPT ![t] = a] /\ a.ref = arg[t].ref
  <2>1. Hash(writing.rec) \in Hashes /\ Zero32 \in Hashes
    BY <1>2, ZeroIsHash, HashIsHash
  <2>2. PICK x \in Hashes : arg' = [arg EXCEPT ![t].ret = x]
    <3>1. arg' = [arg EXCEPT ![t].ret = IF writing.rec.type = "GUARD" THEN Hash(writing.rec) ELSE Zero32]
      BY DEF EmitEnds
    <3> QED BY <2>1, <3>1
  <2>3. arg' = [arg EXCEPT ![t] = [arg[t] EXCEPT !.ret = x]]
    BY <2>2
  <2>4. [arg[t] EXCEPT !.ret = x] \in ArgSet /\ [arg[t] EXCEPT !.ret = x].ref = arg[t].ref
    BY <1>0 DEF ArgSet
  <2>5. \E p \in {"refused", "anchored", "idle"} : pc' = [pc EXCEPT ![t] = p]
    <3>1. CASE writing.rec.type = "GUARD"
      BY <3>1 DEF EmitEnds
    <3>2. CASE writing.rec.type = "ANCHOR"
      BY <3>2 DEF EmitEnds
    <3>3. CASE writing.rec.type \notin {"GUARD", "ANCHOR"}
      BY <3>3 DEF EmitEnds
    <3> QED BY <3>1, <3>2, <3>3
  <2> QED BY <2>3, <2>4, <2>5
<1>5. p \in PcSet /\ p # "writing" /\ p # "ANCHOR" /\ p # "SELF_CHECK_FAILED"
  BY <1>4 DEF PcSet
<1>6. /\ pc' \in [Thread -> PcSet] /\ arg' \in [Thread -> ArgSet]
      /\ pc'[t] = p /\ arg'[t] = a
      /\ \A u \in Thread \ {t} : pc'[u] = pc[u] /\ arg'[u] = arg[u]
  BY <1>0, <1>4, <1>5
<1>7. UNCHANGED <<stored, guards, up, failures, clock, escalations>>
  BY DEF EmitEnds, auditVars
<1>8. QueueTypes'
  BY <1>0, <1>6, <1>7 DEF QueueTypes
<1>9. faults'["rot"] = faults["rot"]
  BY <1>0, <1>2, FaultGrows DEF Faults
<1>10. up /\ \A u \in Thread \ {t} : pc[u] # "writing"
  BY <1>0, <1>2 DEF ThreadInv, ControlInv
<1>11. writing'.by = Nobody /\ pc[t] = "writing"
  BY <1>2 DEF EmitEnds
<1>12. stored' # Zero32 => Known(stored)'
  BY <1>0, <1>3, <1>7 DEF ThreadInv
<1>13. ASSUME NEW u \in Thread
       PROVE  /\ pc'[u] = "writing" <=> writing'.by = u
              /\ pc'[u] # "idle" => up'
              /\ (arg'[u].ref # Zero32 \/ pc'[u] = "ANCHOR") => \E i \in 1..Len(acked') : arg'[u].ref = Hash(acked'[i])
              /\ pc'[u] = "SELF_CHECK_FAILED" => faults'["rot"] > 0
  <2>0. \A h : Known(h) => \E i \in 1..Len(acked') : h = Hash(acked'[i])
    BY <1>3 DEF Known
  <2>1. CASE u = t
    <3>1. arg[t].ref # Zero32 => Known(arg[t].ref)
      BY <1>0 DEF ThreadInv, RefersOk
    <3> QED BY <1>4, <1>5, <1>6, <1>7, <1>10, <1>11, <2>0, <2>1, <3>1, ThreadsApart
  <2>2. CASE u # t
    <3>1. RefersOk(pc[u], arg[u].ref) /\ (pc[u] = "SELF_CHECK_FAILED" => faults["rot"] > 0)
      BY <1>0 DEF ThreadInv
    <3> QED BY <1>6, <1>7, <1>9, <1>10, <1>11, <2>0, <2>2, <3>1, ThreadsApart DEF RefersOk
  <2> QED BY <2>1, <2>2
<1> QED BY <1>7, <1>8, <1>10, <1>12, <1>13 DEF ThreadInv, RefersOk, Known

\* What the threads keep, and what holds of it.
LEMMA ThreadKeeps ==
    ASSUME TypesInv, LogInv, PlaceInv, WalkInv, AuditNext
    PROVE  QueueTypes' /\ ThreadInv'
<1>0. /\ pc \in [Thread -> PcSet] /\ arg \in [Thread -> ArgSet] /\ guards \in Seq(GuardSet)
      /\ failures \in Nat /\ stored \in Hashes /\ clock \in Nat
      /\ escalations \in Seq(Seq(GuardSet))
      /\ LogTypes /\ QueueTypes /\ ControlInv /\ NumberInv /\ ThreadInv
      /\ \A t \in Thread : arg[t] \in ArgSet /\ arg[t].ref \in Hashes
      /\ writer.head \in Hashes /\ faults \in [Faults -> Nat]
  <2>1. \A t \in Thread : arg[t] \in ArgSet
    BY DEF TypesInv, QueueTypes
  <2> QED BY <2>1 DEF TypesInv, QueueTypes, LogInv, LogTypes, WriterSet, ArgSet
<1>00. UNCHANGED faults => FaultsGrow
  BY <1>0 DEF FaultsGrow, Faults
<1>1. NoArg \in ArgSet /\ NoArg.ref = Zero32
  BY ZeroIsHash DEF NoArg, ArgSet
<1>2. \A t \in Thread : arg = [arg EXCEPT ![t] = arg[t]]
  BY <1>0
<1>3. ASSUME UNCHANGED <<pc, arg, guards, failures, stored, escalations, writing, up, acked>>,
             FaultsGrow, clock' \in Nat
      PROVE  QueueTypes' /\ ThreadInv'
  <2>1. faults["rot"] > 0 => faults'["rot"] > 0
    BY <1>0, <1>3 DEF FaultsGrow, Faults
  <2> QED BY <1>0, <1>3, <2>1 DEF QueueTypes, ThreadInv, RefersOk, Known
<1>4. ASSUME Die, UNCHANGED <<stored, clock, escalations, acked>> PROVE QueueTypes' /\ ThreadInv'
  <2>1. /\ QueueTypes'
        /\ \A t \in Thread : pc'[t] = "idle" /\ arg'[t] = NoArg
        /\ guards' = <<>> /\ ~up' /\ writing'.by = Nobody
    BY <1>0, <1>4, DeadThreads
  <2>2. \A t \in Thread : arg'[t].ref = Zero32
    BY <1>1, <2>1
  <2> QED BY <1>0, <1>4, <2>1, <2>2, ThreadsApart DEF ThreadInv, RefersOk, Known
<1>5. CASE OpenFresh \/ OpenExisting
  <2>1. UNCHANGED <<pc, arg, guards, failures, stored, clock, escalations, writing, up, acked, faults>>
    BY <1>5 DEF OpenFresh, OpenExisting, threadVars, auditVars
  <2> QED BY <1>0, <1>00, <1>3, <2>1
<1>6. CASE Rot
  <2>1. UNCHANGED <<pc, arg, guards, failures, stored, clock, escalations, writing, up, acked>>
    BY <1>6 DEF Rot, threadVars, auditVars
  <2>2. FaultsGrow
    BY <1>0, <1>6, RotView
  <2> QED BY <1>0, <1>3, <2>1, <2>2
<1>7. CASE Tick
  <2>1. UNCHANGED <<pc, arg, guards, failures, stored, escalations, writing, up, acked, faults>> /\ clock' \in Nat
    BY <1>0, <1>7 DEF Tick, threadVars
  <2> QED BY <1>00, <1>3, <2>1
<1>8. CASE Crash
  BY <1>4, <1>8 DEF Crash
<1>9. CASE Construct
  <2>1. ASSUME UNCHANGED <<pc, arg, guards, failures, stored, clock, escalations, acked>>,
               writing.by \in {Nobody, Main}, writing'.by \in {Nobody, Main}, ~up
        PROVE  QueueTypes' /\ (UNCHANGED faults => ThreadInv')
    <3>1. \A t \in Thread : pc'[t] # "writing" /\ writing'.by # t /\ pc'[t] = "idle"
      BY <1>0, <2>1, ThreadsApart DEF ThreadInv
    <3>2. guards' = <<>>
      BY <1>0, <2>1 DEF ThreadInv
    <3> QED BY <1>0, <2>1, <3>1, <3>2 DEF QueueTypes, ThreadInv, RefersOk, Known
  <2>2. CASE BeginWrite(Main, Head(todo), Zero32) /\ UNCHANGED <<writer, todo, up, threadVars, auditVars, acked>>
    <3>1. UNCHANGED <<pc, arg, guards, failures, stored, clock, escalations, acked>>
      BY <2>2 DEF threadVars, auditVars
    <3>2. writing.by = Nobody /\ writing'.by = Main /\ ~up /\ UNCHANGED faults
      BY <1>9, <2>2 DEF BeginWrite, Construct
    <3> QED BY <2>1, <3>1, <3>2
  <2>3. CASE EndWrite(Main) /\ todo' = Tail(todo) /\ up' = (Len(todo) = 1) /\ UNCHANGED <<threadVars, auditVars>>
    <3>1. UNCHANGED <<pc, arg, guards, failures, stored, clock, escalations>>
      BY <2>3 DEF threadVars, auditVars
    <3>2. writing.by = Main /\ writing'.by = Nobody /\ ~up
      BY <1>9, <2>3 DEF EndWrite, Construct
    <3>3. PICK r \in RecordSet : acked' = Append(acked, r)
      <4>1. writing.rec \in RecordSet
        BY <1>0 DEF LogTypes, WritingSet
      <4> QED BY <2>3, <4>1 DEF EndWrite
    <3>4. \A h : Known(h) => Known(h)'
      BY <1>0, <3>3, KnownGrows
    <3>5. QueueTypes'
      BY <1>0, <3>1 DEF QueueTypes
    <3>6. \A t \in Thread : pc'[t] = "idle" /\ writing'.by # t
      BY <1>0, <3>1, <3>2, ThreadsApart DEF ThreadInv
    <3>7. guards' = <<>>
      BY <1>0, <3>1, <3>2 DEF ThreadInv
    <3>8. stored' # Zero32 => \E i \in 1..Len(acked') : stored' = Hash(acked'[i])
      BY <1>0, <3>1, <3>4 DEF ThreadInv, Known
    <3>9. \A t \in Thread : arg'[t].ref # Zero32 => \E i \in 1..Len(acked') : arg'[t].ref = Hash(acked'[i])
      <4> TAKE t \in Thread
      <4>1. arg[t].ref # Zero32 => Known(arg[t].ref)
        BY <1>0 DEF ThreadInv, RefersOk
      <4> QED BY <3>1, <3>4, <4>1 DEF Known
    <3> QED BY <3>5, <3>6, <3>7, <3>8, <3>9 DEF ThreadInv, RefersOk, Known
  <2>4. CASE RaiseWrite /\ Die /\ UNCHANGED <<file, stored, clock, escalations, acked>>
    BY <1>4, <2>4
  <2> QED BY <1>9, <2>2, <2>3, <2>4 DEF Construct
<1>10. ASSUME NEW t \in Thread, ThreadStep(t) PROVE QueueTypes' /\ ThreadInv'
  <2>0. pc[t] # "idle" => up
    BY <1>0 DEF ThreadInv
  <2>1. CASE Refuse(t)
    <3>1. EmitBegins(t, "GUARD", Zero32) /\ up /\ pc[t] # "writing"
      BY <2>1 DEF Refuse
    <3> QED BY <3>1, ThreadBegins
  <2>2. CASE Emit(t)
    <3>1. EmitBegins(t, pc[t], arg[t].ref) /\ up /\ pc[t] # "writing"
      BY <2>0, <2>2 DEF Emit
    <3> QED BY <3>1, ThreadBegins
  <2>3. CASE EmitEnds(t)
    BY <2>3, ThreadEnds
  <2>4. CASE ReadClock(t)
    <3>1. /\ pc[t] = "refused" /\ pc' = [pc EXCEPT ![t] = "clocked"]
          /\ arg' = [arg EXCEPT ![t].time = clock]
          /\ UNCHANGED <<up, writing, acked, faults, guards, failures, stored, clock, escalations>>
      BY <2>4 DEF ReadClock, auditVars
    <3>2. PICK a : a = [arg[t] EXCEPT !.time = clock]
      OBVIOUS
    <3>3. a \in ArgSet /\ a.ref = arg[t].ref
      BY <1>0, <3>2 DEF ArgSet
    <3>4. arg' = [arg EXCEPT ![t] = a]
      BY <3>1, <3>2
    <3>5. "clocked" \in PcSet /\ RefersOk("clocked", a.ref)
      BY <1>0, <3>1, <3>3 DEF PcSet, ThreadInv, RefersOk
    <3> QED BY <1>0, <1>00, <2>0, <3>1, <3>3, <3>4, <3>5, ThreadMoves
  <2>5. CASE NoteGuard(t)
    <3>1. PICK kept \in Seq(GuardSet) :
              /\ IsKept(kept, guards, Refusal(t))
              /\ Refusal(t) \in GuardSet /\ Refusal(t).time = arg[t].time /\ Refusal(t).ref = arg[t].ret
              /\ Len(kept) >= 1
              /\ pc[t] = "clocked"
              /\ \/ /\ Len(kept) >= GuardThreshold
                    /\ guards' = <<>> /\ escalations' = Append(escalations, kept)
                    /\ pc' = [pc EXCEPT ![t] = "GUARD_ESCALATION"]
                    /\ arg' = [arg EXCEPT ![t] = [NoArg EXCEPT !.ref = kept[Len(kept)].ref]]
                 \/ /\ Len(kept) < GuardThreshold
                    /\ guards' = kept /\ escalations' = escalations
                    /\ pc' = [pc EXCEPT ![t] = "idle"]
                    /\ arg' = [arg EXCEPT ![t] = NoArg]
              /\ UNCHANGED <<file, writer, todo, up, writing, failures, stored, clock, faults, acked>>
      BY <1>0, <2>5, NoteView
    <3>2. Known(arg[t].ret) /\ arg[t].ret \in Hashes
      BY <1>0, <3>1 DEF PlaceInv, Noting, IsRefusal, Refusals, Known, ArgSet
    <3>3. kept[Len(kept)] = Refusal(t)
      BY <3>1 DEF IsKept
    <3>4. PICK a : a = [NoArg EXCEPT !.ref = arg[t].ret]
      OBVIOUS
    <3>5. a \in ArgSet /\ a.ref = arg[t].ret
      BY <1>1, <3>2, <3>4 DEF ArgSet
    <3>6. /\ "GUARD_ESCALATION" \in PcSet /\ "idle" \in PcSet
          /\ RefersOk("GUARD_ESCALATION", a.ref) /\ RefersOk("idle", NoArg.ref)
      BY <1>1, <3>2, <3>5 DEF PcSet, RefersOk
    <3>7. CASE guards' = <<>> /\ escalations' = Append(escalations, kept)
               /\ pc' = [pc EXCEPT ![t] = "GUARD_ESCALATION"]
               /\ arg' = [arg EXCEPT ![t] = [NoArg EXCEPT !.ref = kept[Len(kept)].ref]]
      <4>1. arg' = [arg EXCEPT ![t] = a]
        BY <3>1, <3>3, <3>4, <3>7
      <4>2. guards' \in Seq(GuardSet) /\ escalations' \in Seq(Seq(GuardSet))
        BY <1>0, <3>1, <3>7
      <4>3. /\ UNCHANGED <<up, acked, writing>> /\ FaultsGrow /\ pc[t] # "writing" /\ up
            /\ stored' = stored /\ failures' \in Nat /\ clock' = clock
        BY <1>0, <1>00, <2>0, <3>1
      <4> QED BY <3>5, <3>6, <3>7, <4>1, <4>2, <4>3, ThreadMoves
    <3>8. CASE guards' = kept /\ escalations' = escalations
               /\ pc' = [pc EXCEPT ![t] = "idle"] /\ arg' = [arg EXCEPT ![t] = NoArg]
      <4>3. /\ UNCHANGED <<up, acked, writing>> /\ FaultsGrow /\ pc[t] # "writing" /\ up
            /\ stored' = stored /\ failures' \in Nat /\ clock' = clock
            /\ guards' \in Seq(GuardSet) /\ escalations' \in Seq(Seq(GuardSet))
        BY <1>0, <1>00, <2>0, <3>1, <3>8
      <4> QED BY <1>1, <3>6, <3>8, <4>3, ThreadMoves
    <3> QED BY <3>1, <3>7, <3>8
  <2>6. CASE Anchor(t)
    <3>1. /\ pc[t] = "idle" /\ up /\ pc' = [pc EXCEPT ![t] = "ANCHOR"]
          /\ arg' = [arg EXCEPT ![t].ref = writer.head]
          /\ UNCHANGED <<up, writing, acked, faults, guards, failures, stored, clock, escalations>>
      BY <2>6 DEF Anchor, auditVars
    <3>2. PICK a : a = [arg[t] EXCEPT !.ref = writer.head]
      OBVIOUS
    <3>3. a \in ArgSet /\ a.ref = writer.head
      BY <1>0, <3>2 DEF ArgSet
    <3>4. arg' = [arg EXCEPT ![t] = a]
      BY <3>1, <3>2
    <3>5. "ANCHOR" \in PcSet /\ RefersOk("ANCHOR", a.ref)
      BY <1>0, <3>1, <3>3 DEF PcSet, NumberInv, RefersOk
    <3> QED BY <1>0, <1>00, <3>1, <3>3, <3>4, <3>5, ThreadMoves
  <2>7. CASE Store(t)
    <3>1. /\ pc[t] = "anchored" /\ UNCHANGED <<up, writing, acked, arg, guards, clock, escalations>>
          /\ stored' = stored \/ stored' = writer.head
          /\ failures' \in Nat /\ FaultsGrow
          /\ \E p \in {"idle", "ANCHOR_ANOMALY"} : pc' = [pc EXCEPT ![t] = p]
      <4>1. CASE Fault("store") /\ failures' = failures + 1 /\ UNCHANGED stored
                 /\ pc' = [pc EXCEPT ![t] = IF failures + 1 = AnchorThreshold THEN "ANCHOR_ANOMALY" ELSE "idle"]
        <5>1. FaultsGrow
          BY <1>0, <4>1, FaultGrows DEF Faults
        <5>2. \E p \in {"idle", "ANCHOR_ANOMALY"} : pc' = [pc EXCEPT ![t] = p]
          <6>1. CASE failures + 1 = AnchorThreshold
            BY <4>1, <6>1
          <6>2. CASE failures + 1 # AnchorThreshold
            BY <4>1, <6>2
          <6> QED BY <6>1, <6>2
        <5>3. failures' \in Nat
          BY <1>0, <4>1
        <5> QED BY <2>7, <4>1, <5>1, <5>2, <5>3 DEF Store
      <4>2. CASE stored' = writer.head /\ failures' = 0 /\ pc' = [pc EXCEPT ![t] = "idle"] /\ UNCHANGED faults
        BY <1>00, <2>7, <4>2 DEF Store
      <4> QED BY <2>7, <4>1, <4>2 DEF Store
    <3>2. PICK p \in {"idle", "ANCHOR_ANOMALY"} : pc' = [pc EXCEPT ![t] = p]
      BY <3>1
    <3>3. p \in PcSet /\ p # "writing" /\ p # "SELF_CHECK_FAILED" /\ RefersOk(p, arg[t].ref)
      BY <1>0, <3>1, <3>2 DEF PcSet, ThreadInv, RefersOk
    <3>4. /\ arg' = [arg EXCEPT ![t] = arg[t]] /\ arg[t] \in ArgSet
      BY <1>0, <1>2, <3>1
    <3> QED BY <1>0, <2>0, <3>1, <3>2, <3>3, <3>4, ThreadMoves
  <2>8. CASE SelfCheck(t)
    <3>1. /\ pc[t] = "idle" /\ up /\ pc' = [pc EXCEPT ![t] = "SELF_CHECK_FAILED"]
          /\ UNCHANGED <<up, writing, acked, arg, faults, guards, failures, stored, clock, escalations>>
      BY <2>8 DEF SelfCheck, auditVars
    <3>2. faults["rot"] > 0
      <4>1. faults["rot"] # 0 /\ faults["rot"] \in Nat
        BY <1>0, <2>8, FailsForRot DEF SelfCheck, Faults
      <4> QED BY <4>1
    <3>3. "SELF_CHECK_FAILED" \in PcSet /\ RefersOk("SELF_CHECK_FAILED", arg[t].ref)
      BY <1>0, <3>1 DEF PcSet, ThreadInv, RefersOk
    <3>4. arg' = [arg EXCEPT ![t] = arg[t]] /\ arg[t] \in ArgSet
      BY <1>0, <1>2, <3>1
    <3> QED BY <1>0, <1>00, <3>1, <3>2, <3>3, <3>4, ThreadMoves
  <2> QED BY <1>10, <2>1, <2>2, <2>3, <2>4, <2>5, <2>6, <2>7, <2>8 DEF ThreadStep
<1> QED BY <1>5, <1>6, <1>7, <1>8, <1>9, <1>10 DEF AuditNext

-----------------------------------------------------------------------------
(* The refusals: where each of them is, when it was, what it was counted in. *)

\* A step that gives no thread a refusal, and counts none.
Unnoted ==
    /\ guards' \in {guards, <<>>} /\ escalations' = escalations /\ clock' = clock
    /\ acked' = acked \/ acked' = Append(acked, writing.rec)
    /\ \A t \in Thread :
          /\ pc'[t] \in {"refused", "clocked", "GUARD_ESCALATION"} => pc'[t] = pc[t] /\ arg'[t] = arg[t]
          /\ arg'[t].time \in {0, arg[t].time}
    /\ writing'.rec.type = "GUARD_ESCALATION" =>
          \/ writing'.rec = writing.rec
          \/ \E t \in Thread : pc[t] = "GUARD_ESCALATION" /\ writing'.rec.ref = arg[t].ref

\* The write of a refusal ends.
Refused(t) ==
    /\ EmitEnds(t) /\ writing.rec.type = "GUARD" /\ acked' = Append(acked, writing.rec)
    /\ pc' = [pc EXCEPT ![t] = "refused"]
    /\ arg' = [arg EXCEPT ![t].ret = Hash(writing.rec)]

LEMMA EmitUnnoted ==
    ASSUME TypesInv, NEW t \in Thread, NEW type, NEW ref, EmitBegins(t, type, ref),
           type = "GUARD_ESCALATION" => pc[t] = "GUARD_ESCALATION" /\ ref = arg[t].ref
    PROVE  Unnoted
<1>0. pc \in [Thread -> PcSet] /\ arg \in [Thread -> ArgSet]
  BY DEF TypesInv, QueueTypes
<1>1. /\ UNCHANGED <<guards, escalations, clock, acked>>
      /\ pc' = [pc EXCEPT ![t] = "writing"] \/ pc' = [pc EXCEPT ![t] = "idle"]
      /\ arg' = [arg EXCEPT ![t] = NoArg]
      /\ writing' = writing \/ writing'.rec = NextRecord(t, type, ref)
  BY DEF EmitBegins, auditVars, BeginWrite
<1>2. \A u \in Thread :
          /\ pc'[u] \in {"refused", "clocked", "GUARD_ESCALATION"} => pc'[u] = pc[u] /\ arg'[u] = arg[u]
          /\ arg'[u].time \in {0, arg[u].time}
  <2> TAKE u \in Thread
  <2>1. CASE u = t
    BY <1>0, <1>1, <2>1 DEF NoArg
  <2>2. CASE u # t
    BY <1>0, <1>1, <2>2
  <2> QED BY <2>1, <2>2
<1>3. writing'.rec = NextRecord(t, type, ref) => writing'.rec.type = type /\ writing'.rec.ref = ref
  BY DEF NextRecord
<1> QED BY <1>1, <1>2, <1>3 DEF Unnoted

LEMMA QueueSteps ==
    ASSUME TypesInv, ControlInv, AuditNext
    PROVE  \/ Unnoted \/ Tick
           \/ \E t \in Thread : ReadClock(t) \/ NoteGuard(t) \/ Refused(t)
<1>0. pc \in [Thread -> PcSet] /\ arg \in [Thread -> ArgSet]
  BY DEF TypesInv, QueueTypes
<1>1. ASSUME UNCHANGED <<pc, arg, guards, escalations, clock>>,
             acked' = acked \/ acked' = Append(acked, writing.rec),
             writing'.rec.type = "GUARD_ESCALATION" => writing'.rec = writing.rec
      PROVE  Unnoted
  BY <1>1 DEF Unnoted
<1>2. NoRecord.type # "GUARD_ESCALATION"
  BY NoRecordType
<1>3. ASSUME Die, UNCHANGED <<clock, escalations, acked>> PROVE Unnoted
  <2>1. /\ pc' = [t \in Thread |-> "idle"] /\ arg' = [t \in Thread |-> NoArg]
        /\ guards' = <<>> /\ writing'.rec = NoRecord
    BY <1>3 DEF Die
  <2>2. \A t \in Thread : pc'[t] = "idle" /\ arg'[t].time = 0
    BY <2>1 DEF NoArg
  <2> QED BY <1>2, <1>3, <2>1, <2>2 DEF Unnoted
<1>4. CASE OpenFresh \/ OpenExisting \/ Rot
  <2>1. UNCHANGED <<pc, arg, guards, escalations, clock, acked, writing>>
    BY <1>4 DEF OpenFresh, OpenExisting, Rot, threadVars, auditVars
  <2> QED BY <1>1, <2>1
<1>5. CASE Crash
  BY <1>3, <1>5 DEF Crash
<1>6. CASE Construct
  <2>1. CASE BeginWrite(Main, Head(todo), Zero32) /\ UNCHANGED <<writer, todo, up, threadVars, auditVars, acked>>
    <3>1. todo \in Openings /\ todo # <<>> => Head(todo) # "GUARD_ESCALATION"
      BY OpeningFacts
    <3>2. writing'.rec.type = Head(todo) /\ UNCHANGED <<pc, arg, guards, escalations, clock, acked>>
      BY <2>1 DEF BeginWrite, NextRecord, threadVars, auditVars
    <3>3. todo # <<>>
      BY <1>6 DEF Construct, ControlInv
    <3> QED BY <1>1, <3>1, <3>2, <3>3 DEF TypesInv, LogTypes
  <2>2. CASE EndWrite(Main) /\ todo' = Tail(todo) /\ up' = (Len(todo) = 1) /\ UNCHANGED <<threadVars, auditVars>>
    <3>1. UNCHANGED <<pc, arg, guards, escalations, clock>> /\ writing'.rec = NoRecord
          /\ acked' = Append(acked, writing.rec)
      BY <2>2 DEF EndWrite, threadVars, auditVars
    <3> QED BY <1>1, <1>2, <3>1
  <2>3. CASE RaiseWrite /\ Die /\ UNCHANGED <<file, stored, clock, escalations, acked>>
    BY <1>3, <2>3
  <2> QED BY <1>6, <2>1, <2>2, <2>3 DEF Construct
<1>7. ASSUME NEW t \in Thread, Refuse(t) \/ Emit(t) PROVE Unnoted
  BY <1>7, EmitUnnoted DEF Refuse, Emit
<1>8. ASSUME NEW t \in Thread, Anchor(t) \/ Store(t) \/ SelfCheck(t) PROVE Unnoted
  <2>1. UNCHANGED <<guards, escalations, clock, acked, writing>>
    BY <1>8 DEF Anchor, Store, SelfCheck, auditVars
  <2>2. ASSUME NEW p \in {"ANCHOR", "SELF_CHECK_FAILED", "idle", "ANCHOR_ANOMALY"}, NEW x,
               pc' = [pc EXCEPT ![t] = p], arg' = arg \/ arg' = [arg EXCEPT ![t].ref = x]
        PROVE  Unnoted
    <3>1. \A u \in Thread :
          /\ pc'[u] \in {"refused", "clocked", "GUARD_ESCALATION"} => pc'[u] = pc[u] /\ arg'[u] = arg[u]
          /\ arg'[u].time \in {0, arg[u].time}
      <4> TAKE u \in Thread
      <4>1. CASE u = t
        <5>0. arg[t] \in ArgSet
          BY <1>0
        <5>1. [arg[t] EXCEPT !.ref = x].time = arg[t].time
          BY <5>0 DEF ArgSet
        <5>2. arg'[t].time = arg[t].time
          BY <1>0, <2>2, <5>1
        <5> QED BY <1>0, <2>2, <4>1, <5>2
      <4>2. CASE u # t
        BY <1>0, <2>2, <4>2
      <4> QED BY <4>1, <4>2
    <3> QED BY <2>1, <3>1 DEF Unnoted
  <2>3. CASE Anchor(t)
    BY <2>2, <2>3 DEF Anchor
  <2>4. CASE SelfCheck(t)
    BY <2>2, <2>4 DEF SelfCheck
  <2>5. CASE Store(t)
    <3>1. CASE failures + 1 = AnchorThreshold
      BY <2>2, <2>5, <3>1 DEF Store
    <3>2. CASE failures + 1 # AnchorThreshold
      BY <2>2, <2>5, <3>2 DEF Store
    <3> QED BY <3>1, <3>2
  <2> QED BY <1>8, <2>3, <2>4, <2>5
<1>9. ASSUME NEW t \in Thread, EmitEnds(t) PROVE Unnoted \/ Refused(t)
  <2>1. UNCHANGED <<guards, escalations, clock>> /\ writing'.rec = NoRecord
        /\ acked' = Append(acked, writing.rec)
    BY <1>9 DEF EmitEnds, EndWrite, auditVars
  <2>2. CASE writing.rec.type = "GUARD"
    BY <1>9, <2>1, <2>2 DEF Refused, EmitEnds
  <2>3. CASE writing.rec.type # "GUARD"
    <3>1. arg' = [arg EXCEPT ![t].ret = Zero32] /\ pc' \in {[pc EXCEPT ![t] = "anchored"], [pc EXCEPT ![t] = "idle"]}
      <4>1. CASE writing.rec.type = "ANCHOR"
        BY <1>9, <4>1 DEF EmitEnds
      <4>2. CASE writing.rec.type # "ANCHOR"
        BY <1>9, <2>3, <4>2 DEF EmitEnds
      <4> QED BY <4>1, <4>2
    <3>2. \A u \in Thread :
          /\ pc'[u] \in {"refused", "clocked", "GUARD_ESCALATION"} => pc'[u] = pc[u] /\ arg'[u] = arg[u]
          /\ arg'[u].time \in {0, arg[u].time}
      <4> TAKE u \in Thread
      <4>1. CASE u = t
        <5>0. arg[t] \in ArgSet
          BY <1>0
        <5>1. [arg[t] EXCEPT !.ret = Zero32].time = arg[t].time
          BY <5>0 DEF ArgSet
        <5>2. arg'[t].time = arg[t].time
          BY <1>0, <3>1, <5>1
        <5> QED BY <1>0, <3>1, <4>1, <5>2
      <4>2. CASE u # t
        BY <1>0, <3>1, <4>2
      <4> QED BY <4>1, <4>2
    <3> QED BY <1>2, <2>1, <3>2 DEF Unnoted
  <2> QED BY <2>2, <2>3
<1> QED BY <1>4, <1>5, <1>6, <1>7, <1>8, <1>9 DEF AuditNext, ThreadStep

-----------------------------------------------------------------------------
(* Where a refusal is, and when it was.                                     *)

\* What is kept of a queue that is spread no wider than it may be, is not either.
LEMMA SpreadKept ==
    ASSUME NEW queue \in Seq(GuardSet), NEW g \in GuardSet, NEW kept,
           IsKept(kept, queue, g), Spread(queue),
           \A i \in 1..Len(queue) : g.time >= queue[i].time - MaxStall
    PROVE  /\ Spread(kept)
           /\ \A i, j \in 1..Len(kept) : kept[i].time - kept[j].time <= GuardWindow + MaxStall
<1>0. GuardWindow \in Nat /\ MaxStall \in Nat /\ g.time \in Nat
  BY BoundAssumption DEF GuardSet
<1>1. PICK m \in 0..Len(queue) :
       /\ kept \in Seq(GuardSet) /\ Len(kept) = Len(queue) + 1 - m
       /\ \A k \in 1..Len(kept) : kept[k] = Append(queue, g)[k + m]
       /\ kept[Len(kept)] = g
       /\ \A i \in 1..m : queue[i].time < g.time - GuardWindow
       /\ kept[1].time >= g.time - GuardWindow
  BY DEF IsKept
<1>2. Len(queue) \in Nat /\ m \in Nat /\ Len(kept) \in Nat /\ Len(kept) >= 1 /\ m <= Len(queue)
  BY <1>1
<1>3. \A i \in 1..Len(queue) : queue[i].time \in Nat
  <2>1. \A i \in 1..Len(queue) : queue[i] \in GuardSet
    OBVIOUS
  <2> QED BY <2>1 DEF GuardSet
<1>4. \A k \in 1..Len(kept) : k < Len(kept) => k + m \in 1..Len(queue) /\ kept[k] = queue[k + m]
  BY <1>1, <1>2
<1>5. \A k \in 1..Len(kept) : kept[k].time \in Nat
  <2>1. \A k \in 1..Len(kept) : kept[k] \in GuardSet
    BY <1>1
  <2> QED BY <2>1 DEF GuardSet
<1>51. kept[1].time \in Nat /\ g.time <= kept[1].time + GuardWindow
  <2>1. \A a \in Nat : a >= g.time - GuardWindow => g.time <= a + GuardWindow
    BY <1>0
  <2>2. 1 \in 1..Len(kept)
    BY <1>2
  <2>3. kept[1].time \in Nat
    BY <1>5, <2>2
  <2>4. kept[1].time >= g.time - GuardWindow
    BY <1>1
  <2> QED BY <2>1, <2>3, <2>4
<1>52. \A a, b \in Nat : g.time <= a + GuardWindow /\ a <= b => g.time <= b + GuardWindow
  BY <1>0
<1>6. ASSUME NEW i \in 1..Len(kept), NEW j \in 1..Len(kept), i < j
      PROVE  /\ kept[j].time >= kept[i].time - MaxStall
             /\ (\A k \in 1..(i - 1) : kept[k].time < kept[i].time) =>
                    kept[j].time <= kept[i].time + GuardWindow
  <2>1. i + m \in 1..Len(queue) /\ kept[i] = queue[i + m]
    BY <1>2, <1>4, <1>6
  <2>2. CASE j = Len(kept)
    <3>1. kept[j].time = g.time
      BY <1>1, <2>2
    <3>2. kept[j].time >= kept[i].time - MaxStall
      BY <2>1, <3>1
    <3>3. ASSUME \A k \in 1..(i - 1) : kept[k].time < kept[i].time
          PROVE  kept[1].time <= kept[i].time
      <4>1. CASE i = 1
        BY <1>5, <4>1
      <4>2. CASE i # 1
        <5>1. 1 \in 1..(i - 1) /\ 1 \in 1..Len(kept)
          BY <1>2, <4>2
        <5> QED BY <1>5, <3>3, <5>1
      <4> QED BY <4>1, <4>2
    <3>5. kept[i].time \in Nat
      BY <1>5
    <3>6. (\A k \in 1..(i - 1) : kept[k].time < kept[i].time) => kept[j].time <= kept[i].time + GuardWindow
      BY <1>51, <1>52, <3>1, <3>3, <3>5
    <3> QED BY <3>2, <3>6
  <2>3. CASE j # Len(kept)
    <3>1. j + m \in 1..Len(queue) /\ kept[j] = queue[j + m] /\ i + m < j + m
      BY <1>2, <1>4, <1>6, <2>3
    <3>2. kept[j].time >= kept[i].time - MaxStall
      BY <2>1, <3>1 DEF Spread
    <3>3. ASSUME \A k \in 1..(i - 1) : kept[k].time < kept[i].time
          PROVE  \A k \in 1..((i + m) - 1) : queue[k].time < queue[i + m].time
      <4> TAKE k \in 1..((i + m) - 1)
      <4>0. k \in 1..Len(queue)
        BY <1>2, <2>1
      <4>1. CASE k <= m
        <5>1. k \in 1..m
          BY <1>2, <4>1
        <5>2. queue[k].time < g.time - GuardWindow
          BY <1>1, <5>1
        <5>3. kept[1].time <= kept[i].time
          <6>1. CASE i = 1
            BY <1>5, <6>1
          <6>2. CASE i # 1
            <7>1. 1 \in 1..(i - 1) /\ 1 \in 1..Len(kept)
              BY <1>2, <6>2
            <7> QED BY <1>5, <3>3, <7>1
          <6> QED BY <6>1, <6>2
        <5>4. 1 \in 1..Len(kept)
          BY <1>2
        <5>5. kept[1].time \in Nat /\ kept[i].time \in Nat /\ queue[k].time \in Nat /\ kept[1].time >= g.time - GuardWindow
          BY <1>1, <1>3, <1>5, <4>0, <5>4
        <5>6. queue[k].time < kept[i].time
          <6>1. \A a, b, c, n \in Nat : a < n - GuardWindow /\ b >= n - GuardWindow /\ b <= c => a < c
            BY <1>0
          <6> QED BY <1>0, <5>2, <5>3, <5>5, <6>1
        <5> QED BY <2>1, <5>6
      <4>2. CASE k > m
        <5>1. k - m \in 1..(i - 1) /\ k - m \in 1..Len(kept) /\ k - m < Len(kept) /\ (k - m) + m = k
          BY <1>2, <1>6, <4>2
        <5>2. kept[k - m] = queue[k]
          BY <1>4, <5>1
        <5> QED BY <2>1, <3>3, <5>1, <5>2
      <4> QED BY <1>2, <4>1, <4>2
    <3>4. (\A k \in 1..(i - 1) : kept[k].time < kept[i].time) => kept[j].time <= kept[i].time + GuardWindow
      BY <2>1, <3>1, <3>3 DEF Spread
    <3> QED BY <3>2, <3>4
  <2> QED BY <2>2, <2>3
<1>7. Spread(kept)
  BY <1>6 DEF Spread
<1>8. ASSUME NEW i \in 1..Len(kept), NEW j \in 1..Len(kept)
      PROVE  kept[i].time - kept[j].time <= GuardWindow + MaxStall
  <2>0. kept[i].time \in Nat /\ kept[j].time \in Nat /\ kept[1].time \in Nat /\ 1 \in 1..Len(kept)
    BY <1>2, <1>5
  <2>1. \A k \in 1..Len(kept) : kept[k].time <= kept[1].time + GuardWindow /\ kept[k].time >= kept[1].time - MaxStall
    <3> TAKE k \in 1..Len(kept)
    <3>1. CASE k = 1
      BY <1>0, <2>0, <3>1
    <3>2. CASE k # 1
      <4>1. 1 < k /\ \A l \in 1..(1 - 1) : kept[l].time < kept[1].time
        BY <3>2
      <4> QED BY <1>6, <2>0, <4>1
    <3> QED BY <3>1, <3>2
  <2>2. kept[i].time <= kept[1].time + GuardWindow /\ kept[j].time >= kept[1].time - MaxStall
    BY <2>1
  <2>3. \A a, b, c \in Nat : a <= c + GuardWindow /\ b >= c - MaxStall => a - b <= GuardWindow + MaxStall
    BY <1>0
  <2> QED BY <2>0, <2>2, <2>3
<1> QED BY <1>7, <1>8

LEMMA TimeStep ==
    ASSUME TypesInv, QueueTypes', ControlInv, TimeInv, AuditNext
    PROVE  TimeInv'
<1>0. /\ pc \in [Thread -> PcSet] /\ arg \in [Thread -> ArgSet] /\ guards \in Seq(GuardSet) /\ clock \in Nat
      /\ arg' \in [Thread -> ArgSet] /\ clock' \in Nat
      /\ GuardThreshold \in Nat \ {0} /\ MaxStall \in Nat
  BY ThresholdAssumption, BoundAssumption DEF TypesInv, QueueTypes
<1>1. \A t \in Thread : arg[t] \in ArgSet /\ arg[t].time \in Nat /\ arg'[t].time \in Nat
  BY <1>0 DEF ArgSet
<1>2. \A i \in 1..Len(guards) : guards[i].time \in Nat
  <2>1. \A i \in 1..Len(guards) : guards[i] \in GuardSet
    BY <1>0
  <2> QED BY <2>1 DEF GuardSet
<1>3. Spread(<<>>) /\ Len(<<>>) < GuardThreshold
  BY <1>0 DEF Spread
<1>4. CASE Unnoted
  <2>1. clock' = clock /\ guards' \in {guards, <<>>}
    BY <1>4 DEF Unnoted
  <2>2. \A t \in Thread : /\ arg'[t].time <= clock
                          /\ pc'[t] = "clocked" => arg'[t].time >= clock - MaxStall
    BY <1>0, <1>1, <1>4 DEF Unnoted, TimeInv
  <2>3. /\ \A i \in 1..Len(guards') : guards'[i].time <= clock
        /\ Spread(guards') /\ Len(guards') < GuardThreshold
    BY <1>3, <2>1 DEF TimeInv
  <2> QED BY <2>1, <2>2, <2>3 DEF TimeInv, Spread
<1>5. CASE Tick
  <2>0. PICK now \in Nat : now = clock + 1
    BY <1>0
  <2>1. clock' = now /\ UNCHANGED <<guards, pc, arg>>
        /\ \A t \in Thread : pc[t] = "clocked" => clock < arg[t].time + MaxStall
    BY <1>5, <2>0 DEF Tick, threadVars
  <2>2. \A t \in Thread : /\ arg[t].time <= now
                          /\ pc[t] = "clocked" => arg[t].time >= now - MaxStall
    BY <1>0, <1>1, <2>0, <2>1 DEF TimeInv
  <2>3. \A i \in 1..Len(guards) : guards[i].time <= now
    BY <1>0, <1>2, <2>0 DEF TimeInv
  <2>4. Spread(guards') /\ Len(guards') < GuardThreshold
    BY <2>1 DEF TimeInv
  <2>5. /\ \A t \in Thread : /\ arg'[t].time <= clock'
                             /\ pc'[t] = "clocked" => arg'[t].time >= clock' - MaxStall
        /\ \A i \in 1..Len(guards') : guards'[i].time <= clock'
    BY <2>1, <2>2, <2>3
  <2> QED BY <2>4, <2>5 DEF TimeInv, Spread
<1>6. ASSUME NEW t \in Thread, ReadClock(t) PROVE TimeInv'
  <2>1. UNCHANGED <<guards, clock>> /\ pc' = [pc EXCEPT ![t] = "clocked"]
        /\ \A u \in Thread \ {t} : arg'[u] = arg[u]
    BY <1>0, <1>6 DEF ReadClock, auditVars
  <2>2. arg'[t].time = clock
    <3>1. arg' = [arg EXCEPT ![t] = [arg[t] EXCEPT !.time = clock]]
      BY <1>0, <1>6 DEF ReadClock
    <3>2. [arg[t] EXCEPT !.time = clock].time = clock
      BY <1>1 DEF ArgSet
    <3> QED BY <1>0, <3>1, <3>2
  <2>3. \A u \in Thread : /\ arg'[u].time <= clock
                          /\ pc'[u] = "clocked" => arg'[u].time >= clock - MaxStall
    BY <1>0, <2>1, <2>2 DEF TimeInv
  <2> QED BY <2>1, <2>3 DEF TimeInv, Spread
<1>7. ASSUME NEW t \in Thread, Refused(t) PROVE TimeInv'
  <2>1. UNCHANGED <<guards, clock>> /\ pc' = [pc EXCEPT ![t] = "refused"]
        /\ \A u \in Thread \ {t} : arg'[u] = arg[u]
    BY <1>0, <1>7 DEF Refused, EmitEnds, auditVars
  <2>2. arg'[t].time = arg[t].time
    <3>1. PICK h : arg' = [arg EXCEPT ![t] = [arg[t] EXCEPT !.ret = h]]
      BY <1>0, <1>7 DEF Refused
    <3>2. [arg[t] EXCEPT !.ret = h].time = arg[t].time
      BY <1>1 DEF ArgSet
    <3> QED BY <1>0, <3>1, <3>2
  <2>3. \A u \in Thread : /\ arg'[u].time <= clock
                          /\ pc'[u] = "clocked" => arg'[u].time >= clock - MaxStall
    BY <1>0, <2>1, <2>2 DEF TimeInv
  <2> QED BY <2>1, <2>3 DEF TimeInv, Spread
<1>8. ASSUME NEW t \in Thread, NoteGuard(t) PROVE TimeInv'
  <2>1. PICK kept \in Seq(GuardSet) :
              /\ IsKept(kept, guards, Refusal(t))
              /\ Refusal(t) \in GuardSet /\ Refusal(t).time = arg[t].time
              /\ pc[t] = "clocked"
              /\ \/ /\ guards' = <<>>
                    /\ pc' = [pc EXCEPT ![t] = "GUARD_ESCALATION"]
                    /\ arg' = [arg EXCEPT ![t] = [NoArg EXCEPT !.ref = kept[Len(kept)].ref]]
                 \/ /\ Len(kept) < GuardThreshold
                    /\ guards' = kept
                    /\ pc' = [pc EXCEPT ![t] = "idle"]
                    /\ arg' = [arg EXCEPT ![t] = NoArg]
              /\ clock' = clock
    BY <1>8, NoteView DEF TypesInv
  <2>2. PICK g \in GuardSet : g = Refusal(t)
    BY <2>1
  <2>3. IsKept(kept, guards, g) /\ g.time = arg[t].time
    BY <2>1, <2>2
  <2>4. g.time \in Nat /\ g.time <= clock /\ g.time >= clock - MaxStall
    BY <1>1, <2>1, <2>3 DEF TimeInv
  <2>5. \A i \in 1..Len(guards) : g.time >= guards[i].time - MaxStall
    BY <1>0, <1>2, <2>4 DEF TimeInv
  <2>6. Spread(kept)
    BY <1>0, <2>3, <2>5, SpreadKept DEF TimeInv
  <2>7. \A k \in 1..Len(kept) : kept[k].time <= clock
    <3>1. PICK m \in 0..Len(guards) :
            /\ Len(kept) = Len(guards) + 1 - m
            /\ \A k \in 1..Len(kept) : kept[k] = Append(guards, g)[k + m]
      BY <2>3 DEF IsKept
    <3> TAKE k \in 1..Len(kept)
    <3>2. k + m \in 1..(Len(guards) + 1) /\ Len(guards) \in Nat
      BY <1>0, <3>1
    <3>3. PICK q : /\ \A l \in 1..Len(kept) : kept[l] = q[l + m]
                   /\ q[Len(guards) + 1] = g /\ \A i \in 1..Len(guards) : q[i] = guards[i]
      <4>1. /\ Append(guards, g)[Len(guards) + 1] = g
            /\ \A i \in 1..Len(guards) : Append(guards, g)[i] = guards[i]
        BY <1>0, <2>2
      <4> QED BY <3>1, <4>1
    <3>4. CASE k + m = Len(guards) + 1
      BY <2>4, <3>3, <3>4
    <3>5. CASE k + m # Len(guards) + 1
      <4>1. k + m \in 1..Len(guards)
        BY <3>2, <3>5
      <4> QED BY <3>3, <3>5, <4>1 DEF TimeInv
    <3> QED BY <3>4, <3>5
  <2>8. \A u \in Thread : /\ arg'[u].time <= clock
                          /\ pc'[u] = "clocked" => arg'[u].time >= clock - MaxStall
    <3> TAKE u \in Thread
    <3>1. CASE u = t
      <4>1. PICK a : a = [NoArg EXCEPT !.ref = kept[Len(kept)].ref]
        OBVIOUS
      <4>2. NoArg.time = 0 /\ a.time = 0
        BY <4>1 DEF NoArg
      <4>3. arg' = [arg EXCEPT ![t] = a] \/ arg' = [arg EXCEPT ![t] = NoArg]
        BY <2>1, <4>1
      <4>4. arg'[t].time = 0
        BY <1>0, <4>2, <4>3
      <4>5. pc'[t] # "clocked"
        <5>1. pc' = [pc EXCEPT ![t] = "GUARD_ESCALATION"] \/ pc' = [pc EXCEPT ![t] = "idle"]
          BY <2>1
        <5> QED BY <1>0, <5>1
      <4> QED BY <1>0, <3>1, <4>4, <4>5
    <3>2. CASE u # t
      BY <1>0, <2>1, <3>2 DEF TimeInv
    <3> QED BY <3>1, <3>2
  <2>9. CASE guards' = <<>>
    BY <1>3, <2>1, <2>8, <2>9 DEF TimeInv, Spread
  <2>10. CASE guards' = kept /\ Len(kept) < GuardThreshold
    BY <2>1, <2>6, <2>7, <2>8, <2>10 DEF TimeInv, Spread
  <2> QED BY <2>1, <2>9, <2>10
<1> QED BY <1>4, <1>5, <1>6, <1>7, <1>8, QueueSteps

\* What is kept of a queue that names each refusal once, with one more, does so too.
LEMMA KeptRefs ==
    ASSUME NEW queue \in Seq(GuardSet), NEW g \in GuardSet, NEW kept, IsKept(kept, queue, g),
           \A i, j \in 1..Len(queue) : queue[i].ref = queue[j].ref => i = j,
           \A i \in 1..Len(queue) : queue[i].ref # g.ref
    PROVE  /\ \A i \in 1..Len(kept) : kept[i].ref = g.ref
                                      \/ \E k \in 1..Len(queue) : kept[i].ref = queue[k].ref
           /\ \A i, j \in 1..Len(kept) : kept[i].ref = kept[j].ref => i = j
<1>1. PICK m \in 0..Len(queue) :
       /\ kept \in Seq(GuardSet) /\ Len(kept) = Len(queue) + 1 - m
       /\ \A k \in 1..Len(kept) : kept[k] = Append(queue, g)[k + m]
  BY DEF IsKept
<1>2. Len(queue) \in Nat /\ m \in Nat /\ m <= Len(queue)
  BY <1>1
<1>3. \A k \in 1..Len(kept) : \/ k = Len(kept) /\ kept[k] = g
                              \/ k < Len(kept) /\ k + m \in 1..Len(queue) /\ kept[k] = queue[k + m]
  BY <1>1, <1>2
<1>4. \A i, j \in 1..Len(kept) : kept[i].ref = kept[j].ref => i = j
  <2> TAKE i, j \in 1..Len(kept)
  <2>1. CASE kept[i] = queue[i + m] /\ i + m \in 1..Len(queue) /\ kept[j] = queue[j + m] /\ j + m \in 1..Len(queue)
    <3>1. kept[i].ref = kept[j].ref => i + m = j + m
      BY <2>1
    <3> QED BY <1>2, <3>1
  <2>2. CASE i = Len(kept) /\ kept[i] = g
    <3>1. CASE j = Len(kept)
      BY <2>2, <3>1
    <3>2. CASE j # Len(kept)
      BY <1>3, <2>2, <3>2
    <3> QED BY <3>1, <3>2
  <2>3. CASE j = Len(kept) /\ kept[j] = g
    <3>1. CASE i = Len(kept)
      BY <2>3, <3>1
    <3>2. CASE i # Len(kept)
      BY <1>3, <2>3, <3>2
    <3> QED BY <3>1, <3>2
  <2> QED BY <1>3, <2>1, <2>2, <2>3
<1>5. \A i \in 1..Len(kept) : kept[i].ref = g.ref
                              \/ \E k \in 1..Len(queue) : kept[i].ref = queue[k].ref
  BY <1>3
<1> QED BY <1>4, <1>5

\* What was a refusal on record stays one.
LEMMA RefusalsGrow ==
    ASSUME LogTypes, acked' = acked \/ acked' = Append(acked, writing.rec)
    PROVE  Refusals(acked) \subseteq Refusals(acked')
<1>1. CASE acked' = acked
  BY <1>1
<1>2. CASE acked' = Append(acked, writing.rec)
  <2>1. PICK r \in RecordSet : r = writing.rec
    BY DEF LogTypes, WritingSet
  <2>2. acked' = Append(acked, r)
    BY <1>2, <2>1
  <2> QED BY <2>2, KnownGrows DEF IsRefusal
<1> QED BY <1>1, <1>2

LEMMA PlaceStep ==
    ASSUME TypesInv, LogInv, PlaceInv, AuditNext
    PROVE  PlaceInv'
<1>0. /\ pc \in [Thread -> PcSet] /\ arg \in [Thread -> ArgSet] /\ guards \in Seq(GuardSet)
      /\ escalations \in Seq(Seq(GuardSet))
      /\ LogTypes /\ ControlInv /\ NumberInv
  BY DEF TypesInv, QueueTypes, LogInv
<1>1. CASE Unnoted
  <2>1. Refusals(acked) \subseteq Refusals(acked')
    BY <1>0, <1>1, RefusalsGrow DEF Unnoted
  <2>2. /\ guards' \in {guards, <<>>} /\ escalations' = escalations
        /\ \A t \in Thread : pc'[t] \in {"refused", "clocked"} =>
              pc[t] \in {"refused", "clocked"} /\ arg'[t] = arg[t]
    BY <1>1 DEF Unnoted
  <2>3. \A t \in Thread : pc'[t] \in {"refused", "clocked"} =>
          /\ arg'[t].ret \in Refusals(acked')
          /\ \A u \in Thread \ {t} : pc'[u] \in {"refused", "clocked"} => arg'[u].ret # arg'[t].ret
          /\ \A k \in 1..Len(escalations) : arg'[t].ret \notin Counted(escalations[k])
    BY <2>1, <2>2 DEF PlaceInv, Noting, IsRefusal
  <2>4. \A k \in 1..Len(escalations) :
          /\ \A h \in Counted(escalations[k]) : h \in Refusals(acked')
          /\ \A l \in 1..(k - 1) : Counted(escalations[k]) \cap Counted(escalations[l]) = {}
    BY <2>1 DEF PlaceInv, IsRefusal
  <2>5. CASE guards' = <<>>
    <3>1. 1..Len(guards') = {}
      BY <2>5
    <3>2. escalations' = escalations
      BY <2>2
    <3> QED BY <2>3, <2>4, <3>1, <3>2 DEF PlaceInv, Noting, IsRefusal
  <2>6. CASE guards' = guards
    <3>1. \A i \in 1..Len(guards) :
            /\ guards[i].ref \in Refusals(acked')
            /\ \A j \in 1..Len(guards) : guards[i].ref = guards[j].ref => i = j
            /\ \A k \in 1..Len(escalations) : guards[i].ref \notin Counted(escalations[k])
      BY <2>1 DEF PlaceInv, IsRefusal
    <3>2. \A t \in Thread : pc'[t] \in {"refused", "clocked"} =>
             \A i \in 1..Len(guards) : guards[i].ref # arg'[t].ret
      BY <2>2 DEF PlaceInv, Noting
    <3> QED BY <2>2, <2>3, <2>4, <2>6, <3>1, <3>2 DEF PlaceInv, Noting, IsRefusal
  <2> QED BY <2>2, <2>5, <2>6
<1>2. CASE Tick
  <2>1. UNCHANGED <<guards, escalations, pc, arg, acked>>
    BY <1>2 DEF Tick, threadVars
  <2> QED BY <2>1 DEF PlaceInv, Noting, IsRefusal
<1>3. ASSUME NEW t \in Thread, ReadClock(t) PROVE PlaceInv'
  <2>1. UNCHANGED <<guards, escalations, acked>> /\ pc[t] = "refused" /\ pc' = [pc EXCEPT ![t] = "clocked"]
        /\ arg' = [arg EXCEPT ![t].time = clock]
    BY <1>3 DEF ReadClock, auditVars
  <2>2. \A u \in Thread : arg'[u].ret = arg[u].ret
    <3> TAKE u \in Thread
    <3>1. CASE u # t
      BY <1>0, <2>1, <3>1
    <3>2. CASE u = t
      <4>1. arg' = [arg EXCEPT ![t] = [arg[t] EXCEPT !.time = clock]]
        BY <2>1
      <4>2. [arg[t] EXCEPT !.time = clock].ret = arg[t].ret
        BY <1>0 DEF ArgSet
      <4> QED BY <1>0, <3>2, <4>1, <4>2
    <3> QED BY <3>1, <3>2
  <2>3. \A u \in Thread : pc'[u] \in {"refused", "clocked"} => pc[u] \in {"refused", "clocked"}
    BY <1>0, <2>1
  <2>4. UNCHANGED <<guards, escalations, acked>>
    BY <2>1
  <2> QED BY <2>2, <2>3, <2>4 DEF PlaceInv, Noting, IsRefusal
<1>4. ASSUME NEW t \in Thread, Refused(t) PROVE PlaceInv'
  <2>0. PICK r \in RecordSet : r = writing.rec
    BY <1>0 DEF LogTypes, WritingSet
  <2>1. /\ UNCHANGED <<guards, escalations>> /\ acked' = Append(acked, r) /\ r.type = "GUARD"
        /\ pc' = [pc EXCEPT ![t] = "refused"] /\ arg' = [arg EXCEPT ![t].ret = Hash(r)]
        /\ writing.by = t
    BY <1>4, <2>0 DEF Refused, EmitEnds, EndWrite, auditVars
  <2>2. Refusals(acked) \subseteq Refusals(acked') /\ Hash(r) \in Refusals(acked')
    BY <1>0, <2>1, KnownGrows DEF IsRefusal
  <2>3. Hash(r) \notin Refusals(acked)
    <3>1. writer.open /\ r.boot = writer.boot /\ r.seq = writer.seq /\ ~r.rot
      BY <1>0, <2>0, <2>1, ThreadsApart DEF ControlInv
    <3>2. \A i \in 1..Len(acked) : Hash(acked[i]) # Hash(r)
      BY <1>0, <3>1, NewHash
    <3> QED BY <3>2 DEF Refusals
  <2>4. arg'[t].ret = Hash(r) /\ \A u \in Thread \ {t} : arg'[u] = arg[u] /\ pc'[u] = pc[u]
    <3>1. PICK h : h = Hash(r)
      OBVIOUS
    <3>2. arg' = [arg EXCEPT ![t] = [arg[t] EXCEPT !.ret = h]]
      BY <2>1, <3>1
    <3>3. [arg[t] EXCEPT !.ret = h].ret = h
      BY <1>0 DEF ArgSet
    <3> QED BY <1>0, <2>1, <3>1, <3>2, <3>3
  <2>5. ASSUME NEW u \in Thread, pc'[u] \in {"refused", "clocked"}
        PROVE  /\ arg'[u].ret \in Refusals(acked')
               /\ \A v \in Thread \ {u} : pc'[v] \in {"refused", "clocked"} => arg'[v].ret # arg'[u].ret
               /\ \A i \in 1..Len(guards) : guards[i].ref # arg'[u].ret
               /\ \A k \in 1..Len(escalations) : arg'[u].ret \notin Counted(escalations[k])
    <3>1. \A v \in Thread \ {t} : pc'[v] \in {"refused", "clocked"} =>
              /\ arg'[v].ret \in Refusals(acked) /\ arg'[v].ret # Hash(r)
              /\ \A i \in 1..Len(guards) : guards[i].ref # arg'[v].ret
              /\ \A k \in 1..Len(escalations) : arg'[v].ret \notin Counted(escalations[k])
      BY <2>3, <2>4 DEF PlaceInv, Noting, IsRefusal
    <3>2. CASE u = t
      <4>1. \A i \in 1..Len(guards) : guards[i].ref # Hash(r)
        BY <2>3 DEF PlaceInv, IsRefusal
      <4>2. \A k \in 1..Len(escalations) : Hash(r) \notin Counted(escalations[k])
        BY <2>3 DEF PlaceInv, IsRefusal
      <4> QED BY <2>2, <2>4, <3>1, <3>2, <4>1, <4>2
    <3>3. CASE u # t
      <4>1. \A v \in Thread \ {t, u} : pc'[v] \in {"refused", "clocked"} => arg'[v].ret # arg'[u].ret
        BY <2>4, <2>5, <3>3 DEF PlaceInv, Noting
      <4> QED BY <2>2, <2>4, <2>5, <3>1, <3>3, <4>1
    <3> QED BY <3>2, <3>3
  <2>6. \A i \in 1..Len(guards) :
            /\ guards[i].ref \in Refusals(acked')
            /\ \A j \in 1..Len(guards) : guards[i].ref = guards[j].ref => i = j
            /\ \A k \in 1..Len(escalations) : guards[i].ref \notin Counted(escalations[k])
    BY <2>2 DEF PlaceInv, IsRefusal
  <2>7. \A k \in 1..Len(escalations) :
          /\ \A h \in Counted(escalations[k]) : h \in Refusals(acked')
          /\ \A l \in 1..(k - 1) : Counted(escalations[k]) \cap Counted(escalations[l]) = {}
    BY <2>2 DEF PlaceInv, IsRefusal
  <2>8. UNCHANGED <<guards, escalations>>
    BY <2>1
  <2> QED BY <2>5, <2>6, <2>7, <2>8 DEF PlaceInv, Noting, IsRefusal
<1>5. ASSUME NEW t \in Thread, NoteGuard(t) PROVE PlaceInv'
  <2>1. PICK kept \in Seq(GuardSet) :
              /\ IsKept(kept, guards, Refusal(t))
              /\ Refusal(t) \in GuardSet /\ Refusal(t).ref = arg[t].ret
              /\ pc[t] = "clocked"
              /\ \/ /\ guards' = <<>> /\ escalations' = Append(escalations, kept)
                    /\ pc' = [pc EXCEPT ![t] = "GUARD_ESCALATION"]
                    /\ arg' = [arg EXCEPT ![t] = [NoArg EXCEPT !.ref = kept[Len(kept)].ref]]
                 \/ /\ guards' = kept /\ escalations' = escalations
                    /\ pc' = [pc EXCEPT ![t] = "idle"]
                    /\ arg' = [arg EXCEPT ![t] = NoArg]
              /\ acked' = acked
    BY <1>5, NoteView DEF TypesInv
  <2>2. PICK g \in GuardSet : g = Refusal(t)
    BY <2>1
  <2>3. IsKept(kept, guards, g) /\ g.ref = arg[t].ret
    BY <2>1, <2>2
  <2>4. /\ g.ref \in Refusals(acked)
        /\ \A u \in Thread \ {t} : Noting(u) => arg[u].ret # g.ref
        /\ \A i \in 1..Len(guards) : guards[i].ref # g.ref
        /\ \A k \in 1..Len(escalations) : g.ref \notin Counted(escalations[k])
    BY <2>1, <2>3 DEF PlaceInv, Noting, IsRefusal
  <2>5. /\ \A i \in 1..Len(kept) : kept[i].ref = g.ref
                                      \/ \E k \in 1..Len(guards) : kept[i].ref = guards[k].ref
        /\ \A i, j \in 1..Len(kept) : kept[i].ref = kept[j].ref => i = j
    <3>1. \A i, j \in 1..Len(guards) : guards[i].ref = guards[j].ref => i = j
      BY DEF PlaceInv
    <3> QED BY <1>0, <2>3, <2>4, <3>1, KeptRefs
  <2>6. \A h \in Counted(kept) :
          /\ h \in Refusals(acked)
          /\ \A u \in Thread \ {t} : Noting(u) => arg[u].ret # h
          /\ \A k \in 1..Len(escalations) : h \notin Counted(escalations[k])
    <3> TAKE h \in Counted(kept)
    <3>1. h = g.ref \/ \E k \in 1..Len(guards) : h = guards[k].ref
      BY <2>5 DEF Counted
    <3>2. CASE h = g.ref
      BY <2>4, <3>2
    <3>3. ASSUME NEW k \in 1..Len(guards), h = guards[k].ref
          PROVE  /\ h \in Refusals(acked)
                 /\ \A u \in Thread \ {t} : Noting(u) => arg[u].ret # h
                 /\ \A l \in 1..Len(escalations) : h \notin Counted(escalations[l])
      BY <3>3 DEF PlaceInv, IsRefusal
    <3> QED BY <3>1, <3>2, <3>3
  <2>7. \A i \in 1..Len(kept) : kept[i].ref \in Counted(kept)
    BY DEF Counted
  <2>8. \A u \in Thread : pc'[u] \in {"refused", "clocked"} => u # t /\ Noting(u) /\ arg'[u] = arg[u]
    <3> TAKE u \in Thread
    <3>1. pc' = [pc EXCEPT ![t] = "GUARD_ESCALATION"] \/ pc' = [pc EXCEPT ![t] = "idle"]
      BY <2>1
    <3>2. u # t => arg'[u] = arg[u] /\ pc'[u] = pc[u]
      BY <1>0, <2>1
    <3>3. u = t => pc'[u] \notin {"refused", "clocked"}
      BY <1>0, <3>1
    <3> QED BY <3>2, <3>3 DEF Noting
  <2>9. CASE guards' = <<>> /\ escalations' = Append(escalations, kept)
    <3>1. /\ Len(escalations') = Len(escalations) + 1 /\ Len(escalations) \in Nat
          /\ escalations'[Len(escalations) + 1] = kept
          /\ \A k \in 1..Len(escalations) : escalations'[k] = escalations[k]
      BY <1>0, <2>9
    <3>2. \A k \in 1..Len(escalations') : \/ k \in 1..Len(escalations) /\ escalations'[k] = escalations[k]
                                          \/ k = Len(escalations) + 1 /\ escalations'[k] = kept
      BY <3>1
    <3>3. ASSUME NEW k \in 1..Len(escalations')
          PROVE  /\ \A h \in Counted(escalations'[k]) : h \in Refusals(acked)
                 /\ \A l \in 1..(k - 1) : Counted(escalations'[k]) \cap Counted(escalations'[l]) = {}
      <4>1. CASE k \in 1..Len(escalations) /\ escalations'[k] = escalations[k]
        <5>1. \A l \in 1..(k - 1) : l \in 1..Len(escalations) /\ escalations'[l] = escalations[l]
          BY <3>1, <4>1
        <5> QED BY <4>1, <5>1 DEF PlaceInv, IsRefusal
      <4>2. CASE k = Len(escalations) + 1 /\ escalations'[k] = kept
        <5>1. \A l \in 1..(k - 1) : l \in 1..Len(escalations) /\ escalations'[l] = escalations[l]
          BY <3>1, <4>2
        <5> QED BY <2>6, <4>2, <5>1
      <4> QED BY <3>2, <4>1, <4>2
    <3>4. ASSUME NEW u \in Thread, pc'[u] \in {"refused", "clocked"}
          PROVE  /\ arg'[u].ret \in Refusals(acked)
                 /\ \A v \in Thread \ {u} : pc'[v] \in {"refused", "clocked"} => arg'[v].ret # arg'[u].ret
                 /\ \A k \in 1..Len(escalations') : arg'[u].ret \notin Counted(escalations'[k])
      <4>1. u # t /\ Noting(u) /\ arg'[u] = arg[u]
        BY <2>8, <3>4
      <4>2. \A v \in Thread \ {u} : pc'[v] \in {"refused", "clocked"} => arg'[v].ret # arg'[u].ret
        BY <2>8, <4>1 DEF PlaceInv
      <4>3. \A k \in 1..Len(escalations') : arg'[u].ret \notin Counted(escalations'[k])
        BY <2>6, <3>2, <4>1 DEF PlaceInv
      <4> QED BY <4>1, <4>2, <4>3 DEF PlaceInv, IsRefusal
    <3>5. 1..Len(guards') = {} /\ acked' = acked
      BY <2>1, <2>9
    <3> QED BY <3>3, <3>4, <3>5 DEF PlaceInv, Noting, IsRefusal
  <2>10. CASE guards' = kept /\ escalations' = escalations
    <3>1. \A i \in 1..Len(kept) : /\ kept[i].ref \in Refusals(acked)
                                  /\ \A u \in Thread \ {t} : Noting(u) => arg[u].ret # kept[i].ref
                                  /\ \A k \in 1..Len(escalations) : kept[i].ref \notin Counted(escalations[k])
      BY <2>6, <2>7
    <3>2. ASSUME NEW u \in Thread, pc'[u] \in {"refused", "clocked"}
          PROVE  /\ arg'[u].ret \in Refusals(acked)
                 /\ \A v \in Thread \ {u} : pc'[v] \in {"refused", "clocked"} => arg'[v].ret # arg'[u].ret
                 /\ \A i \in 1..Len(kept) : kept[i].ref # arg'[u].ret
                 /\ \A k \in 1..Len(escalations) : arg'[u].ret \notin Counted(escalations[k])
      <4>1. u # t /\ Noting(u) /\ arg'[u] = arg[u]
        BY <2>8, <3>2
      <4>2. \A v \in Thread \ {u} : pc'[v] \in {"refused", "clocked"} => arg'[v].ret # arg'[u].ret
        BY <2>8, <4>1 DEF PlaceInv
      <4> QED BY <3>1, <4>1, <4>2 DEF PlaceInv, IsRefusal
    <3>3. \A k \in 1..Len(escalations) :
          /\ \A h \in Counted(escalations[k]) : h \in Refusals(acked)
          /\ \A l \in 1..(k - 1) : Counted(escalations[k]) \cap Counted(escalations[l]) = {}
      BY DEF PlaceInv, IsRefusal
    <3>4. acked' = acked /\ guards' = kept /\ escalations' = escalations
      BY <2>1, <2>10
    <3> QED BY <2>5, <3>1, <3>2, <3>3, <3>4 DEF PlaceInv, Noting, IsRefusal
  <2> QED BY <2>1, <2>9, <2>10
<1> QED BY <1>0, <1>1, <1>2, <1>3, <1>4, <1>5, QueueSteps

LEMMA EscalationStep ==
    ASSUME TypesInv, ControlInv, PlaceInv, TimeInv, EscalationInv, AuditNext
    PROVE  EscalationInv'
<1>0. /\ pc \in [Thread -> PcSet] /\ arg \in [Thread -> ArgSet] /\ guards \in Seq(GuardSet)
      /\ clock \in Nat /\ escalations \in Seq(Seq(GuardSet))
      /\ LogTypes /\ acked \in Seq(RecordSet)
      /\ MaxStall \in Nat
  BY BoundAssumption DEF TypesInv, QueueTypes, LogTypes
<1>1. ASSUME acked' = acked \/ acked' = Append(acked, writing.rec)
      PROVE  \A i \in 1..Len(acked') : acked'[i].type = "GUARD_ESCALATION" =>
                acked'[i].ref \in Escalates(escalations)
  <2>1. CASE acked' = acked
    BY <2>1 DEF EscalationInv, Escalated
  <2>2. CASE acked' = Append(acked, writing.rec)
    <3>1. writing.rec \in RecordSet
      BY <1>0 DEF LogTypes, WritingSet
    <3>2. \A i \in 1..Len(acked') : \/ i \in 1..Len(acked) /\ acked'[i] = acked[i]
                                    \/ acked'[i] = writing.rec
      BY <1>0, <2>2, <3>1
    <3> QED BY <3>2 DEF EscalationInv, Escalated
  <2> QED BY <1>1, <2>1, <2>2
<1>2. CASE Unnoted
  <2>1. /\ escalations' = escalations
        /\ \A t \in Thread : pc'[t] = "GUARD_ESCALATION" => pc'[t] = pc[t] /\ arg'[t] = arg[t]
        /\ writing'.rec.type = "GUARD_ESCALATION" =>
              \/ writing'.rec = writing.rec
              \/ \E t \in Thread : pc[t] = "GUARD_ESCALATION" /\ writing'.rec.ref = arg[t].ref
    BY <1>2 DEF Unnoted
  <2>2. \A i \in 1..Len(acked') : acked'[i].type = "GUARD_ESCALATION" =>
                acked'[i].ref \in Escalates(escalations)
    BY <1>1, <1>2 DEF Unnoted
  <2>3. writing'.rec.type = "GUARD_ESCALATION" => writing'.rec.ref \in Escalates(escalations)
    BY <2>1 DEF EscalationInv, Escalated
  <2>4. \A t \in Thread : pc'[t] = "GUARD_ESCALATION" => arg'[t].ref \in Escalates(escalations)
    BY <2>1 DEF EscalationInv, Escalated
  <2>5. \A k \in 1..Len(escalations) : Counts(escalations[k])
    BY DEF EscalationInv
  <2> QED BY <2>1, <2>2, <2>3, <2>4, <2>5 DEF EscalationInv, Escalated
<1>3. CASE Tick
  <2>1. UNCHANGED <<escalations, pc, arg, acked, writing>>
    BY <1>3 DEF Tick, threadVars
  <2> QED BY <2>1 DEF EscalationInv, Escalated
<1>4. ASSUME NEW t \in Thread, ReadClock(t) \/ Refused(t) PROVE EscalationInv'
  <2>1. /\ UNCHANGED escalations /\ (acked' = acked \/ acked' = Append(acked, writing.rec))
        /\ writing' = writing \/ writing'.rec = NoRecord
        /\ pc' = [pc EXCEPT ![t] = "clocked"] \/ pc' = [pc EXCEPT ![t] = "refused"]
        /\ \A u \in Thread \ {t} : arg'[u] = arg[u]
    BY <1>0, <1>4 DEF ReadClock, Refused, EmitEnds, EndWrite, auditVars
  <2>2. \A u \in Thread : pc'[u] = "GUARD_ESCALATION" => pc[u] = "GUARD_ESCALATION" /\ arg'[u] = arg[u]
    BY <1>0, <2>1
  <2>3. \A i \in 1..Len(acked') : acked'[i].type = "GUARD_ESCALATION" =>
                acked'[i].ref \in Escalates(escalations)
    BY <1>1, <2>1
  <2>4. writing'.rec.type = "GUARD_ESCALATION" => writing'.rec.ref \in Escalates(escalations)
    BY <2>1, NoRecordType DEF EscalationInv, Escalated
  <2>5. \A u \in Thread : pc'[u] = "GUARD_ESCALATION" => arg'[u].ref \in Escalates(escalations)
    BY <2>2 DEF EscalationInv, Escalated
  <2>6. \A k \in 1..Len(escalations) : Counts(escalations[k])
    BY DEF EscalationInv
  <2>7. escalations' = escalations
    BY <2>1
  <2> QED BY <2>3, <2>4, <2>5, <2>6, <2>7 DEF EscalationInv, Escalated
<1>5. ASSUME NEW t \in Thread, NoteGuard(t) PROVE EscalationInv'
  <2>1. PICK kept \in Seq(GuardSet) :
              /\ IsKept(kept, guards, Refusal(t))
              /\ Refusal(t) \in GuardSet /\ Refusal(t).ref = arg[t].ret /\ Refusal(t).time = arg[t].time
              /\ pc[t] = "clocked"
              /\ \/ /\ Len(kept) >= GuardThreshold
                    /\ escalations' = Append(escalations, kept)
                    /\ pc' = [pc EXCEPT ![t] = "GUARD_ESCALATION"]
                    /\ arg' = [arg EXCEPT ![t] = [NoArg EXCEPT !.ref = kept[Len(kept)].ref]]
                 \/ /\ escalations' = escalations
                    /\ pc' = [pc EXCEPT ![t] = "idle"]
                    /\ arg' = [arg EXCEPT ![t] = NoArg]
              /\ acked' = acked /\ writing' = writing
    BY <1>5, NoteView DEF TypesInv
  <2>2. CASE escalations' = escalations /\ pc' = [pc EXCEPT ![t] = "idle"]
    <3>1. \A u \in Thread : pc'[u] = "GUARD_ESCALATION" => pc[u] = "GUARD_ESCALATION" /\ arg'[u] = arg[u]
      BY <1>0, <2>1, <2>2
    <3>2. \A u \in Thread : pc'[u] = "GUARD_ESCALATION" => arg'[u].ref \in Escalates(escalations)
      BY <3>1 DEF EscalationInv, Escalated
    <3>3. UNCHANGED <<acked, writing, escalations>>
      BY <2>1, <2>2
    <3> QED BY <3>2, <3>3 DEF EscalationInv, Escalated
  <2>3. CASE /\ Len(kept) >= GuardThreshold
             /\ escalations' = Append(escalations, kept)
             /\ pc' = [pc EXCEPT ![t] = "GUARD_ESCALATION"]
             /\ arg' = [arg EXCEPT ![t] = [NoArg EXCEPT !.ref = kept[Len(kept)].ref]]
    <3>1. PICK g \in GuardSet : g = Refusal(t)
      BY <2>1
    <3>2. IsKept(kept, guards, g) /\ g.ref = arg[t].ret /\ g.time = arg[t].time
      BY <2>1, <3>1
    <3>3. /\ \A i \in 1..Len(guards) : guards[i].ref # g.ref
          /\ \A i, j \in 1..Len(guards) : guards[i].ref = guards[j].ref => i = j
      BY <2>1, <3>2 DEF PlaceInv, Noting
    <3>4. \A i, j \in 1..Len(kept) : kept[i].ref = kept[j].ref => i = j
      BY <1>0, <3>2, <3>3, KeptRefs
    <3>5. \A i \in 1..Len(guards) : g.time >= guards[i].time - MaxStall
      <4> TAKE i \in 1..Len(guards)
      <4>1. guards[i].time \in Nat /\ g.time \in Nat
        <5>1. guards[i] \in GuardSet
          BY <1>0
        <5> QED BY <3>1, <5>1 DEF GuardSet
      <4>2. guards[i].time <= clock /\ g.time >= clock - MaxStall
        BY <2>1, <3>2 DEF TimeInv
      <4>3. \A a, b \in Nat : a <= clock /\ b >= clock - MaxStall => b >= a - MaxStall
        BY <1>0
      <4> QED BY <4>1, <4>2, <4>3
    <3>6. \A i, j \in 1..Len(kept) : kept[i].time - kept[j].time <= GuardWindow + MaxStall
      BY <1>0, <3>2, <3>5, SpreadKept DEF TimeInv
    <3>7. Counts(kept)
      BY <2>3, <3>4, <3>6 DEF Counts
    <3>8. /\ Len(escalations') = Len(escalations) + 1 /\ Len(escalations) \in Nat
          /\ escalations'[Len(escalations) + 1] = kept
          /\ \A k \in 1..Len(escalations) : escalations'[k] = escalations[k]
      BY <1>0, <2>3
    <3>9. \A k \in 1..Len(escalations') : Counts(escalations'[k])
      <4>1. \A k \in 1..Len(escalations') : \/ k \in 1..Len(escalations) /\ escalations'[k] = escalations[k]
                                            \/ escalations'[k] = kept
        BY <3>8
      <4> QED BY <3>7, <4>1 DEF EscalationInv
    <3>10. Escalates(escalations) \subseteq Escalates(escalations') /\ Last(kept).ref \in Escalates(escalations')
      <4>1. \A k \in 1..Len(escalations) : k \in 1..Len(escalations')
        BY <3>8
      <4>2. Len(escalations) + 1 \in 1..Len(escalations')
        BY <3>8
      <4> QED BY <3>8, <4>1, <4>2 DEF Escalates
    <3>11. \A u \in Thread : pc'[u] = "GUARD_ESCALATION" => arg'[u].ref \in Escalates(escalations')
      <4> TAKE u \in Thread
      <4>1. CASE u = t
        <5>1. PICK a : a = [NoArg EXCEPT !.ref = kept[Len(kept)].ref]
          OBVIOUS
        <5>2. a.ref = kept[Len(kept)].ref
          BY <5>1 DEF NoArg
        <5>3. arg'[t] = a
          BY <1>0, <2>3, <5>1
        <5> QED BY <3>10, <4>1, <5>2, <5>3 DEF Last
      <4>2. CASE u # t
        BY <1>0, <2>3, <3>10, <4>2 DEF EscalationInv, Escalated
      <4> QED BY <4>1, <4>2
    <3>12. UNCHANGED <<acked, writing>>
      BY <2>1
    <3>13. /\ writing'.rec.type = "GUARD_ESCALATION" => writing'.rec.ref \in Escalates(escalations')
           /\ \A i \in 1..Len(acked') : acked'[i].type = "GUARD_ESCALATION" => acked'[i].ref \in Escalates(escalations')
      BY <3>10, <3>12 DEF EscalationInv, Escalated
    <3> QED BY <3>9, <3>11, <3>13 DEF EscalationInv, Escalated
  <2> QED BY <2>1, <2>2, <2>3
<1> QED BY <1>2, <1>3, <1>4, <1>5, QueueSteps

LEMMA QueueStep ==
    ASSUME TypesInv, LogInv, QueueInv, WalkInv, AuditNext
    PROVE  QueueTypes' /\ ThreadInv' /\ QueueInv'
BY ThreadKeeps, PlaceStep, TimeStep, EscalationStep DEF QueueInv, LogInv

-----------------------------------------------------------------------------
(* The file: its links, and what of the log is in it.                       *)

\* What is settled is the beginning of the file.
LEMMA SettledFacts ==
    ASSUME LogTypes, ControlInv
    PROVE  /\ Settled \in Seq(CellSet)
           /\ writing.by = Nobody => Settled = file
           /\ writing.by # Nobody => file = Append(Settled, Cell("cut", writing.rec))
           /\ Reach(Settled) = Reach(file)
           /\ WellFormed(file) => WellFormed(Settled)
           /\ WellFormed(Settled) => Records(Settled) = Records(file)
           /\ \A i \in 1..Len(Settled) : i \in 1..Len(file) /\ Settled[i] = file[i]
<1>0. file \in Seq(CellSet) /\ writing.rec \in RecordSet
  BY DEF LogTypes, WritingSet
<1>1. CASE writing.by = Nobody
  BY <1>0, <1>1 DEF Settled
<1>2. CASE writing.by # Nobody
  <2>1. file # <<>> /\ Last(file) = Cell("cut", writing.rec) /\ Settled = Front(file)
    BY <1>2 DEF ControlInv, Settled
  <2>2. /\ Settled \in Seq(CellSet) /\ file = Append(Settled, Cell("cut", writing.rec))
        /\ \A i \in 1..Len(Settled) : i \in 1..Len(file) /\ Settled[i] = file[i]
    <3>1. Settled = SubSeq(file, 1, Len(file) - 1) /\ file[Len(file)] = Cell("cut", writing.rec)
      BY <2>1 DEF Front, Last
    <3>2. Len(file) \in Nat /\ Len(file) >= 1
      BY <1>0, <2>1
    <3>3. PICK c : c = Cell("cut", writing.rec)
      OBVIOUS
    <3>4. PICK g : g = Settled
      OBVIOUS
    <3>5. g = SubSeq(file, 1, Len(file) - 1) /\ c = file[Len(file)]
      BY <3>1, <3>3, <3>4
    <3>6. /\ g \in Seq(CellSet) /\ file = Append(g, c)
          /\ \A i \in 1..Len(g) : i \in 1..Len(file) /\ g[i] = file[i]
      BY <1>0, <3>2, <3>5
    <3> QED BY <3>3, <3>4, <3>6
  <2>3. /\ Reach(file) = Reach(Settled) /\ ~WellFormed(file)
        /\ WellFormed(Settled) => Records(file) = Records(Settled)
    <3>1. PICK f \in Seq(CellSet), r \in RecordSet : f = Settled /\ r = writing.rec
      BY <1>0, <2>2
    <3>2. PICK h : h = file
      OBVIOUS
    <3>3. h = Append(f, Cell("cut", r))
      BY <2>2, <3>1, <3>2
    <3>4. /\ Reach(h) = Reach(f) /\ ~WellFormed(h)
          /\ WellFormed(f) => Records(h) = Records(f)
      BY <3>3, WithCut
    <3> QED BY <3>1, <3>2, <3>4
  <2> QED BY <1>2, <2>2, <2>3
<1> QED BY <1>1, <1>2

\* The first record of a chain is its GENESIS, and no other is.
LEMMA GenesisFirst ==
    ASSUME LogTypes, ControlInv, WalkInv, writing.by # Nobody, WellFormed(Settled)
    PROVE  /\ writing.rec.type = "GENESIS" <=> Reach(Settled) = <<>>
           /\ Follows(Reach(Settled), writing.rec.seq, writing.rec.prev)
<1>1. /\ writer.open /\ writing.rec.seq = writer.seq /\ writing.rec.prev = writer.head
  BY DEF ControlInv
<1>2. PICK recs : recs = Reach(Settled)
  OBVIOUS
<1>3. Follows(recs, writer.seq, writer.head)
  BY <1>1, <1>2 DEF WalkInv
<1>4. recs \in Seq(RecordSet) /\ writer.seq \in Nat /\ todo \in Openings
  <2>1. recs \in Seq(RecordSet)
    BY <1>2, SettledFacts, RecordsTypes
  <2> QED BY <2>1 DEF LogTypes, WriterSet
<1>5. recs = <<>> <=> writer.seq = 0
  <2>1. CASE recs = <<>>
    BY <1>3, <2>1 DEF Follows
  <2>2. CASE recs # <<>>
    <3>1. writer.seq = recs[Len(recs)].seq + 1
      BY <1>3, <2>2 DEF Follows
    <3>2. recs[Len(recs)] \in RecordSet
      BY <1>4, <2>2
    <3>3. recs[Len(recs)].seq \in Nat
      BY <3>2 DEF RecordSet
    <3> QED BY <2>2, <3>1, <3>3
  <2> QED BY <2>1, <2>2
<1>6. writer.seq = 0 <=> todo = <<"GENESIS", "BOOT">>
  BY <1>1 DEF ControlInv
<1>7. CASE writing.by = Main
  <2>1. writing.rec.type = Head(todo) /\ todo # <<>>
    BY <1>1, <1>7 DEF ControlInv
  <2>2. Head(todo) = "GENESIS" <=> todo = <<"GENESIS", "BOOT">>
    BY <1>4, <2>1, OpeningFacts
  <2> QED BY <1>1, <1>2, <1>3, <1>5, <1>6, <2>1, <2>2
<1>8. CASE writing.by \in Thread
  <2>1. writing.rec.type \in ThreadTypes /\ todo = <<>>
    BY <1>8 DEF ControlInv
  <2>2. writing.rec.type # "GENESIS" /\ todo # <<"GENESIS", "BOOT">>
    BY <2>1 DEF ThreadTypes
  <2> QED BY <1>1, <1>2, <1>3, <1>5, <1>6, <2>2
<1>9. writing.by \in Thread \cup {Main, Nobody}
  BY DEF LogTypes, WritingSet
<1> QED BY <1>7, <1>8, <1>9

\* What the walk reaches stays linked when a record, or a part of it, is added.
LEMMA StaysLinked ==
    ASSUME LogTypes, ControlInv, WalkInv, writing.by # Nobody, NEW h \in Seq(CellSet),
           \/ Reach(h) = Reach(Settled)
           \/ WellFormed(Settled) /\ Reach(h) = Append(Reach(Settled), writing.rec)
    PROVE  Linked(Reach(h))
<1>1. PICK recs \in Seq(RecordSet) : recs = Reach(Settled)
  BY SettledFacts, RecordsTypes
<1>2. PICK r \in RecordSet : r = writing.rec
  BY DEF LogTypes, WritingSet
<1>3. Linked(recs)
  BY <1>1, SettledFacts DEF WalkInv
<1>4. CASE Reach(h) = Reach(Settled)
  BY <1>1, <1>3, <1>4
<1>5. CASE WellFormed(Settled) /\ Reach(h) = Append(Reach(Settled), writing.rec)
  <2>1. (r.type = "GENESIS" <=> recs = <<>>) /\ Follows(recs, r.seq, r.prev)
    BY <1>1, <1>2, <1>5, GenesisFirst
  <2>2. Linked(Append(recs, r))
    BY <1>3, <2>1, LinkedAppend
  <2> QED BY <1>1, <1>2, <1>5, <2>2
<1> QED BY <1>4, <1>5

\* A step that adds no rotten record to the file finds none there.
LEMMA StaysFresh ==
    ASSUME LogTypes, ControlInv, WalkInv, faults["rot"] = 0, NEW r \in RecordSet, ~r.rot,
           NEW h, Adds(Settled, r, h)
    PROVE  \A i \in 1..Len(h) : ~h[i].rec.rot
<1>1. \A j \in 1..Len(Settled) : ~Settled[j].rec.rot
  BY SettledFacts DEF WalkInv
<1> QED BY <1>1 DEF Adds

\* An empty file.
LEMMA EmptyFile ==
    /\ <<>> \in Seq(CellSet) /\ WellFormed(<<>>) /\ Reach(<<>>) = <<>> /\ Stop(<<>>) = 1
<1>1. <<>> \in Seq(CellSet) /\ Len(<<>>) = 0
  OBVIOUS
<1>2. PICK f \in Seq(CellSet) : f = <<>> /\ Len(f) = 0
  BY <1>1
<1>3. Stop(f) \in 1..(0 + 1)
  BY <1>2, StopFacts
<1>4. Stop(f) = 1
  BY <1>3
<1>5. WellFormed(f)
  BY <1>2, <1>4 DEF WellFormed
<1>6. Reach(f) = RecordsTo(f, 0)
  BY <1>2, <1>5, WellFormedFacts
<1> QED BY <1>2, <1>4, <1>5, <1>6, RecordsNone

LEMMA WalkStep ==
    ASSUME LogTypes, ControlInv, WalkInv, LogStep
    PROVE  WalkInv'
<1>0. /\ file \in Seq(CellSet) /\ file' \in Seq(CellSet) /\ faults \in [Faults -> Nat]
      /\ writer \in WriterSet /\ writing.rec \in RecordSet
  BY LogTypesStep DEF LogTypes, WritingSet
<1>1. CASE OpenFresh
  <2>1. /\ file = <<>> /\ file' = <<>> /\ writer'.seq = 0 /\ writer'.head = Zero32
        /\ UNCHANGED <<faults, writing>> /\ ~writer.open
    BY <1>1 DEF OpenFresh
  <2>2. Settled' = <<>>
    BY <2>1 DEF Settled, ControlInv
  <2>3. Follows(Reach(<<>>), 0, Zero32)
    BY EmptyFile DEF Follows
  <2> QED BY <2>1, <2>2, <2>3 DEF WalkInv
<1>2. CASE OpenExisting
  <2>1. PICK last \in RecordSet :
              /\ Records(file) \in Seq(RecordSet) /\ Records(file) # <<>>
              /\ last = Records(file)[Len(Records(file))]
              /\ writer' = [open |-> TRUE, boot |-> writer.boot + 1, seq |-> last.seq + 1,
                            head |-> Hash(last), recovered |-> ~WellFormed(file)]
              /\ file' = Truncated(file)
    BY <1>2, ResumeView
  <2>2. UNCHANGED <<faults, writing>> /\ writing.by = Nobody
    BY <1>2 DEF OpenExisting, ControlInv
  <2>3. PICK recs \in Seq(RecordSet) : recs = Records(file)
    BY <2>1
  <2>4. Reach(file') = recs /\ \A i \in 1..Len(file') : \E j \in 1..Len(file) : file'[i].rec = file[j].rec
    BY <1>0, <2>1, <2>3, TruncatedFacts
  <2>5. Linked(recs)
    <3>1. Linked(Reach(file))
      BY DEF WalkInv
    <3>2. CASE Records(file) = Reach(file)
      BY <2>3, <3>1, <3>2
    <3>3. ASSUME NEW r \in RecordSet, Reach(file) = Append(Records(file), r) PROVE Linked(recs)
      <4>1. Linked(Append(recs, r))
        BY <2>3, <3>1, <3>3
      <4> QED BY <2>3, <4>1, LinkedAppend
    <3> QED BY <1>0, <3>2, <3>3, RecordsInReach
  <2>6. Settled' = file'
    BY <2>2 DEF Settled
  <2>7. Follows(recs, writer'.seq, writer'.head)
    BY <2>1, <2>3 DEF Follows
  <2>8. faults'["rot"] = 0 => \A i \in 1..Len(file') : ~file'[i].rec.rot
    BY <2>2, <2>4 DEF WalkInv
  <2> QED BY <2>4, <2>5, <2>6, <2>7, <2>8 DEF WalkInv
<1>3. CASE Died
  <2>1. PICK f \in Seq(CellSet), r \in RecordSet :
              /\ f = Settled /\ r = writing.rec
              /\ \/ writing.by = Nobody /\ file = f /\ file' = f
                 \/ /\ writing.by # Nobody /\ file = Append(f, Cell("cut", r))
                    /\ ~r.rot
                    /\ \E bytes \in Fragments(r) : file' = f \o bytes
              /\ faults'["rot"] = faults["rot"]
    BY <1>3, DiedView
  <2>2. ~writer'.open
    <3>1. writer' = [writer EXCEPT !.open = FALSE, !.seq = 0, !.head = Zero32, !.recovered = FALSE]
      BY <1>3 DEF Died, Die
    <3> QED BY <1>0, <3>1 DEF WriterSet
  <2>3. CASE writing.by = Nobody
    <3>1. file' = file
      BY <2>1, <2>3
    <3> QED BY <2>1, <2>2, <3>1 DEF WalkInv
  <2>4. CASE writing.by # Nobody
    <3>0. PICK h : h = file'
      OBVIOUS
    <3>1. PICK bytes \in Fragments(r) : h = f \o bytes
      BY <2>1, <2>4, <3>0
    <3>2. /\ Adds(f, r, h)
          /\ Reach(h) = Reach(f) \/ (WellFormed(f) /\ Reach(h) = Append(Reach(f), r))
      BY <3>1, WithFragment
    <3>3. Linked(Reach(h))
      BY <1>0, <2>1, <2>4, <3>0, <3>2, StaysLinked
    <3>4. Adds(Settled, r, h)
      BY <2>1, <3>2
    <3>5. faults["rot"] = 0 => \A i \in 1..Len(h) : ~h[i].rec.rot
      BY <2>1, <2>4, <3>4, StaysFresh
    <3> QED BY <2>1, <2>2, <3>0, <3>3, <3>5 DEF WalkInv
  <2> QED BY <2>3, <2>4
<1>4. CASE Rot
  <2>1. /\ WellFormed(file') <=> WellFormed(file)
        /\ LastRotted(Reach(file), Reach(file'))
        /\ faults'["rot"] > 0 /\ writing.by = Nobody
    BY <1>4, RotView
  <2>2. writer' = writer /\ writing' = writing
    BY <1>4 DEF Rot
  <2>3. Settled = file /\ Settled' = file'
    BY <2>1, <2>2 DEF Settled
  <2>4. /\ Linked(Reach(file')) 
        /\ \A seq, head : Follows(Reach(file), seq, head) => Follows(Reach(file'), seq, head)
    <3>1. Reach(file) \in Seq(RecordSet) /\ Reach(file') \in Seq(RecordSet) /\ Linked(Reach(file))
      BY <1>0, RecordsTypes DEF WalkInv
    <3> QED BY <2>1, <3>1, RottedLinked
  <2>5. faults'["rot"] # 0
    BY <2>1
  <2> QED BY <2>1, <2>2, <2>3, <2>4, <2>5 DEF WalkInv
<1>5. CASE Idled
  <2>1. UNCHANGED <<file, writer, writing>> /\ faults'["rot"] = faults["rot"]
    BY <1>5, IdleFaults DEF Idled
  <2>2. Settled' = Settled
    BY <2>1 DEF Settled
  <2> QED BY <2>1, <2>2 DEF WalkInv
<1>6. ASSUME NEW by, NEW type, NEW ref, Begun(by, type, ref) PROVE WalkInv'
  <2>1. PICK r \in RecordSet :
              /\ ~r.rot /\ by \in Thread \cup {Main}
              /\ writing.by = Nobody /\ Settled = file
              /\ writing' = [by |-> by, rec |-> r] /\ file' = Append(file, Cell("cut", r))
    BY <1>6, BegunView
  <2>2. UNCHANGED <<writer, faults>>
    BY <1>6 DEF Begun
  <2>3. Front(file') = file /\ Reach(file') = Reach(file)
    BY <1>0, <2>1, WithCut
  <2>4. Settled' = file
    BY <2>1, <2>3, ThreadsApart DEF Settled
  <2>5. Adds(Settled, r, file')
    <3>1. PICK c : c = Cell("cut", r)
      OBVIOUS
    <3>2. file' = Append(file, c) /\ c.rec = r
      BY <2>1, <3>1 DEF Cell
    <3> QED BY <1>0, <2>1, <3>2 DEF Adds
  <2>6. faults'["rot"] = 0 => \A i \in 1..Len(file') : ~file'[i].rec.rot
    BY <2>1, <2>2, <2>5, StaysFresh
  <2> QED BY <2>1, <2>2, <2>3, <2>4, <2>6 DEF WalkInv
<1>7. ASSUME NEW by, Ended(by) PROVE WalkInv'
  <2>0. PICK f \in Seq(CellSet), r \in RecordSet : EndsAs(by, f, r)
    BY <1>7, EndedView
  <2>1. /\ f \in Seq(CellSet) /\ r \in RecordSet
        /\ f = Settled /\ r = writing.rec /\ file = Append(f, Cell("cut", r))
        /\ r.boot = writer.boot /\ r.seq = writer.seq /\ r.prev = writer.head /\ ~r.rot
        /\ \/ file' = f \o Written(r) /\ UNCHANGED faults
           \/ Fault("short") /\ \E bytes \in Fragments(r) : file' = f \o bytes
        /\ acked' = Append(acked, r)
        /\ writer' = [writer EXCEPT !.seq = writer.seq + 1, !.head = Hash(r)]
        /\ writing' = [by |-> Nobody, rec |-> NoRecord]
        /\ by = writing.by /\ by \in Thread \cup {Main} /\ writer.open
    BY <2>0 DEF EndsAs
  <2>2. writing.by # Nobody /\ Settled' = file'
    BY <2>1, ThreadsApart DEF Settled
  <2>3. faults'["rot"] = faults["rot"]
    <3>1. CASE UNCHANGED faults
      BY <3>1
    <3>2. CASE Fault("short")
      BY <3>2, FaultGrows DEF Faults
    <3> QED BY <2>1, <3>1, <3>2
  <2>4. CASE file' = f \o Written(r)
    <3>0. PICK h : h = file' /\ h = f \o Written(r)
      BY <2>4
    <3>1. /\ Adds(f, r, h)
          /\ WellFormed(f) => Reach(h) = Append(Reach(f), r)
          /\ ~WellFormed(f) => ~WellFormed(h) /\ Reach(h) = Reach(f)
      BY <2>1, <3>0, WithWritten
    <3>2. Linked(Reach(h))
      BY <1>0, <2>1, <2>2, <3>0, <3>1, StaysLinked
    <3>5. Adds(Settled, r, h)
      BY <2>1, <3>1
    <3>3. faults["rot"] = 0 => \A i \in 1..Len(h) : ~h[i].rec.rot
      BY <2>1, <3>5, StaysFresh
    <3>4. WellFormed(h) => Follows(Reach(h), writer'.seq, writer'.head)
      <4>1. Reach(f) \in Seq(RecordSet)
        BY RecordsTypes
      <4>2. PICK s \in Seq(RecordSet) : s = Reach(f)
        BY <4>1
      <4>3. Follows(Append(s, r), r.seq + 1, Hash(r))
        BY <4>2, LinkedAppend
      <4>4. writer'.seq = r.seq + 1 /\ writer'.head = Hash(r)
        BY <1>0, <2>1 DEF WriterSet
      <4> QED BY <3>1, <4>2, <4>3, <4>4
    <3> QED BY <2>2, <2>3, <3>0, <3>2, <3>3, <3>4 DEF WalkInv
  <2>5. ASSUME NEW bytes \in Fragments(r), file' = f \o bytes PROVE WalkInv'
    <3>0. PICK h : h = file' /\ h = f \o bytes
      BY <2>5
    <3>1. /\ Adds(f, r, h)
          /\ ~WellFormed(h)
          /\ Reach(h) = Reach(f) \/ (WellFormed(f) /\ Reach(h) = Append(Reach(f), r))
      <4>1. h = f \o bytes /\ bytes \in Fragments(r) /\ f \in Seq(CellSet) /\ r \in RecordSet
        BY <2>1, <2>5, <3>0
      <4> QED BY <4>1, WithFragment
    <3>2. Linked(Reach(h))
      BY <1>0, <2>1, <2>2, <3>0, <3>1, StaysLinked
    <3>5. Adds(Settled, r, h)
      BY <2>1, <3>1
    <3>3. faults["rot"] = 0 => \A i \in 1..Len(h) : ~h[i].rec.rot
      BY <2>1, <3>5, StaysFresh
    <3> QED BY <2>2, <2>3, <3>0, <3>1, <3>2, <3>3 DEF WalkInv
  <2> QED BY <2>1, <2>4, <2>5
<1> QED BY <1>1, <1>2, <1>3, <1>4, <1>5, <1>6, <1>7 DEF LogStep

LEMMA NoLossStep ==
    ASSUME LogTypes, ControlInv, NoLossInv, LogStep
    PROVE  NoLossInv'
<1>0. /\ file \in Seq(CellSet) /\ file' \in Seq(CellSet) /\ faults \in [Faults -> Nat]
      /\ writer \in WriterSet /\ writing.rec \in RecordSet
  BY LogTypesStep DEF LogTypes, WritingSet
<1>1. CASE OpenFresh
  <2>1. file' = <<>> /\ UNCHANGED <<file, faults, writing, acked>> /\ ~writer.open
    BY <1>1 DEF OpenFresh
  <2>2. Settled' = <<>>
    BY <2>1 DEF Settled, ControlInv
  <2>3. WellFormed(Settled')
    BY <2>2, EmptyFile
  <2> QED BY <2>1, <2>3 DEF NoLossInv, NoShort
<1>2. CASE OpenExisting
  <2>1. file' = Truncated(file) /\ UNCHANGED <<faults, writing, acked>> /\ writing.by = Nobody
    BY <1>2 DEF OpenExisting, ControlInv
  <2>2. WellFormed(file') /\ Records(file') = Records(file)
    BY <1>0, <2>1, TruncatedFacts
  <2>3. Settled' = file'
    BY <2>1 DEF Settled
  <2>4. Stop(file') >= Len(file')
    BY <1>0, <2>2, StopFacts DEF WellFormed
  <2> QED BY <2>1, <2>2, <2>3, <2>4 DEF NoLossInv, NoShort
<1>3. CASE Died
  <2>1. PICK f \in Seq(CellSet), r \in RecordSet :
              /\ f = Settled /\ r = writing.rec
              /\ \/ writing.by = Nobody /\ file = f /\ file' = f
                 \/ /\ writing.by # Nobody /\ file = Append(f, Cell("cut", r))
                    /\ \E bytes \in Fragments(r) : file' = f \o bytes
              /\ faults'["short"] = faults["short"]
              /\ writer.open
    BY <1>3, DiedView
  <2>2. ~writer'.open /\ acked' = acked
    <3>1. writer' = [writer EXCEPT !.open = FALSE, !.seq = 0, !.head = Zero32, !.recovered = FALSE]
      BY <1>3 DEF Died, Die
    <3> QED BY <1>0, <1>3, <3>1 DEF WriterSet, Died
  <2>3. CASE writing.by = Nobody
    <3>1. file' = file
      BY <2>1, <2>3
    <3> QED BY <2>1, <2>2, <3>1 DEF NoLossInv, NoShort
  <2>4. CASE writing.by # Nobody
    <3>0. PICK h : h = file'
      OBVIOUS
    <3>1. PICK bytes \in Fragments(r) : h = f \o bytes
      BY <2>1, <2>4, <3>0
    <3>2. WellFormed(f) => Stop(h) = Len(h) /\ Records(h) = Records(f)
      BY <3>1, WithFragment
    <3>3. WellFormed(f) => Records(f) = Records(file)
      BY <2>1, SettledFacts
    <3>4. Len(file') \in Nat
      BY <1>0
    <3>5. NoShort => WellFormed(f) /\ Unrotted(Records(file)) = acked
      BY <2>1 DEF NoLossInv
    <3>6. NoShort' => NoShort
      BY <2>1 DEF NoShort
    <3> QED BY <2>2, <3>0, <3>2, <3>3, <3>4, <3>5, <3>6 DEF NoLossInv
  <2> QED BY <2>3, <2>4
<1>4. CASE Rot
  <2>1. /\ WellFormed(file') <=> WellFormed(file)
        /\ LastRotted(Records(file), Records(file'))
        /\ Stop(file') = Stop(file) /\ Len(file') = Len(file)
        /\ faults'["short"] = faults["short"] /\ writing.by = Nobody
    BY <1>4, RotView
  <2>2. UNCHANGED <<writer, writing, acked>>
    BY <1>4 DEF Rot
  <2>3. Settled = file /\ Settled' = file'
    BY <2>1, <2>2 DEF Settled
  <2>4. Unrotted(Records(file')) = Unrotted(Records(file))
    <3>1. Records(file) \in Seq(RecordSet) /\ Records(file') \in Seq(RecordSet)
      BY <1>0, RecordsTypes
    <3> QED BY <2>1, <3>1, RottedLinked
  <2> QED BY <2>1, <2>2, <2>3, <2>4 DEF NoLossInv, NoShort
<1>5. CASE Idled
  <2>1. UNCHANGED <<file, writer, writing, acked>> /\ faults'["short"] = faults["short"]
    BY <1>5, IdleFaults DEF Idled
  <2>2. Settled' = Settled
    BY <2>1 DEF Settled
  <2> QED BY <2>1, <2>2 DEF NoLossInv, NoShort
<1>6. ASSUME NEW by, NEW type, NEW ref, Begun(by, type, ref) PROVE NoLossInv'
  <2>1. PICK r \in RecordSet :
              /\ by \in Thread \cup {Main} /\ writer.open
              /\ writing.by = Nobody /\ Settled = file
              /\ writing' = [by |-> by, rec |-> r] /\ file' = Append(file, Cell("cut", r))
    BY <1>6, BegunView
  <2>2. UNCHANGED <<writer, faults, acked>>
    BY <1>6 DEF Begun
  <2>3. /\ Front(file') = file
        /\ WellFormed(file) => Stop(file') = Len(file') /\ Records(file') = Records(file)
    BY <1>0, <2>1, WithCut
  <2>4. Settled' = file
    BY <2>1, <2>3, ThreadsApart DEF Settled
  <2>5. NoShort => WellFormed(file)
    BY <2>1 DEF NoLossInv
  <2>6. Len(file') \in Nat
    BY <1>0
  <2> QED BY <2>2, <2>3, <2>4, <2>5, <2>6 DEF NoLossInv, NoShort
<1>7. ASSUME NEW by, Ended(by) PROVE NoLossInv'
  <2>0. PICK f \in Seq(CellSet), r \in RecordSet : EndsAs(by, f, r)
    BY <1>7, EndedView
  <2>1. /\ f \in Seq(CellSet) /\ r \in RecordSet
        /\ f = Settled /\ r = writing.rec /\ file = Append(f, Cell("cut", r))
        /\ r.boot = writer.boot /\ r.seq = writer.seq /\ r.prev = writer.head /\ ~r.rot
        /\ \/ file' = f \o Written(r) /\ UNCHANGED faults
           \/ Fault("short") /\ \E bytes \in Fragments(r) : file' = f \o bytes
        /\ acked' = Append(acked, r)
        /\ writer' = [writer EXCEPT !.seq = writer.seq + 1, !.head = Hash(r)]
        /\ writing' = [by |-> Nobody, rec |-> NoRecord]
        /\ by = writing.by /\ by \in Thread \cup {Main} /\ writer.open
    BY <2>0 DEF EndsAs
  <2>2. Settled' = file'
    BY <2>1 DEF Settled
  <2>3. CASE Fault("short")
    <3>1. faults'["short"] >= faults["short"] + 1 /\ faults["short"] \in Nat
      BY <1>0, <2>3, FaultGrows DEF Faults
    <3>2. faults'["short"] # 0
      BY <3>1
    <3> QED BY <3>2 DEF NoLossInv, NoShort
  <2>4. CASE file' = f \o Written(r) /\ UNCHANGED faults
    <3>1. PICK h : h = file' /\ h = f \o Written(r)
      BY <2>4
    <3>2. WellFormed(f) => WellFormed(h) /\ Records(h) = Append(Records(f), r)
      BY <3>1, WithWritten
    <3>3. NoShort => WellFormed(f) /\ Unrotted(Records(file)) = acked
      BY <2>1 DEF NoLossInv
    <3>4. WellFormed(f) => Records(f) = Records(file)
      BY <2>1, SettledFacts
    <3>5. Unrotted(Append(Records(f), r)) = Append(Unrotted(Records(f)), r)
      <4>1. PICK s \in Seq(RecordSet) : s = Records(f)
        BY RecordsTypes
      <4>2. ~r.rot
        BY <2>1
      <4>3. Unrotted(Append(s, r)) = Append(Unrotted(s), r)
        BY <4>2, LinkedAppend
      <4> QED BY <4>1, <4>3
    <3>6. acked' = Append(acked, r)
      BY <2>1
    <3>7. WellFormed(file') => Stop(file') >= Len(file')
      BY <1>0, StopFacts DEF WellFormed
    <3>8. NoShort' => NoShort
      BY <2>4 DEF NoShort
    <3> QED BY <2>2, <3>1, <3>2, <3>3, <3>4, <3>5, <3>6, <3>7, <3>8 DEF NoLossInv
  <2> QED BY <2>1, <2>3, <2>4
<1> QED BY <1>1, <1>2, <1>3, <1>4, <1>5, <1>6, <1>7 DEF LogStep

LEMMA AccusedStep ==
    ASSUME LogTypes, ControlInv, AccusedInv, LogStep
    PROVE  AccusedInv'
<1>0. faults \in [Faults -> Nat] /\ acked \in Seq(RecordSet) /\ writing.rec \in RecordSet
  BY DEF LogTypes, WritingSet
<1>1. CASE OpenFresh \/ OpenExisting
  BY <1>1 DEF OpenFresh, OpenExisting, AccusedInv
<1>2. CASE Died
  <2>1. faults'["rot"] = faults["rot"]
    BY <1>2, DiedView
  <2>2. writing'.rec = NoRecord /\ acked' = acked
    BY <1>2 DEF Died, Die
  <2> QED BY <2>1, <2>2, NoRecordType DEF AccusedInv
<1>3. CASE Rot
  <2>1. faults'["rot"] > 0
    BY <1>3, RotView
  <2>2. faults'["rot"] # 0
    BY <2>1
  <2> QED BY <2>2 DEF AccusedInv
<1>4. CASE Idled
  <2>1. UNCHANGED <<writing, acked>> /\ faults'["rot"] = faults["rot"]
    BY <1>4, IdleFaults DEF Idled
  <2> QED BY <2>1 DEF AccusedInv
<1>5. ASSUME NEW by, NEW type, NEW ref, Begun(by, type, ref) PROVE AccusedInv'
  <2>1. PICK r \in RecordSet : r.type = type /\ writing' = [by |-> by, rec |-> r]
    BY <1>5, BegunView
  <2>2. UNCHANGED <<faults, acked>> /\ (type = "SELF_CHECK_FAILED" => faults["rot"] > 0)
    BY <1>5 DEF Begun
  <2>3. type = "SELF_CHECK_FAILED" => faults["rot"] # 0
    BY <2>2
  <2> QED BY <2>1, <2>2, <2>3 DEF AccusedInv
<1>6. ASSUME NEW by, Ended(by) PROVE AccusedInv'
  <2>1. /\ acked' = Append(acked, writing.rec) /\ writing'.rec = NoRecord
        /\ UNCHANGED faults \/ Fault("short")
    BY <1>6 DEF Ended, EndWrite
  <2>2. faults'["rot"] = faults["rot"]
    <3>1. CASE UNCHANGED faults
      BY <3>1
    <3>2. CASE Fault("short")
      BY <3>2, FaultGrows DEF Faults
    <3> QED BY <2>1, <3>1, <3>2
  <2>3. \A i \in 1..Len(acked') : \/ i \in 1..Len(acked) /\ acked'[i] = acked[i]
                                  \/ acked'[i] = writing.rec
    BY <1>0, <2>1
  <2> QED BY <2>1, <2>2, <2>3, NoRecordType DEF AccusedInv
<1> QED BY <1>1, <1>2, <1>3, <1>4, <1>5, <1>6 DEF LogStep

-----------------------------------------------------------------------------
(* What is lost shows.                                                      *)

\* What the file keeps, it keeps; and what it tells.
LEMMA KeptTold ==
    ASSUME LogTypes, Records(file') = Records(file), acked' = acked
    PROVE  (Kept => Kept') /\ (Told => Told')
<1>1. PICK recs : recs = Records(file)
  OBVIOUS
<1>2. recs = Records(file')
  BY <1>1
<1>3. Kept => \A i \in 1..Len(acked') : \E k \in 1..Len(recs) : Hash(acked'[i]) = Hash(Clean(recs[k]))
  BY <1>1 DEF Kept
<1>4. Told => \E k \in 1..Len(recs) : recs[k].type = "RECOVERY"
  BY <1>1 DEF Told
<1>5. Kept => Kept'
  BY <1>2, <1>3 DEF Kept
<1>6. Told => Told'
  BY <1>2, <1>4 DEF Told
<1> QED BY <1>5, <1>6

LEMMA KeptToldAppend ==
    ASSUME LogTypes, NEW r \in RecordSet, ~r.rot, acked' = Append(acked, r),
           Records(file') = Append(Records(file), r)
    PROVE  (Kept => Kept') /\ (Told => Told') /\ (r.type = "RECOVERY" => Told')
<1>1. PICK recs \in Seq(RecordSet) : recs = Records(file)
  BY RecordsTypes DEF LogTypes
<1>2. PICK more : more = Records(file')
  OBVIOUS
<1>3. /\ Len(recs) \in Nat /\ Len(more) = Len(recs) + 1 /\ more[Len(recs) + 1] = r
      /\ \A k \in 1..Len(recs) : more[k] = recs[k]
  <2>1. more = Append(recs, r)
    BY <1>1, <1>2
  <2> QED BY <2>1
<1>4. Len(recs) + 1 \in 1..Len(more) /\ \A k \in 1..Len(recs) : k \in 1..Len(more)
  BY <1>3
<1>5. \A i \in 1..Len(acked') : \/ i \in 1..Len(acked) /\ acked'[i] = acked[i]
                                \/ acked'[i] = r
  BY DEF LogTypes
<1>6. Clean(r) = r
  BY CleanFacts
<1>7. ASSUME Kept PROVE Kept'
  <2>1. \A i \in 1..Len(acked) : \E k \in 1..Len(recs) : Hash(acked[i]) = Hash(Clean(recs[k]))
    BY <1>1, <1>7 DEF Kept
  <2>2. ASSUME NEW i \in 1..Len(acked')
        PROVE  \E k \in 1..Len(more) : Hash(acked'[i]) = Hash(Clean(more[k]))
    <3>1. CASE i \in 1..Len(acked) /\ acked'[i] = acked[i]
      <4>1. PICK k \in 1..Len(recs) : Hash(acked[i]) = Hash(Clean(recs[k]))
        BY <2>1, <3>1
      <4> QED BY <1>3, <1>4, <3>1, <4>1
    <3>2. CASE acked'[i] = r
      BY <1>3, <1>4, <1>6, <3>2
    <3> QED BY <1>5, <3>1, <3>2
  <2> QED BY <1>2, <2>2 DEF Kept
<1>8. Told => Told'
  <2>1. Told => \E k \in 1..Len(recs) : recs[k].type = "RECOVERY"
    BY <1>1 DEF Told
  <2>2. Told => \E k \in 1..Len(more) : more[k].type = "RECOVERY"
    BY <1>3, <1>4, <2>1
  <2> QED BY <1>2, <2>2 DEF Told
<1>9. r.type = "RECOVERY" => Told'
  <2>1. r.type = "RECOVERY" => \E k \in 1..Len(more) : more[k].type = "RECOVERY"
    BY <1>3, <1>4
  <2> QED BY <1>2, <2>1 DEF Told
<1> QED BY <1>7, <1>8, <1>9

LEMMA KeptToldRot ==
    ASSUME LogTypes, LogTypes', LastRotted(Records(file), Records(file')), acked' = acked
    PROVE  (Kept => Kept') /\ (Told => Told')
<1>1. PICK recs \in Seq(RecordSet), more \in Seq(RecordSet) : recs = Records(file) /\ more = Records(file')
  BY RecordsTypes DEF LogTypes
<1>2. Len(more) = Len(recs) /\ \A k \in 1..Len(recs) : more[k] = recs[k] \/ more[k] = Rotten(recs[k])
  BY <1>1 DEF LastRotted
<1>3. \A k \in 1..Len(recs) : Clean(more[k]) = Clean(recs[k]) /\ more[k].type = recs[k].type
  <2> TAKE k \in 1..Len(recs)
  <2>1. recs[k] \in RecordSet
    BY <1>1
  <2>2. Clean(Rotten(recs[k])) = Clean(recs[k]) /\ Rotten(recs[k]).type = recs[k].type
    BY <2>1, CleanFacts
  <2> QED BY <1>2, <2>2
<1>4. Kept => \A i \in 1..Len(acked') : \E k \in 1..Len(more) : Hash(acked'[i]) = Hash(Clean(more[k]))
  BY <1>1, <1>2, <1>3 DEF Kept
<1>5. Told => \E k \in 1..Len(more) : more[k].type = "RECOVERY"
  BY <1>1, <1>2, <1>3 DEF Told
<1>6. Kept => Kept'
  BY <1>1, <1>4 DEF Kept
<1>7. Told => Told'
  BY <1>1, <1>5 DEF Told
<1> QED BY <1>6, <1>7

\* A resume or its record is under way, or the recovery is on record.
Resuming == /\ writer.open /\ writer.boot = 2
            /\ todo \in {<<"BOOT", "RECOVERY">>, <<"RECOVERY">>} \/ Told
Shows == Kept \/ ~WellFormed(Settled) \/ Resuming

LEMMA ShowsIs ==
    /\ SilenceInv <=> /\ writer.boot <= Deaths + (IF writer.open THEN 1 ELSE 0)
                      /\ Deaths <= 1 => Shows
BY DEF SilenceInv, Shows, Resuming

LEMMA SilenceStep ==
    ASSUME LogTypes, ControlInv, SilenceInv, LogStep
    PROVE  SilenceInv'
<1>0. /\ file \in Seq(CellSet) /\ file' \in Seq(CellSet) /\ faults \in [Faults -> Nat]
      /\ writer \in WriterSet /\ writing.rec \in RecordSet
      /\ writer.boot \in Nat /\ writer.open \in BOOLEAN /\ todo \in Openings
      /\ Deaths \in Nat /\ faults' \in [Faults -> Nat] /\ Deaths' \in Nat
  <2>1. /\ file \in Seq(CellSet) /\ file' \in Seq(CellSet) /\ faults \in [Faults -> Nat]
        /\ faults' \in [Faults -> Nat]
        /\ writer \in WriterSet /\ writing.rec \in RecordSet /\ todo \in Openings
    BY LogTypesStep DEF LogTypes, WritingSet
  <2>2. faults["crash"] \in Nat /\ faults["raise"] \in Nat /\ faults'["crash"] \in Nat /\ faults'["raise"] \in Nat
    BY <2>1 DEF Faults
  <2>3. Deaths \in Nat /\ Deaths' \in Nat
    BY <2>2 DEF Deaths
  <2>4. writer.boot \in Nat /\ writer.open \in BOOLEAN
    BY <2>1 DEF WriterSet
  <2> QED BY <2>1, <2>3, <2>4
<1>00. SilenceInv' <=> /\ writer'.boot <= Deaths' + (IF writer'.open THEN 1 ELSE 0)
                       /\ Deaths' <= 1 => Shows'
  BY DEF SilenceInv, Shows, Resuming
<1>000. /\ writer.boot <= Deaths + (IF writer.open THEN 1 ELSE 0)
        /\ Deaths <= 1 => Shows
  BY ShowsIs
<1>1. CASE OpenFresh
  <2>1. /\ file = <<>> /\ UNCHANGED <<file, faults, writing, acked>> /\ ~writer.open
        /\ writer'.open /\ writer'.boot = writer.boot + 1
    BY <1>1 DEF OpenFresh
  <2>2. Settled = <<>> /\ Deaths' = Deaths
    BY <2>1 DEF Settled, ControlInv, Deaths
  <2>3. WellFormed(Settled)
    BY <2>2, EmptyFile
  <2>4. writer'.boot <= Deaths' + 1
    BY <1>0, <1>000, <2>1, <2>2
  <2>5. Deaths <= 1 => Kept
    BY <1>000, <2>1, <2>3 DEF Shows, Resuming
  <2>6. Kept => Kept'
    BY <2>1 DEF Kept
  <2> QED BY <1>00, <2>1, <2>2, <2>4, <2>5, <2>6 DEF Shows
<1>2. CASE OpenExisting
  <2>1. /\ file # <<>> /\ ~writer.open /\ file' = Truncated(file) /\ UNCHANGED <<faults, writing, acked>>
        /\ writing.by = Nobody
    BY <1>2 DEF OpenExisting, ControlInv
  <2>2. /\ writer'.open /\ writer'.boot = writer.boot + 1
        /\ todo' = Opening(FALSE, ~WellFormed(file))
    <3>1. PICK last \in RecordSet :
              /\ Records(file) \in Seq(RecordSet) /\ Records(file) # <<>>
              /\ last = Records(file)[Len(Records(file))]
              /\ writer' = [open |-> TRUE, boot |-> writer.boot + 1, seq |-> last.seq + 1,
                            head |-> Hash(last), recovered |-> ~WellFormed(file)]
              /\ file' = Truncated(file) /\ todo' = Opening(FALSE, ~WellFormed(file))
      BY <1>2, ResumeView
    <3> QED BY <3>1
  <2>3. Deaths' = Deaths /\ Settled = file
    BY <2>1 DEF Deaths, Settled
  <2>4. writer'.boot <= Deaths' + 1
    BY <1>0, <1>000, <2>1, <2>2, <2>3
  <2>5. Kept => Kept'
    <3>1. Records(file') = Records(file)
      BY <1>0, <2>1, TruncatedFacts
    <3> QED BY <2>1, <3>1, KeptTold
  <2>6. ASSUME Deaths <= 1, ~WellFormed(file) PROVE Resuming'
    <3>1. writer.boot > 0
      BY <2>1 DEF ControlInv
    <3>2. writer'.boot = 2
      BY <1>0, <1>000, <2>1, <2>2, <2>6, <3>1
    <3>3. todo' = <<"BOOT", "RECOVERY">>
      BY <2>2, <2>6, OpeningFacts
    <3> QED BY <2>2, <3>2, <3>3 DEF Resuming
  <2>7. Deaths <= 1 => Kept \/ ~WellFormed(file)
    BY <1>000, <2>1, <2>3 DEF Shows, Resuming
  <2> QED BY <1>00, <2>2, <2>3, <2>4, <2>5, <2>6, <2>7 DEF Shows
<1>3. CASE Died
  <2>1. PICK f \in Seq(CellSet), r \in RecordSet :
              /\ f = Settled /\ r = writing.rec
              /\ \/ writing.by = Nobody /\ file = f /\ file' = f
                 \/ /\ writing.by # Nobody /\ file = Append(f, Cell("cut", r))
                    /\ \E bytes \in Fragments(r) : file' = f \o bytes
              /\ Deaths' >= Deaths + 1
              /\ writer.open
    BY <1>3, DiedView
  <2>2. ~writer'.open /\ writer'.boot = writer.boot /\ acked' = acked /\ writing'.by = Nobody
    <3>1. writer' = [writer EXCEPT !.open = FALSE, !.seq = 0, !.head = Zero32, !.recovered = FALSE]
      BY <1>3 DEF Died, Die
    <3> QED BY <1>0, <1>3, <3>1 DEF WriterSet, Died, Die
  <2>3. writer'.boot <= Deaths'
    BY <1>0, <1>000, <2>1, <2>2
  <2>4. Settled' = file'
    BY <2>2 DEF Settled
  <2>5. ASSUME Deaths' <= 1 PROVE Shows'
    <3>1. Deaths <= 1 /\ writer.boot # 2
      BY <1>0, <1>000, <2>1, <2>5
    <3>2. Kept \/ ~WellFormed(f)
      BY <1>000, <2>1, <3>1 DEF Shows, Resuming
    <3>3. CASE writing.by = Nobody
      <4>1. file' = file /\ file' = f
        BY <2>1, <3>3
      <4>2. Kept => Kept'
        BY <2>2, <4>1 DEF Kept
      <4> QED BY <2>4, <3>2, <4>1, <4>2 DEF Shows
    <3>4. CASE writing.by # Nobody
      <4>0. PICK h : h = file'
        OBVIOUS
      <4>1. PICK bytes \in Fragments(r) : h = f \o bytes
        BY <2>1, <3>4, <4>0
      <4>2. ~WellFormed(h)
        BY <4>1, WithFragment
      <4> QED BY <2>4, <4>0, <4>2 DEF Shows
    <3> QED BY <3>3, <3>4
  <2>6. writer'.boot <= Deaths' + (IF writer'.open THEN 1 ELSE 0)
    BY <1>0, <2>2, <2>3
  <2> QED BY <1>00, <2>5, <2>6
<1>4. CASE Rot
  <2>1. /\ WellFormed(file') <=> WellFormed(file)
        /\ LastRotted(Records(file), Records(file'))
        /\ Deaths' = Deaths /\ writing.by = Nobody
    BY <1>4, RotView
  <2>2. UNCHANGED <<writer, writing, acked, todo>>
    BY <1>4 DEF Rot
  <2>3. Settled = file /\ Settled' = file'
    BY <2>1, <2>2 DEF Settled
  <2>4. (Kept => Kept') /\ (Told => Told')
    BY <2>1, <2>2, LogTypesStep, KeptToldRot
  <2> QED BY <1>00, <1>000, <2>1, <2>2, <2>3, <2>4 DEF Shows, Resuming
<1>5. CASE Idled
  <2>1. UNCHANGED <<file, writer, writing, acked, todo>> /\ Deaths' >= Deaths
    BY <1>5, IdleFaults DEF Idled
  <2>2. Settled' = Settled
    BY <2>1 DEF Settled
  <2>3. Shows => Shows'
    BY <2>1, <2>2 DEF Shows, Resuming, Kept, Told
  <2>4. writer'.boot <= Deaths' + (IF writer'.open THEN 1 ELSE 0)
    BY <1>0, <1>000, <2>1
  <2>5. Deaths' <= 1 => Deaths <= 1
    BY <1>0, <2>1
  <2> QED BY <1>00, <1>000, <2>3, <2>4, <2>5
<1>6. ASSUME NEW by, NEW type, NEW ref, Begun(by, type, ref) PROVE SilenceInv'
  <2>1. PICK r \in RecordSet :
              /\ by \in Thread \cup {Main} /\ writer.open
              /\ writing.by = Nobody /\ Settled = file
              /\ writing' = [by |-> by, rec |-> r] /\ file' = Append(file, Cell("cut", r))
    BY <1>6, BegunView
  <2>2. UNCHANGED <<writer, faults, acked, todo>>
    BY <1>6 DEF Begun
  <2>3. /\ Front(file') = file
        /\ WellFormed(file) => Records(file') = Records(file)
    BY <1>0, <2>1, WithCut
  <2>4. Settled' = file
    BY <2>1, <2>3, ThreadsApart DEF Settled
  <2>5. Deaths' = Deaths
    BY <2>2 DEF Deaths
  <2>6. WellFormed(file) => (Kept => Kept') /\ (Told => Told')
    BY <2>2, <2>3, KeptTold
  <2>7. ASSUME Shows PROVE Shows'
    <3>1. CASE ~WellFormed(file)
      BY <2>4, <3>1 DEF Shows
    <3>2. CASE WellFormed(file)
      BY <2>1, <2>2, <2>6, <2>7, <3>2 DEF Shows, Resuming
    <3> QED BY <3>1, <3>2
  <2> QED BY <1>00, <1>000, <2>2, <2>5, <2>7
<1>7. ASSUME NEW by, Ended(by) PROVE SilenceInv'
  <2>0. PICK f \in Seq(CellSet), r \in RecordSet : EndsAs(by, f, r)
    BY <1>7, EndedView
  <2>1. /\ f \in Seq(CellSet) /\ r \in RecordSet
        /\ f = Settled /\ r = writing.rec /\ file = Append(f, Cell("cut", r))
        /\ r.boot = writer.boot /\ r.seq = writer.seq /\ r.prev = writer.head /\ ~r.rot
        /\ \/ file' = f \o Written(r) /\ UNCHANGED faults
           \/ Fault("short") /\ \E bytes \in Fragments(r) : file' = f \o bytes
        /\ acked' = Append(acked, r)
        /\ writer' = [writer EXCEPT !.seq = writer.seq + 1, !.head = Hash(r)]
        /\ writing' = [by |-> Nobody, rec |-> NoRecord]
        /\ by = writing.by /\ by \in Thread \cup {Main} /\ writer.open
    BY <2>0 DEF EndsAs
  <2>2. Settled' = file'
    BY <2>1 DEF Settled
  <2>3. Deaths' = Deaths
    <3>1. faults'["crash"] = faults["crash"] /\ faults'["raise"] = faults["raise"]
      <4>1. CASE UNCHANGED faults
        BY <4>1
      <4>2. CASE Fault("short")
        BY <4>2, FaultGrows DEF Faults
      <4> QED BY <2>1, <4>1, <4>2
    <3> QED BY <3>1 DEF Deaths
  <2>4. writer'.boot = writer.boot /\ writer'.open /\ writer.open
    BY <1>0, <2>1 DEF WriterSet
  <2>5. ASSUME Shows PROVE Shows'
    <3>1. CASE ~WellFormed(file')
      BY <2>2, <3>1 DEF Shows
    <3>2. CASE WellFormed(file')
      <4>0. PICK h : h = file'
        OBVIOUS
      <4>1. \A bytes \in Fragments(r) : h # f \o bytes
        <5> SUFFICES ASSUME NEW bytes \in Fragments(r), h = f \o bytes PROVE FALSE
          OBVIOUS
        <5>1. ~WellFormed(h)
          BY WithFragment
        <5> QED BY <3>2, <4>0, <5>1
      <4>2. h = f \o Written(r)
        BY <2>1, <4>0, <4>1
      <4>3. /\ WellFormed(f) => Records(h) = Append(Records(f), r)
            /\ ~WellFormed(f) => ~WellFormed(h)
        BY <4>2, WithWritten
      <4>4. WellFormed(f)
        BY <3>2, <4>0, <4>3
      <4>5. Records(file') = Append(Records(file), r)
        <5>1. Records(f) = Records(file)
          BY <2>1, <4>4, SettledFacts
        <5> QED BY <4>0, <4>3, <4>4, <5>1
      <4>6. (Kept => Kept') /\ (Told => Told') /\ (r.type = "RECOVERY" => Told')
        BY <2>1, <4>5, KeptToldAppend
      <4>7. ASSUME todo \in {<<"BOOT", "RECOVERY">>, <<"RECOVERY">>}
            PROVE  todo' = <<"RECOVERY">> \/ r.type = "RECOVERY"
        <5>1. todo # <<>>
          BY <4>7
        <5>2. by = Main
          <6>1. ~up
            BY <5>1 DEF ControlInv
          <6> QED BY <2>1, <6>1 DEF ControlInv
        <5>3. todo' = Tail(todo) /\ r.type = Head(todo)
          BY <1>7, <2>1, <5>2 DEF Ended, ControlInv
        <5> QED BY <1>0, <4>7, <5>1, <5>3, OpeningFacts
      <4>8. ASSUME Resuming PROVE Resuming'
        BY <2>4, <4>6, <4>7, <4>8 DEF Resuming
      <4>9. Kept \/ Resuming
        BY <2>1, <2>5, <4>4 DEF Shows
      <4> QED BY <4>6, <4>8, <4>9 DEF Shows
    <3> QED BY <3>1, <3>2
  <2> QED BY <1>00, <1>000, <2>3, <2>4, <2>5
<1> QED BY <1>1, <1>2, <1>3, <1>4, <1>5, <1>6, <1>7 DEF LogStep

-----------------------------------------------------------------------------
(* The inductive invariant.                                                 *)

IInv == TypesInv /\ LogInv /\ QueueInv /\ FileInv

LEMMA Initially == AuditInit => IInv
<1> SUFFICES ASSUME AuditInit PROVE IInv
  OBVIOUS
<1>1. /\ file = <<>> /\ todo = <<>> /\ up = FALSE /\ acked = <<>> /\ guards = <<>> /\ escalations = <<>>
      /\ writer = [open |-> FALSE, boot |-> 0, seq |-> 0, head |-> Zero32, recovered |-> FALSE]
      /\ writing = [by |-> Nobody, rec |-> NoRecord]
      /\ pc = [t \in Thread |-> "idle"] /\ arg = [t \in Thread |-> NoArg]
      /\ failures = 0 /\ stored = Zero32 /\ clock = 0 /\ faults = [f \in Faults |-> 0]
  BY DEF AuditInit
<1>2. /\ \A t \in Thread : pc[t] = "idle" /\ arg[t] = NoArg
      /\ NoArg \in ArgSet /\ NoArg.ref = Zero32 /\ NoArg.time = 0
  BY <1>1, ZeroIsHash DEF NoArg, ArgSet
<1>3. LogTypes
  <2>1. file \in Seq(CellSet) /\ acked \in Seq(RecordSet)
    BY <1>1
  <2>2. writer \in WriterSet
    BY <1>1, ZeroIsHash DEF WriterSet
  <2>3. writing \in WritingSet
    BY <1>1, NoRecordType DEF WritingSet
  <2>4. todo \in Openings /\ up \in BOOLEAN
    BY <1>1 DEF Openings
  <2>5. faults \in [Faults -> Nat]
    <3> HIDE DEF Faults
    <3> QED BY <1>1
  <2> QED BY <2>1, <2>2, <2>3, <2>4, <2>5 DEF LogTypes
<1>4. QueueTypes
  <2>1. pc \in [Thread -> PcSet] /\ arg \in [Thread -> ArgSet]
    BY <1>1, <1>2 DEF PcSet
  <2>2. guards \in Seq(GuardSet) /\ escalations \in Seq(Seq(GuardSet))
    BY <1>1
  <2> QED BY <1>1, <2>1, <2>2, ZeroIsHash DEF QueueTypes
<1>5. writing.by = Nobody /\ writing.rec = NoRecord /\ ~writer.open /\ ~writer.recovered /\ ~up
      /\ writer.boot = 0 /\ todo = <<>> /\ acked = <<>>
      /\ 1..Len(acked) = {} /\ 1..Len(guards) = {} /\ 1..Len(escalations) = {}
  BY <1>1
<1>6. ControlInv
  BY <1>1, <1>5, ThreadsApart DEF ControlInv
<1>7. NumberInv /\ ReferenceInv
  BY <1>5, NoRecordType DEF NumberInv, ReferenceInv, RefersOk
<1>8. RecoveryInv
  <2>1. <<>> # <<"RECOVERY">>
    OBVIOUS
  <2> QED BY <1>5, <2>1 DEF RecoveryInv
<1>9. ThreadInv
  BY <1>1, <1>2, <1>5, ThreadsApart DEF ThreadInv, RefersOk
<1>10. QueueInv
  <2>1. PlaceInv
    BY <1>2, <1>5 DEF PlaceInv, Noting
  <2>2. TimeInv
    <3>1. GuardThreshold > 0 /\ Len(guards) = 0
      BY <1>1, ThresholdAssumption
    <3>2. Spread(guards)
      BY <1>5 DEF Spread
    <3>3. \A t \in Thread : arg[t].time <= clock /\ pc[t] # "clocked"
      BY <1>1, <1>2
    <3> QED BY <1>5, <3>1, <3>2, <3>3 DEF TimeInv
  <2>3. EscalationInv
    BY <1>2, <1>5, NoRecordType DEF EscalationInv
  <2> QED BY <2>1, <2>2, <2>3 DEF QueueInv
<1>11. PICK f \in Seq(CellSet) : f = file
  BY <1>1, EmptyFile
<1>12. Stop(f) = 1 /\ WellFormed(f) /\ Reach(f) = <<>> /\ Records(f) = <<>> /\ Len(f) = 0
  <2>1. Len(f) = 0 /\ f = <<>>
    BY <1>1, <1>11
  <2>2. Records(f) = RecordsTo(f, 0)
    BY <2>1, EmptyFile, WellFormedFacts
  <2> QED BY <2>1, <2>2, EmptyFile, RecordsNone
<1>13. WalkInv
  <2>1. Linked(<<>>)
    BY DEF Linked
  <2>2. 1..Len(file) = {}
    BY <1>1
  <2> QED BY <1>5, <1>11, <1>12, <2>1, <2>2 DEF WalkInv
<1>14. NoLossInv
  <2>1. Unrotted(<<>>) = <<>>
    BY DEF Unrotted
  <2> QED BY <1>5, <1>11, <1>12, <2>1 DEF NoLossInv
<1>15. AccusedInv
  BY <1>5, NoRecordType DEF AccusedInv
<1>16. SilenceInv
  <2>1. Deaths = 0
    BY <1>1 DEF Deaths, Faults
  <2>2. Kept
    BY <1>5 DEF Kept
  <2> QED BY <1>5, <2>1, <2>2 DEF SilenceInv
<1> QED BY <1>3, <1>4, <1>6, <1>7, <1>8, <1>9, <1>10, <1>13, <1>14, <1>15, <1>16
        DEF IInv, TypesInv, LogInv, FileInv

LEMMA Inductive == IInv /\ [AuditNext]_nativeAuditVars => IInv'
<1> SUFFICES ASSUME IInv, [AuditNext]_nativeAuditVars PROVE IInv'
  OBVIOUS
<1>1. CASE UNCHANGED nativeAuditVars
  <2>1. UNCHANGED <<file, writer, todo, up, writing, faults, acked>>
        /\ UNCHANGED <<pc, arg, guards, failures, stored, clock, escalations>>
    BY <1>1 DEF nativeAuditVars, threadVars, auditVars
  <2>2. LogTypes' /\ QueueTypes'
    BY <2>1 DEF IInv, TypesInv, LogTypes, QueueTypes
  <2>3. ControlInv'
    BY <2>1 DEF IInv, LogInv, ControlInv
  <2>4. NumberInv'
    BY <2>1 DEF IInv, LogInv, NumberInv, Known
  <2>5. ReferenceInv'
    BY <2>1 DEF IInv, LogInv, ReferenceInv, RefersOk, Known
  <2>6. RecoveryInv'
    BY <2>1 DEF IInv, LogInv, RecoveryInv
  <2>7. ThreadInv'
    BY <2>1 DEF IInv, LogInv, ThreadInv, RefersOk, Known
  <2>8. PlaceInv' /\ TimeInv' /\ EscalationInv'
    BY <2>1 DEF IInv, QueueInv, PlaceInv, Noting, IsRefusal, TimeInv, EscalationInv, Escalated
  <2>9. WalkInv' /\ NoLossInv' /\ AccusedInv'
    BY <2>1 DEF IInv, FileInv, WalkInv, NoLossInv, AccusedInv, Settled, NoShort
  <2>10. SilenceInv'
    BY <2>1 DEF IInv, FileInv, SilenceInv, Settled, Deaths, Kept, Told
  <2> QED BY <2>2, <2>3, <2>4, <2>5, <2>6, <2>7, <2>8, <2>9, <2>10
          DEF IInv, TypesInv, LogInv, QueueInv, FileInv
<1>2. CASE AuditNext
  <2>1. /\ TypesInv /\ LogTypes /\ LogInv /\ QueueInv
        /\ ControlInv /\ NumberInv /\ ReferenceInv /\ RecoveryInv
        /\ WalkInv /\ NoLossInv /\ AccusedInv /\ SilenceInv
    BY DEF IInv, TypesInv, LogInv, FileInv
  <2>2. LogStep
    BY <1>2, <2>1, LogSteps
  <2>3. LogTypes' /\ ControlInv' /\ NumberInv' /\ ReferenceInv' /\ RecoveryInv'
    BY <2>1, <2>2, LogTypesStep, ControlStep, NumberStep, ReferenceStep, RecoveryStep
  <2>4. QueueTypes' /\ ThreadInv' /\ QueueInv'
    BY <1>2, <2>1, QueueStep
  <2>5. WalkInv' /\ NoLossInv' /\ AccusedInv' /\ SilenceInv'
    BY <2>1, <2>2, WalkStep, NoLossStep, AccusedStep, SilenceStep
  <2> QED BY <2>3, <2>4, <2>5 DEF IInv, TypesInv, LogInv, FileInv
<1> QED BY <1>1, <1>2

\* What is recorded, who is writing, what the threads hold, where each refusal
\* is and how the file relates to the log: all of it together is kept by every
\* step of every thread, by every crash and by every fault of the disk.
THEOREM InductiveInvariant == AuditSpec => []IInv
BY Initially, Inductive, PTL DEF AuditSpec

-----------------------------------------------------------------------------
(* What it implies.                                                         *)

LEMMA TypeOkHolds == IInv => AuditTypeOK
<1> SUFFICES ASSUME IInv PROVE AuditTypeOK
  OBVIOUS
<1>0. /\ LogTypes /\ ControlInv /\ NumberInv /\ ThreadInv /\ PlaceInv /\ TimeInv
  BY DEF IInv, TypesInv, LogInv, QueueInv
<1>1. ASSUME NEW h, IsRefusal(h) PROVE h # Zero32
  <2>1. PICK i \in 1..Len(acked) : h = Hash(acked[i])
    BY <1>1 DEF IsRefusal, Refusals
  <2>2. acked[i].boot # 0
    BY <1>0 DEF NumberInv
  <2> QED BY <2>1, <2>2 DEF Hash, Zero32
<1>2. writing.by \in {Nobody, Main} \cup Thread /\ writer.open \in BOOLEAN /\ up \in BOOLEAN
  BY <1>0 DEF LogTypes, WritingSet, WriterSet
<1>3. /\ (writing.by # Nobody) => (writer.open /\ file # <<>>)
      /\ up => (writer.open /\ todo = <<>>)
      /\ (writer.open /\ ~up) => todo # <<>>
      /\ writing.by = Main => writing.rec.type = Head(todo)
  BY <1>0, <1>2 DEF ControlInv
<1>4. \A t \in Thread :
          /\ pc[t] = "writing" <=> writing.by = t
          /\ pc[t] # "idle" => up
          /\ pc[t] \in {"refused", "clocked"} => arg[t].ret # Zero32
          /\ arg[t].time <= clock
  BY <1>0, <1>1 DEF ThreadInv, PlaceInv, Noting, TimeInv
<1>5. Len(guards) < GuardThreshold
  BY <1>0 DEF TimeInv
<1> QED BY <1>2, <1>3, <1>4, <1>5 DEF AuditTypeOK

\* The type invariant of the native audit, for any number of threads.
THEOREM TypeCorrect == AuditSpec => []AuditTypeOK
BY InductiveInvariant, TypeOkHolds, PTL

\* The chain rules over records that are linked.
LEMMA LinkedRules ==
    ASSUME NEW recs \in Seq(RecordSet), Linked(recs)
    PROVE  /\ Breaks(recs) \subseteq {i \in 2..Len(recs) : recs[i - 1].rot}
           /\ Gaps(recs) = {} /\ Violations(recs) = {}
<1>0. Len(recs) \in Nat /\ DOMAIN recs = 1..Len(recs)
  OBVIOUS
<1>1. Breaks(recs) \subseteq {i \in 2..Len(recs) : recs[i - 1].rot}
  BY <1>0 DEF Linked, Breaks, PrevOf
<1>2. Gaps(recs) = {}
  BY DEF Linked, Gaps
<1>3. Violations(recs) = {}
  BY <1>0 DEF Linked, Violations
<1> QED BY <1>1, <1>2, <1>3

\* While no write was cut short unseen, the log is what the walk returns.
LEMMA WalkIsLog ==
    ASSUME LogTypes, NoLossInv, NoShort
    PROVE  /\ Len(Records(file)) = Len(acked) /\ Len(acked) \in Nat
           /\ \A i \in 1..Len(acked) : Records(file)[i] \in RecordSet /\ acked[i] = Clean(Records(file)[i])
           /\ \A i \in 1..Len(acked) : /\ acked[i].type = Records(file)[i].type
                                       /\ acked[i].boot = Records(file)[i].boot
                                       /\ acked[i].ref = Records(file)[i].ref
                                       /\ ~Records(file)[i].rot => acked[i] = Records(file)[i]
<1>1. PICK recs \in Seq(RecordSet) : recs = Records(file)
  BY RecordsTypes DEF LogTypes
<1>2. Unrotted(recs) = acked
  BY <1>1 DEF NoLossInv
<1>3. Len(recs) = Len(acked) /\ \A i \in 1..Len(recs) : acked[i] = Clean(recs[i])
  <2>1. acked = [i \in 1..Len(recs) |-> Clean(recs[i])] /\ Len(recs) \in Nat
    BY <1>2 DEF Unrotted
  <2>2. DOMAIN acked = 1..Len(recs) /\ acked \in Seq(RecordSet)
    BY <2>1 DEF LogTypes
  <2>3. Len(acked) = Len(recs)
    BY <2>1, <2>2
  <2> QED BY <2>1, <2>3
<1>4. \A i \in 1..Len(recs) : /\ recs[i] \in RecordSet
                              /\ Clean(recs[i]).type = recs[i].type /\ Clean(recs[i]).boot = recs[i].boot
                              /\ Clean(recs[i]).ref = recs[i].ref
                              /\ ~recs[i].rot => Clean(recs[i]) = recs[i]
  <2> TAKE i \in 1..Len(recs)
  <2>1. recs[i] \in RecordSet
    BY <1>1
  <2> QED BY <2>1, CleanFacts
<1>5. Len(acked) \in Nat
  BY DEF LogTypes
<1> QED BY <1>1, <1>3, <1>4, <1>5

LEMMA RecordsLinked ==
    ASSUME LogTypes, WalkInv
    PROVE  Linked(Records(file))
<1>1. file \in Seq(CellSet) /\ Linked(Reach(file))
  BY DEF LogTypes, WalkInv
<1>2. PICK recs \in Seq(RecordSet) : recs = Records(file)
  BY <1>1, RecordsTypes
<1>3. CASE Records(file) = Reach(file)
  BY <1>1, <1>3
<1>4. ASSUME NEW r \in RecordSet, Reach(file) = Append(Records(file), r) PROVE Linked(Records(file))
  <2>1. Linked(Append(recs, r))
    BY <1>1, <1>2, <1>4
  <2> QED BY <1>2, <2>1, LinkedAppend
<1> QED BY <1>1, <1>3, <1>4, RecordsInReach

\* While writes end as they say, no record is lost, doubled or out of its link,
\* whatever threads, crashes and truncations come between: for any number of them.
THEOREM ChainIsSound == AuditSpec => []ChainSound
<1>1. ASSUME IInv PROVE ChainSound
  <2>0. LogTypes /\ WalkInv /\ NoLossInv
    BY <1>1 DEF IInv, TypesInv, FileInv
  <2>1. PICK recs \in Seq(RecordSet) : recs = Records(file)
    BY <2>0, RecordsTypes DEF LogTypes
  <2>2. Linked(recs)
    BY <2>0, <2>1, RecordsLinked
  <2>3. /\ Breaks(recs) \subseteq {i \in 2..Len(recs) : recs[i - 1].rot}
        /\ Gaps(recs) = {} /\ Violations(recs) = {}
    BY <2>2, LinkedRules
  <2>4. NoShort => [i \in 1..Len(recs) |-> [recs[i] EXCEPT !.rot = FALSE]] = acked
    BY <2>0, <2>1 DEF NoLossInv, Unrotted, Clean
  <2> QED BY <1>1, <2>1, <2>3, <2>4, TypeOkHolds DEF ChainSound
<1> QED BY <1>1, InductiveInvariant, PTL

\* As many refusals as an escalation has, it counts.
LEMMA CountedFacts ==
    ASSUME NEW e \in Seq(GuardSet), Counts(e)
    PROVE  Cardinality(Counted(e)) >= GuardThreshold
<1>1. Len(e) \in Nat /\ Len(e) >= GuardThreshold
  BY DEF Counts
<1>2. \A i, j \in 1..Len(e) : e[i].ref = e[j].ref => i = j
  BY DEF Counts
<1>3. PICK f : f = [i \in 1..Len(e) |-> e[i].ref]
  OBVIOUS
<1>4. f \in Bijection(1..Len(e), Counted(e))
  <2>1. f \in [1..Len(e) -> Counted(e)] /\ \A i \in 1..Len(e) : f[i] = e[i].ref
    BY <1>3 DEF Counted
  <2>2. \A i, j \in 1..Len(e) : f[i] = f[j] => i = j
    BY <1>2, <2>1
  <2>3. \A h \in Counted(e) : \E i \in 1..Len(e) : f[i] = h
    BY <2>1 DEF Counted
  <2> QED BY <2>1, <2>2, <2>3, Fun_IsBij
<1>5. Cardinality(Counted(e)) = Len(e)
  <2>1. ExistsBijection(1..Len(e), Counted(e))
    BY <1>4 DEF ExistsBijection
  <2> QED BY <1>1, <2>1, FS_CountingElements
<1> QED BY <1>1, <1>5

\* An escalation counted as many refusals as the threshold asks for, each on
\* record, of the window, and counted by no other; and no escalation is on record
\* for anything else: for any threshold, window and number of threads.
THEOREM EscalationIsTrue == AuditSpec => []EscalationTrue
<1>1. ASSUME IInv PROVE EscalationTrue
  <2>0. PlaceInv /\ EscalationInv /\ escalations \in Seq(Seq(GuardSet))
    BY <1>1 DEF IInv, TypesInv, QueueTypes, QueueInv
  <2>1. ASSUME NEW k \in 1..Len(escalations)
        PROVE  /\ Cardinality(Counted(escalations[k])) >= GuardThreshold
               /\ \A i, j \in 1..Len(escalations[k]) :
                     escalations[k][i].time - escalations[k][j].time <= GuardWindow + MaxStall
               /\ \A h \in Counted(escalations[k]) :
                     \E i \in 1..Len(acked) : Hash(acked[i]) = h /\ acked[i].type = "GUARD"
               /\ \A l \in 1..(k - 1) : Counted(escalations[k]) \cap Counted(escalations[l]) = {}
    <3>1. escalations[k] \in Seq(GuardSet) /\ Counts(escalations[k])
      BY <2>0 DEF EscalationInv
    <3>2. Cardinality(Counted(escalations[k])) >= GuardThreshold
      BY <3>1, CountedFacts
    <3>3. \A i, j \in 1..Len(escalations[k]) :
                     escalations[k][i].time - escalations[k][j].time <= GuardWindow + MaxStall
      BY <3>1 DEF Counts
    <3>4. \A h \in Counted(escalations[k]) :
                     \E i \in 1..Len(acked) : Hash(acked[i]) = h /\ acked[i].type = "GUARD"
      <4>1. \A h \in Counted(escalations[k]) : h \in Refusals(acked)
        BY <2>0 DEF PlaceInv, IsRefusal
      <4>2. \A h \in Refusals(acked) : \E i \in 1..Len(acked) : Hash(acked[i]) = h /\ acked[i].type = "GUARD"
        BY DEF Refusals
      <4> QED BY <4>1, <4>2
    <3>5. \A l \in 1..(k - 1) : Counted(escalations[k]) \cap Counted(escalations[l]) = {}
      BY <2>0 DEF PlaceInv
    <3> QED BY <3>2, <3>3, <3>4, <3>5
  <2>2. \A i \in 1..Len(acked) : acked[i].type = "GUARD_ESCALATION" =>
          \E k \in 1..Len(escalations) : Last(escalations[k]).ref = acked[i].ref
    BY <2>0 DEF EscalationInv, Escalated, Escalates
  <2> QED BY <2>1, <2>2 DEF EscalationTrue
<1> QED BY <1>1, InductiveInvariant, PTL

\* What the stored anchor and the self-check say of the chain is true: no anchor
\* is answered with a replacement that was none, and no accusation is recorded
\* unless a record rotted.
THEOREM ChecksHold == AuditSpec => []ChecksAreTrue
<1>1. ASSUME IInv PROVE AnchorVerifies
  <2>0. LogTypes /\ WalkInv /\ NoLossInv /\ ThreadInv /\ ReferenceInv
    BY <1>1 DEF IInv, TypesInv, FileInv, LogInv
  <2>1. ASSUME NoShort, faults["rot"] = 0, NEW recs \in Seq(RecordSet), recs = Records(file)
        PROVE  /\ stored = Zero32 \/ AnchorAnswer(recs, stored) # "replaced"
               /\ BadReferences(recs) = {}
               /\ \A i \in 1..Len(recs) : recs[i].type = "ANCHOR" =>
                     \E j \in 1..(i - 1) : Hash(recs[j]) = recs[i].ref
    <3>1. \A k \in 1..Len(recs) : ~recs[k].rot
      <4> TAKE k \in 1..Len(recs)
      <4>1. PICK i \in 1..Len(file) : recs[k] = file[i].rec
        BY <2>0, <2>1, RecordsTypes DEF LogTypes
      <4> QED BY <2>0, <2>1, <4>1 DEF WalkInv
    <3>2. Len(recs) = Len(acked) /\ \A i \in 1..Len(acked) : acked[i] = recs[i]
      BY <2>0, <2>1, <3>1, WalkIsLog
    <3>3. \A h : Known(h) => h \in Seen(recs)
      BY <3>2 DEF Known, Seen
    <3>4. stored = Zero32 \/ AnchorAnswer(recs, stored) # "replaced"
      <4>1. stored # Zero32 => stored \in Seen(recs)
        BY <2>0, <3>3 DEF ThreadInv
      <4>2. stored \in Seen(recs) => AnchorAnswer(recs, stored) # "replaced"
        BY DEF AnchorAnswer
      <4> QED BY <4>1, <4>2
    <3>5. \A i \in 1..Len(recs) : (recs[i].ref # Zero32 \/ recs[i].type = "ANCHOR") =>
             \E j \in 1..(i - 1) : j \in 1..Len(recs) /\ recs[i].ref = Hash(recs[j])
      <4> TAKE i \in 1..Len(recs)
      <4>1. \A j \in 1..(i - 1) : j \in 1..Len(recs) /\ j \in 1..Len(acked) /\ acked[j] = recs[j]
        BY <3>2
      <4>2. acked[i] = recs[i] /\ i \in 1..Len(acked)
        BY <3>2
      <4> QED BY <2>0, <4>1, <4>2 DEF ReferenceInv
    <3>6. BadReferences(recs) = {}
      BY <3>5 DEF BadReferences, Seen
    <3>7. \A i \in 1..Len(recs) : recs[i].type = "ANCHOR" =>
                     \E j \in 1..(i - 1) : Hash(recs[j]) = recs[i].ref
      BY <3>5
    <3> QED BY <3>4, <3>6, <3>7
  <2>2. Records(file) \in Seq(RecordSet)
    BY <2>0, RecordsTypes DEF LogTypes
  <2> QED BY <2>1, <2>2 DEF AnchorVerifies
<1>2. ASSUME IInv PROVE NoFalseAlarm
  <2>0. LogTypes /\ ThreadInv /\ AccusedInv
    BY <1>2 DEF IInv, TypesInv, FileInv, LogInv
  <2>1. faults["rot"] \in Nat
    BY <2>0 DEF LogTypes, Faults
  <2>2. ASSUME NEW i \in 1..Len(acked), acked[i].type = "SELF_CHECK_FAILED" PROVE faults["rot"] > 0
    BY <2>0, <2>1, <2>2 DEF AccusedInv
  <2> QED BY <2>0, <2>2 DEF NoFalseAlarm, ThreadInv
<1>3. IInv => ChecksAreTrue
  BY <1>1, <1>2 DEF ChecksAreTrue
<1> QED BY <1>3, InductiveInvariant, PTL

\* A record that was acknowledged and is not in the file is missed: the file shows
\* it, or the process that cut it off has said so, or is about to; and where no
\* write was cut short unseen, a recovery is on record just where one was made.
THEOREM LossIsShown == AuditSpec => []LossShows
<1>1. ASSUME IInv PROVE LossShows
  <2>0. LogTypes /\ ControlInv /\ NoLossInv /\ SilenceInv /\ RecoveryInv
    BY <1>1 DEF IInv, TypesInv, FileInv, LogInv
  <2>1. PICK recs \in Seq(RecordSet) : recs = Records(file)
    BY <2>0, RecordsTypes DEF LogTypes
  <2>2. PICK whole : whole = {Hash([recs[i] EXCEPT !.rot = FALSE]) : i \in 1..Len(recs)}
    OBVIOUS
  <2>3. \/ \A i \in 1..Len(acked) : Hash(acked[i]) \in whole
        \/ ~WellFormed(file)
        \/ \E i \in 1..Len(recs) : recs[i].type = "RECOVERY"
        \/ writer.open /\ ~up
        \/ Deaths > 1
    <3>1. CASE ~(Deaths <= 1)
      <4>1. Deaths \in Nat
        <5>1. faults["crash"] \in Nat /\ faults["raise"] \in Nat
          BY <2>0 DEF LogTypes, Faults
        <5> QED BY <5>1 DEF Deaths
      <4> QED BY <3>1, <4>1
    <3>2. CASE Deaths <= 1
      <4>1. Kept \/ ~WellFormed(Settled) \/ Resuming
        BY <2>0, <3>2, ShowsIs DEF Shows
      <4>2. Kept => \A i \in 1..Len(acked) : Hash(acked[i]) \in whole
        BY <2>1, <2>2 DEF Kept, Clean
      <4>3. ~WellFormed(Settled) => ~WellFormed(file)
        BY <2>0, SettledFacts
      <4>4. ASSUME Resuming PROVE (writer.open /\ ~up) \/ \E i \in 1..Len(recs) : recs[i].type = "RECOVERY"
        <5>1. CASE Told
          BY <2>1, <5>1 DEF Told
        <5>2. CASE todo \in {<<"BOOT", "RECOVERY">>, <<"RECOVERY">>}
          <6>1. todo # <<>> /\ writer.open
            BY <4>4, <5>2 DEF Resuming
          <6> QED BY <2>0, <6>1 DEF ControlInv
        <5> QED BY <4>4, <5>1, <5>2 DEF Resuming
      <4> QED BY <4>1, <4>2, <4>3, <4>4
    <3> QED BY <3>1, <3>2
  <2>4. ASSUME NoShort
        PROVE  /\ (up /\ writer.recovered) => Recovered(recs, writer.boot)
               /\ \A i \in 1..Len(recs) : recs[i].type = "RECOVERY" =>
                     i > 1 /\ recs[i - 1].type = "BOOT" /\ recs[i - 1].boot = recs[i].boot
    <3>1. /\ Len(recs) = Len(acked) /\ Len(acked) \in Nat
          /\ \A i \in 1..Len(acked) : acked[i].type = recs[i].type /\ acked[i].boot = recs[i].boot
      BY <2>0, <2>1, <2>4, WalkIsLog
    <3>2. (up /\ writer.recovered) => Recovered(recs, writer.boot)
      <4>1. \A i \in 1..(Len(acked) - 1) : i \in 1..Len(acked) /\ i + 1 \in 1..Len(acked)
        BY <3>1
      <4> QED BY <2>0, <3>1, <4>1 DEF RecoveryInv, Recovered
    <3>3. ASSUME NEW i \in 1..Len(recs), recs[i].type = "RECOVERY"
          PROVE  i > 1 /\ recs[i - 1].type = "BOOT" /\ recs[i - 1].boot = recs[i].boot
      <4>1. i > 1 /\ acked[i - 1].type = "BOOT" /\ acked[i - 1].boot = acked[i].boot
        BY <2>0, <3>1, <3>3 DEF RecoveryInv
      <4>2. i - 1 \in 1..Len(acked) /\ i \in 1..Len(acked)
        BY <3>1, <4>1
      <4> QED BY <3>1, <4>1, <4>2
    <3> QED BY <3>2, <3>3
  <2>5. /\ \/ \A i \in 1..Len(acked) : Hash(acked[i]) \in whole
           \/ ~WellFormed(file)
           \/ \E i \in 1..Len(recs) : recs[i].type = "RECOVERY"
           \/ writer.open /\ ~up
           \/ faults["crash"] + faults["raise"] > 1
        /\ NoShort =>
              /\ (up /\ writer.recovered) => Recovered(recs, writer.boot)
              /\ \A i \in 1..Len(recs) : recs[i].type = "RECOVERY" =>
                    i > 1 /\ recs[i - 1].type = "BOOT" /\ recs[i - 1].boot = recs[i].boot
    BY <2>3, <2>4 DEF Deaths
  <2> QED BY <2>1, <2>2, <2>5 DEF LossShows
<1> QED BY <1>1, InductiveInvariant, PTL
=============================================================================
