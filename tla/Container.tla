----------------------------- MODULE Container -----------------------------
(***************************************************************************)
(* What the bytes of one PALA-1 file mean to those who read it back: the   *)
(* record walk that the codec, the resume scan, the batch reader and the   *)
(* tailing reader each carry a copy of, the chain rules of the verifier,   *)
(* and the answer to an anchor.                                            *)
(*                                                                         *)
(* A file is a sequence of cells.  A record is written as a header cell    *)
(* and, when its type has a body, a body cell; a write that ends early     *)
(* leaves a "cut" header, or a header without its body.  Records have      *)
(* unique (boot, seq), which stands for their bytes: the hash of a header  *)
(* is that pair, and another one once a byte of it has rotted.             *)
(***************************************************************************)
EXTENDS Integers, Sequences, FiniteSets, SequencesExt

Zero32 == <<0, -1>>                      \* ZERO32, and "no reference"

Hash(r) == <<r.boot, r.seq + (IF r.rot THEN 100 ELSE 0)>>   \* record_hash

\* Record types that come with a body.
HasBody(r) == r.type \notin {"GENESIS", "BOOT", "ANCHOR"}

Cell(part, r) == [part |-> part, rec |-> r]

\* The cells of a record that was written to its end.
Written(r) == <<Cell("head", r)>> \o (IF HasBody(r) THEN <<Cell("body", r)>> ELSE <<>>)

\* What may be on disk when its write was cut short.
Fragments(r) == {<<Cell("cut", r)>>} \cup
                (IF HasBody(r) THEN {<<Cell("head", r)>>} ELSE {})

-----------------------------------------------------------------------------
(* The walk.                                                                *)

\* Seeded fault: a header counts as a record although its body is not there.
Complete_HeaderOnly(file, i) == file[i].part # "cut"

\* What the length fields of the cell at i promise is there.
Complete(file, i) ==
    CASE file[i].part = "head" ->
            ~HasBody(file[i].rec) \/ (i < Len(file) /\ file[i + 1].part \in {"body", "junk"})
      [] file[i].part = "cut" -> FALSE
      [] OTHER -> TRUE

\* Where the walk first misses something, or the end.
Stop(file) == LET gaps == {i \in 1..Len(file) : ~Complete(file, i)}
              IN  IF gaps = {} THEN Len(file) + 1
                  ELSE CHOOSE i \in gaps : \A j \in gaps : i <= j

\* A header whose body is missing takes the bytes of a record behind it for
\* its body, which is shorter than a header: it passes, and the walk goes
\* wrong in the middle of that record.
Swallows(file) == /\ Stop(file) < Len(file)
                  /\ file[Stop(file)].part = "head"
                  /\ file[Stop(file) + 1].part = "head"

\* The records whose headers are among the first n cells, in their order.
RecordsTo(file, n) ==
    LET heads == {i \in 1..n : file[i].part = "head"}
        Nth(k) == CHOOSE i \in heads : Cardinality(heads \cap (1..i)) = k
    IN  [k \in 1..Cardinality(heads) |-> file[Nth(k)].rec]

\* The records that the walk returns.
Records(file) == RecordsTo(file, IF Swallows(file) THEN Stop(file) ELSE Stop(file) - 1)

\* The walk ends at the end of the file: iter_records does not raise, and a
\* reader does not call the container truncated.
WellFormed(file) == Stop(file) > Len(file)

\* Another record begins behind the place where the walk stopped.
MagicBeyond(file) ==
    LET stop == Stop(file) + (IF Swallows(file) THEN 1 ELSE 0)
    IN  \E i \in (stop + 1)..Len(file) : file[i].part \in {"head", "cut"}

\* Seeded fault: the last record goes with the tail.
Truncated_OneLess(file) == SubSeq(file, 1, Stop(file) - 2)

\* The file up to the end of the last record that the walk found.
Truncated(file) ==
    IF Swallows(file)
    THEN Append(SubSeq(file, 1, Stop(file)), Cell("junk", file[Stop(file)].rec))
    ELSE SubSeq(file, 1, Stop(file) - 1)

-----------------------------------------------------------------------------
(* The verifier's rules over the records of a walk.                         *)

PrevOf(recs, i) == IF i = 1 THEN Zero32 ELSE Hash(recs[i - 1])

\* The link check, for records that have a predecessor.
Breaks(recs) == {i \in 2..Len(recs) : recs[i].prev # PrevOf(recs, i)}

Gaps(recs) == {i \in 2..Len(recs) : recs[i].seq # recs[i - 1].seq + 1}

\* What is checked of GENESIS; the other MUSTs are about bytes left out here.
Violations(recs) ==
    {i \in 1..Len(recs) : (recs[i].type = "GENESIS") # (i = 1)}
    \cup {i \in {1} \cap DOMAIN recs : recs[i].prev # Zero32}

ChainOk(recs) == Breaks(recs) = {} /\ Gaps(recs) = {} /\ Violations(recs) = {}

HeadHash(recs) == IF recs = <<>> THEN Zero32 ELSE Hash(Last(recs))

Seen(recs) == {Hash(recs[i]) : i \in 1..Len(recs)}

\* complete_to_anchor, with the lag that tells a tail from a replacement.
AnchorAnswer(recs, anchor) ==
    CASE anchor = HeadHash(recs) -> "complete"
      [] anchor # HeadHash(recs) /\ anchor \in Seen(recs) -> "unanchored_tail"
      [] OTHER -> "replaced"

-----------------------------------------------------------------------------
(* The reader's look at references and at boots.                            *)

\* Records with a seq that nothing has, or whose hash the reference belies.
BadReferences(recs) ==
    {i \in 1..Len(recs) : /\ recs[i].ref # Zero32
                          /\ recs[i].ref \notin Seen(recs)}

\* recovery_seq of the boot: only the record after its BOOT is looked at.
Recovered(recs, b) ==
    \E i \in 1..(Len(recs) - 1) : /\ recs[i].boot = b /\ recs[i].type = "BOOT"
                                  /\ recs[i + 1].type = "RECOVERY"
=============================================================================
