------------------------------ MODULE Verdict ------------------------------
(***************************************************************************)
(* What is said of a whole file: the anchor that an auditor brings         *)
(* (audit/anchors.py), the reader's verification with its one diagnosis    *)
(* (audit/reader.py), the report (audit/report.py) and the command         *)
(* "pala verify" (cli.py), which walks and judges the file on its own.     *)
(*                                                                         *)
(* A file is [recs, tail]: tail is "none" if the last record ends with the *)
(* file, "cut" behind it the beginning of another, "alien" other bytes.    *)
(***************************************************************************)
EXTENDS Reader

-----------------------------------------------------------------------------
(* Where an anchor comes from.                                              *)

\* FileAnchor: what a read of the file may find.  A source that is there and
\* holds no head is an error, never "no anchor".
Source(content) == CASE content = "missing" -> "absent"
                     [] content \in {"unreadable", "empty", "two heads", "no hex", "short"} -> "error"
                     [] OTHER -> "answered"

\* ChainedAnchorSource: the first that answers wins; a broken one is passed by.
Answering(sources) ==
    {k \in DOMAIN sources : /\ Source(sources[k].content) = "answered"
                            /\ \A j \in 1..(k - 1) : Source(sources[j].content) # "answered"}

AnchoredHead(sources) ==
    IF Answering(sources) = {} THEN NoHash
    ELSE sources[CHOOSE k \in Answering(sources) : TRUE].head

\* last_attempts: what became of each source up to the one that answered.
Attempts(sources) ==
    LET last == IF Answering(sources) = {} THEN Len(sources)
                ELSE CHOOSE k \in Answering(sources) : TRUE
    IN  [k \in 1..last |-> Source(sources[k].content)]

-----------------------------------------------------------------------------
(* The container.                                                           *)

WellFormed(file) == file.tail = "none"

\* The walk's records whose body is not the one that the header binds.
BodyMismatches(file) ==
    SeqsWhere(file.recs, LAMBDA i : file.recs[i].body.form # "none" /\ ~file.recs[i].bound)

\* _manifest_predecessor_status: the manifest beside a segment, and whether the
\* entry before the declared one has the declared head.
ManifestStatus(manifest, body) ==
    CASE manifest.kind # "segments" -> "declared_only"
      [] manifest.kind = "segments" /\ body.index \notin 1..Len(manifest.heads) -> "contradicts"
      [] manifest.kind = "segments" /\ body.index \in 1..Len(manifest.heads) ->
            IF manifest.heads[body.index] = body.hash THEN "matches" ELSE "contradicts"

\* _declared_continuation_diagnosis: the first record says what went before it.
DeclaresPrefix(recs) ==
    recs # <<>> /\ IsContinuation(recs[1]) /\ recs[1].body.hash = recs[1].prev

PrefixDiagnosis(recs, manifest) ==
    CASE ~DeclaresPrefix(recs) -> [pattern |-> "prefix_absent", at |-> 0]
      [] DeclaresPrefix(recs) /\ ManifestStatus(manifest, recs[1].body) = "contradicts" ->
            [pattern |-> "continuation_contradicts_manifest", at |-> recs[1].seq]
      [] OTHER -> [pattern |-> "declared_continuation", at |-> recs[1].seq]

NoDiagnosis == [pattern |-> "none", at |-> NoSeq]
Pattern(p) == [NoDiagnosis EXCEPT !.pattern = p]

\* What is said of a file without records.
EmptyDiagnosis(file, chain) ==
    CASE file.tail = "none" /\ chain.complete = "no" -> Pattern("replaced_or_rolled_back")
      [] file.tail = "none" /\ chain.complete # "no" -> Pattern("empty_container")
      [] file.tail = "alien" -> Pattern("not_a_container")
      [] OTHER -> Pattern("truncated_tail")

\* What is said of a chain in which nothing is wrong.
AnchorDiagnosis(chain) ==
    CASE chain.complete # "no" -> NoDiagnosis
      [] chain.complete = "no" /\ chain.lag # NoSeq -> Pattern("unanchored_tail")
      [] OTHER -> Pattern("replaced_or_rolled_back")

\* The first that is wrong, in the order of how much it explains.
ChainDiagnosis(chain) ==
    CASE chain.gaps # <<>> -> [pattern |-> "seq_gap", at |-> Head(chain.gaps)]
      [] chain.gaps = <<>> /\ chain.breaks # <<>> ->
            [pattern |-> "chain_break", at |-> Head(chain.breaks)]
      [] chain.gaps = <<>> /\ chain.breaks = <<>> /\ chain.violations # <<>> ->
            [pattern |-> "record_violation", at |-> Head(chain.violations)[1]]
      [] OTHER -> AnchorDiagnosis(chain)

PrefixAbsent(chain) == \E k \in DOMAIN chain.violations : chain.violations[k] = <<0, "prefix_absent">>

\* _derive_diagnosis: the first match wins.
Diagnosis(file, chain, manifest) ==
    CASE file.recs = <<>> -> EmptyDiagnosis(file, chain)
      [] file.recs # <<>> /\ ~WellFormed(file) -> Pattern("truncated_tail")
      [] file.recs # <<>> /\ WellFormed(file) /\ PrefixAbsent(chain) ->
            PrefixDiagnosis(file.recs, manifest)
      [] OTHER -> ChainDiagnosis(chain)

-----------------------------------------------------------------------------
(* The reader, the report and the command.                                  *)

\* AuditReader.verify().
Verification(file, sources, manifest, warm) ==
    LET anchor == AnchoredHead(sources)
        chain == VerifyHeaders(file.recs, NoHash, anchor)
    IN  [chain |-> chain, anchor |-> anchor, attempts |-> Attempts(sources),
         diagnosis |-> Diagnosis(file, chain, manifest),
         advisory |-> chain.advisory \cup ReferentialAdvisories(file.recs, warm)]

\* Seeded fault: the bodies do not count.
DeriveVerdict_NoBodies(file, chain) ==
    CASE ~chain.ok \/ ~WellFormed(file) \/ chain.complete = "no" -> "violation"
      [] chain.ok /\ WellFormed(file) /\ chain.complete = "unchecked" -> "partial"
      [] OTHER -> "sound"

\* The report's one verdict rule.
DeriveVerdict(file, chain) ==
    LET broken == \/ ~chain.ok \/ ~WellFormed(file)
                  \/ BodyMismatches(file) # <<>> \/ chain.complete = "no"
    IN  CASE broken -> "violation"
          [] ~broken /\ chain.complete = "unchecked" -> "partial"
          [] OTHER -> "sound"

\* The report's safety section: the candidates that nobody has acknowledged.
Unacknowledged(recs) ==
    {recs[i].seq : i \in {k \in 1..Len(recs) : recs[k].type = "SAFETY" /\ KindOf(recs[k]) = "CANDIDATE"}}
    \ DOMAIN AcknowledgedCandidates(recs)

\* pala verify: its own walk, its own rule, and the exit code.
PalaVerify(file, expected) ==
    LET result == VerifyHeaders(file.recs, NoHash, expected)
        consistent == result.ok /\ BodyMismatches(file) = <<>> /\ WellFormed(file)
    IN  CASE ~consistent -> 1
          [] consistent /\ expected # NoHash /\ result.complete # "yes" -> 1
          [] consistent /\ expected = NoHash -> 2
          [] OTHER -> 0
=============================================================================
