------------------------------ MODULE Reading ------------------------------
(***************************************************************************)
(* A PALA-1 file from the day it was written to the day it is read: what a *)
(* writer left, whole or torn, what was done to it since by somebody who   *)
(* knows the format and holds no key (there is none to hold: the chain is  *)
(* made of plain hashes), and the questions put to one AuditReader, which  *)
(* keeps what it has answered.  Its lock makes each answer one step.       *)
(***************************************************************************)
EXTENDS Verdict, SequencesExt, TLC

CONSTANTS Scripts,    \* what writers write: sequences of records
          Edits,      \* changes of one header, each a name
          Anchors,    \* the anchor sources an auditor may bring, in order
          Manifests,  \* what may lie beside the file
          MaxChanges  \* bound: changes and questions together

VARIABLES script,     \* what the writer meant to write
          file,       \* the file: its records and its tail
          changes,    \* how often it was changed since
          open,       \* a reader holds it
          warm,       \* _decoded is not None
          kept        \* what the reader keeps: question -> answer

vars == <<script, file, changes, open, warm, kept>>

\* A record is written as the script has it, linked to the one before.
Chained(s, i) == [s[i] EXCEPT !.name = Name(i, <<>>), !.seq = i - 1, !.mono = i,
                              !.prev = IF i = 1 THEN Zero32 ELSE Name(i - 1, <<>>)]

Honest(s) == [i \in 1..Len(s) |-> Chained(s, i)]

Init == /\ script \in Scripts
        /\ file = [recs |-> <<>>, tail |-> "none"]
        /\ changes = 0
        /\ open = FALSE
        /\ warm = FALSE
        /\ kept = <<>>

-----------------------------------------------------------------------------
(* The file.                                                                *)

Whole == Len(file.recs) = Len(script) /\ file.tail = "none"

Write == /\ ~open /\ changes = 0 /\ file.tail = "none"
         /\ Len(file.recs) < Len(script)
         /\ file' = [file EXCEPT !.recs = Append(@, Chained(script, Len(@) + 1))]
         /\ UNCHANGED <<script, changes, open, warm, kept>>

\* The writer dies in the next record.
Tear == /\ ~open /\ changes = 0 /\ file.tail = "none"
        /\ Len(file.recs) < Len(script)
        /\ file' = [file EXCEPT !.tail = "cut"]
        /\ UNCHANGED <<script, changes, open, warm, kept>>

Change(f) == /\ ~open /\ (Whole \/ changes > 0)
             /\ changes < MaxChanges
             /\ file' = f
             /\ changes' = changes + 1
             /\ UNCHANGED <<script, open, warm, kept>>

Recs(s) == [file EXCEPT !.recs = s]

Drop == \E i \in 1..Len(file.recs) : Change(Recs(RemoveAt(file.recs, i)))

Duplicate == \E i \in 1..Len(file.recs) : Change(Recs(InsertAt(file.recs, i, file.recs[i])))

Swap == \E i \in 1..(Len(file.recs) - 1) :
            Change(Recs([file.recs EXCEPT ![i] = file.recs[i + 1], ![i + 1] = file.recs[i]]))

\* What differs from the header that was written, as marks; a field that may
\* take several values is there with its value.
Mark(n) == Name(-n, <<>>)

Differences(r) ==
    LET h == Chained(script, r.name.of)
    IN  When(r.seq # h.seq, Name(r.seq, <<Mark(1)>>))
        \o When(r.prev # h.prev, Name(-2, <<r.prev>>))
        \o When(r.type # h.type, Mark(3))
        \o When(r.ver # h.ver, Mark(4))
        \o When(r.flaw # h.flaw, Mark(IF r.flaw = "malformed_tlv" THEN 5 ELSE 6))
        \o When(r.key # h.key, Mark(7))
        \o When(r.mono # h.mono, Mark(8))

\* Another header has another hash, and the same one the same.
Hashed(r) == [r EXCEPT !.name = Name(@.of, Differences(r))]

Edited(r, e) ==
    CASE e = "seq" -> [r EXCEPT !.seq = @ + 1]
      [] e = "prev" -> [r EXCEPT !.prev = Mark(9)]
      [] e = "type" -> [r EXCEPT !.type = "UNKNOWN"]
      [] e = "ver" -> [r EXCEPT !.ver = 2]
      [] e = "tlv" -> [r EXCEPT !.flaw = "malformed_tlv"]
      [] e = "time" -> [r EXCEPT !.flaw = "time_unknown_with_wall_clock"]
      [] e = "key" -> [r EXCEPT !.key = 1 - @]
      [] e = "mono" -> [r EXCEPT !.mono = 0]

EditHeader ==
    \E i \in 1..Len(file.recs), e \in Edits :
        /\ Edited(file.recs[i], e) # file.recs[i]
        /\ Change(Recs([file.recs EXCEPT ![i] = Hashed(Edited(@, e))]))

\* Another body of the same length, of whole TLVs or not.
EditBody == \E i \in 1..Len(file.recs), form \in {"ok", "torn"} :
               /\ file.recs[i].body.form = "ok" /\ file.recs[i].bound
               /\ Change(Recs([file.recs EXCEPT ![i].bound = FALSE, ![i].body.hash = NoHash,
                                                ![i].body.form = form]))

\* All links are made anew, and all seqs too if whoever does it thinks of it.
Linked(recs, renumber) ==
    LET upto[i \in 0..Len(recs)] ==
            IF i = 0 THEN <<>>
            ELSE LET before == upto[i - 1]
                 IN  Append(before,
                        Hashed([recs[i] EXCEPT
                                   !.prev = IF i = 1 THEN @ ELSE Hash(before[i - 1]),
                                   !.seq = IF renumber THEN i - 1 ELSE @]))
    IN  upto[Len(recs)]

Relink == \E renumber \in BOOLEAN :
             /\ changes > 0
             /\ Linked(file.recs, renumber) # file.recs
             /\ Change(Recs(Linked(file.recs, renumber)))

\* The file ends in other bytes, or in the middle of what was its last record.
OtherBytes == file.tail = "none" /\ \E t \in {"cut", "alien"} : Change([file EXCEPT !.tail = t])

-----------------------------------------------------------------------------
(* The reader.                                                              *)

Open == /\ ~open
        /\ open' = TRUE
        /\ UNCHANGED <<script, file, changes, warm, kept>>

Keep(question, answer) ==
    /\ open /\ changes + Cardinality(DOMAIN kept) < MaxChanges
    /\ question \notin DOMAIN kept
    /\ kept' = (question :> answer) @@ kept
    /\ UNCHANGED <<script, file, changes, open, warm>>

\* records(): all are decoded, and stay so.
Decode == /\ open /\ ~warm
          /\ warm' = TRUE
          /\ UNCHANGED <<script, file, changes, open, kept>>

AskVerify == \E sources \in Anchors, manifest \in Manifests :
                Keep("verify", Verification(file, sources, manifest, warm))

AskStructure == Keep("structure", Structure(file.recs, warm))

Asked == {file.recs[i].seq : i \in 1..Len(file.recs)}

AskOrigins == Keep("origins", LET index == OriginIndex(file.recs, warm)
                              IN  [s \in Asked |-> OriginAt(file.recs, index, s)])

Next == \/ Write \/ Tear
        \/ Drop \/ Duplicate \/ Swap \/ EditHeader \/ EditBody \/ Relink \/ OtherBytes
        \/ Open \/ Decode \/ AskVerify \/ AskStructure \/ AskOrigins

Spec == Init /\ [][Next]_vars

-----------------------------------------------------------------------------
(* Properties.                                                              *)

\* The type invariant of the reading side, and its bound.
TypeOK == /\ script \in Scripts
          /\ file.tail \in {"none", "cut", "alien"}
          /\ changes + Cardinality(DOMAIN kept) <= MaxChanges
          /\ DOMAIN kept \subseteq {"verify", "structure", "origins"}
          /\ ~open => DOMAIN kept = {} /\ ~warm

\* A clear body that opens with its kind, in a record that cannot be decoded or
\* before TLVs that cannot, where a question depends on that kind.
Misread(r) == /\ r.type \in KindBearing /\ r.key = 0 /\ r.body.first /\ ~Legible(r)
              /\ r.body.kind \in {"LOAD", "UNLOAD", "RECOVERY"} => Decodes(r)
              /\ r.body.kind \in {"CONT", "LOAD", "UNLOAD", "RECOVERY"}

\* A cold reader's answers, read in place and through indices, are those that
\* the decoded records give, in whatever order it is asked and decodes; only a
\* LOAD, UNLOAD, RECOVERY or CONT that cannot be decoded is read differently.
ColdIsWarm ==
    /\ TypeOK
    /\ (\A i \in 1..Len(file.recs) : ~Misread(file.recs[i])) =>
        /\ "verify" \in DOMAIN kept =>
              kept["verify"].advisory
                  = kept["verify"].chain.advisory \cup ReferentialAdvisories(file.recs, TRUE)
        /\ "structure" \in DOMAIN kept => kept["structure"] = Structure(file.recs, TRUE)
        /\ "origins" \in DOMAIN kept =>
              kept["origins"] = [s \in Asked |-> OriginWalk(file.recs, s)]

SetOf(s) == {s[k] : k \in DOMAIN s}

\* Everybody finds the same in the same chain, apart from how the two others
\* read two sentences of the specification.
SameFindings(recs, chain, expected) ==
    LET ref == Reference(recs, expected)
        k == Kurdybaylo(recs, expected)
        o == Oleksandr(recs, expected)
        hidden == {<<recs[i].seq, "genesis_not_first">> :
                      i \in {j \in 2..Len(recs) : recs[j].type = "GENESIS" /\ ~Interpretable(recs[j])}}
        later == SetOf(ref.violations) \ {<<0, "prefix_absent">>}
    IN  /\ ref.breaks = chain.breaks /\ ref.gaps = chain.gaps
        /\ ref.violations = chain.violations /\ ref.uninterpretable = chain.uninterpretable
        /\ ref.head = chain.head
        /\ ref.answer = [complete |-> chain.complete, lag |-> chain.lag]
        /\ k.breaks = ref.breaks /\ SetOf(k.violations) = SetOf(ref.violations) \cup hidden
        /\ later \subseteq SetOf(o.violations)
        /\ hidden = {} => /\ (k.violations = <<>>) = (ref.violations = <<>>)
                          /\ ChainOk(o) = ChainOk(ref)

\* A chain is as sound as its pieces: what is wrong with it is wrong in the part
\* before a cut, or in the part behind it verified from the head before, or is
\* a seq that jumps, or a GENESIS, right at the seam.
SeamsAdd(recs, chain) ==
    \A c \in 1..(Len(recs) - 1) :
        LET head == SubSeq(recs, 1, c)
            a == VerifyHeaders(head, NoHash, NoHash)
            b == VerifyHeaders(SubSeq(recs, c + 1, Len(recs)), HeadHash(head), NoHash)
        IN  /\ chain.breaks = a.breaks \o b.breaks
            /\ chain.gaps = a.gaps \o When(Jumps(recs, c + 1), recs[c + 1].seq) \o b.gaps
            /\ SetOf(chain.violations) = SetOf(a.violations) \cup SetOf(b.violations)
                   \cup SetOf(IF Interpretable(recs[c + 1])
                              THEN SelectSeq(SemanticChecks(recs[c + 1], c + 1),
                                             LAMBDA v : v[2] = "genesis_not_first")
                              ELSE <<>>)

\* One file, one verdict: the incremental verifier, the reference and the two
\* independent ones find the same, whole or in segments; the report and the
\* exit code of pala verify say the same of it; and a verdict is explained by a
\* diagnosis unless it is about bodies, which headers know nothing of.
VerifiersAgree ==
    "verify" \in DOMAIN kept =>
        LET ver == kept["verify"]
            verdict == DeriveVerdict(file, ver.chain)
            pattern == ver.diagnosis.pattern
        IN  /\ SameFindings(file.recs, ver.chain, ver.anchor)
            /\ SeamsAdd(file.recs, ver.chain)
            /\ PalaVerify(file, ver.anchor)
                  = CASE verdict = "violation" -> 1 [] verdict = "partial" -> 2 [] OTHER -> 0
            /\ pattern \notin {"none", "empty_container"} => verdict = "violation"
            /\ pattern = "none" /\ verdict = "violation" => BodyMismatches(file) # <<>>
            /\ pattern = "empty_container" => verdict # "violation" /\ file.recs = <<>>

\* The file is the log up to the record with this hash.
IsLogUpTo(head) == /\ WellFormed(file)
                   /\ file.recs = SubSeq(Honest(script), 1, Len(file.recs))
                   /\ HeadHash(file.recs) = head

\* A segment whose predecessors were removed, and nothing else.
IsLaterSegment == /\ WellFormed(file) /\ Len(file.recs) \in 1..(Len(script) - 1)
                  /\ file.recs = SubSeq(Honest(script), Len(script) - Len(file.recs) + 1, Len(script))
                  /\ file.recs[1].body.kind = "CONT"

\* What a writer left is never taken for tampering, torn or not; a segment that
\* says what preceded it is believed unless the manifest beside it tells of
\* another history; and a file is called sound only if it is the log that was
\* written, to the record that the anchor names, with every body.
SoundIsGenuine ==
    "verify" \in DOMAIN kept =>
        LET ver == kept["verify"]
            pattern == ver.diagnosis.pattern
        IN  /\ DeriveVerdict(file, ver.chain) = "sound" => IsLogUpTo(ver.anchor)
            /\ changes = 0 =>
                  /\ ver.chain.ok /\ BodyMismatches(file) = <<>>
                  /\ pattern \in {"none", "empty_container", "truncated_tail", "unanchored_tail",
                                  "replaced_or_rolled_back"}
                  /\ pattern = "replaced_or_rolled_back" =>
                        ver.anchor \notin SetOf(Hashes(file.recs))
            /\ IsLaterSegment => pattern \in {"declared_continuation",
                                              "continuation_contradicts_manifest"}

\* Where no seq is there twice, and candidates and acks are SAFETY records.
Orderly(recs) == /\ Cardinality({recs[i].seq : i \in 1..Len(recs)}) = Len(recs)
                 /\ \A i \in 1..Len(recs) : KindOf(recs[i]) \in {"CANDIDATE", "ACK"} =>
                                                recs[i].type = "SAFETY"

\* "The two cannot disagree about what acknowledged means": a candidate counts
\* as acknowledged exactly if an OVERSIGHT_ACK names it about which no advisory
\* is raised, and a record as shredded if a KEY_SHRED names it about which none
\* is; and no candidate is left out of both the acknowledged and the open ones.
LoopsAgree ==
    "verify" \in DOMAIN kept /\ Orderly(file.recs) =>
        LET ver == kept["verify"]
            recs == file.recs
            acked == AcknowledgedCandidates(recs)
            shredded == ShreddedTargets(recs)
            Sound(i) == \A item \in ver.advisory :
                            item[2] = recs[i].seq =>
                                item[1] \notin {"reference_unresolved", "reference_hash_mismatch",
                                    "ack_target_not_a_candidate", "shred_target_unresolved",
                                    "shred_target_key_mismatch"}
            acks == {i \in 1..Len(recs) : KindOf(recs[i]) = "ACK" /\ recs[i].body.ref # NoSeq}
            shreds == {i \in 1..Len(recs) : recs[i].type = "KEY_SHRED" /\ Legible(recs[i])}
        IN  /\ DOMAIN acked = {recs[i].body.ref : i \in {j \in acks : Sound(j)}}
            /\ \A s \in DOMAIN acked :
                  \E i \in acks : Sound(i) /\ recs[i].seq = acked[s] /\ recs[i].body.ref = s
            /\ DOMAIN acked \cup Unacknowledged(recs)
                  = {recs[i].seq : i \in {j \in 1..Len(recs) : KindOf(recs[j]) = "CANDIDATE"}}
            /\ \A i \in shreds : Sound(i) => recs[i].body.targets \subseteq DOMAIN shredded
            /\ \A s \in DOMAIN shredded :
                  \E i \in shreds : /\ recs[i].seq = shredded[s] /\ s \in recs[i].body.targets
                                    /\ recs[i].body.targets = {s} => Sound(i)
=============================================================================
