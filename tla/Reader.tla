------------------------------- MODULE Reader -------------------------------
(***************************************************************************)
(* AuditReader (audit/reader.py): what a finished PALA-1 file is said to   *)
(* hold.  The walk has already cut the file into recs, the records, and    *)
(* tail, what is behind the last whole one.  Some answers are computed in  *)
(* two ways: in place, from the bytes, by a reader that is cold, and from  *)
(* the decoded records by one that is warm.                                *)
(***************************************************************************)
EXTENDS Verifiers

KindBearing == {"EVENT", "SAFETY"}
Referencing == {"CANDIDATE", "ACK", "RESULT", "GUARD"}

NoBody == [form |-> "none", first |-> FALSE, kind |-> "none", ref |-> NoSeq, hash |-> NoHash,
           targets |-> {}, index |-> NoSeq, root |-> <<>>]

-----------------------------------------------------------------------------
(* Decoding one record.                                                     *)

\* Header.decode accepts the header.
Decodes(r) == r.ver = 1 /\ r.flaw # "malformed_tlv"

\* There are body_tlvs: the body is there, in the clear, and of whole TLVs.
Legible(r) == Decodes(r) /\ r.key = 0 /\ r.body.form \in {"ok", "narrow"}

KindOf(r) == IF Legible(r) /\ r.type \in KindBearing THEN r.body.kind ELSE "none"

\* decode_continuation: all four SEG_ tags, each as wide as it has to be.
IsContinuation(r) == KindOf(r) = "CONT" /\ r.body.form = "ok"

\* The same from bytes in place.
KindInPlace(r) ==
    IF Decodes(r) /\ r.key = 0 /\ r.body # NoBody /\ r.body.form # "torn" /\ r.type \in KindBearing
    THEN r.body.kind ELSE "none"

\* Seeded fault: a body that does not open with its kind has none.
KindProbe_FirstOnly(r, warm) ==
    IF warm THEN KindOf(r)
    ELSE IF r.type \in KindBearing /\ r.key = 0 /\ r.body.first THEN r.body.kind ELSE "none"

\* A cold reader takes the kind from the first TLV of a clear body, without a
\* look at the header's TLVs or at the rest of the body.
KindProbe(r, warm) ==
    IF ~warm /\ r.type \in KindBearing /\ r.key = 0 /\ r.body.first THEN r.body.kind ELSE KindOf(r)

-----------------------------------------------------------------------------
(* References, continuations and shreds.                                    *)

LargestOf(S) == CHOOSE i \in S : \A j \in S : j <= i
SmallestOf(S) == CHOOSE i \in S : \A j \in S : i <= j

WithSeq(recs, s) == {i \in 1..Len(recs) : recs[i].seq = s}

\* pos_by_seq keeps the last position of a seq, 0 for none ...
Position(recs, s) == IF WithSeq(recs, s) = {} THEN 0 ELSE LargestOf(WithSeq(recs, s))

\* ... and record_by_seq the first.
FirstPosition(recs, s) == IF WithSeq(recs, s) = {} THEN 0 ELSE SmallestOf(WithSeq(recs, s))

Kept(recs) == {Position(recs, recs[i].seq) : i \in 1..Len(recs)}

\* Seeded fault: a reference is resolved by the seq alone.
Resolves_BySeq(recs, b) == Position(recs, b.ref) # 0

\* _hash_verified_target: the record with the seq is the one that was meant.
Resolves(recs, b) == Position(recs, b.ref) # 0 /\ Hash(recs[Position(recs, b.ref)]) = b.hash

\* What is wrong with the reference of recs[i].
ReferenceFault(recs, i, warm) ==
    LET b == recs[i].body
        at == Position(recs, b.ref)
        Kind(r) == IF warm THEN KindOf(r) ELSE KindInPlace(r)
        Meant(kinds, target) == Kind(recs[i]) \in kinds => Kind(recs[at]) = target
    IN  CASE at = 0 -> "reference_unresolved"
          [] at # 0 /\ Hash(recs[at]) # b.hash -> "reference_hash_mismatch"
          [] at # 0 /\ Hash(recs[at]) = b.hash /\ ~Meant({"ACK"}, "CANDIDATE") ->
                "ack_target_not_a_candidate"
          [] at # 0 /\ Hash(recs[at]) = b.hash /\ ~Meant({"RESULT", "GUARD"}, "CALL") ->
                "tool_target_not_a_call"
          [] OTHER -> "none"

\* A reference may be left out; what cannot be parsed has none.
ReferenceItems(recs, i, warm) ==
    LET fault == ReferenceFault(recs, i, warm)
    IN  IF ~Legible(recs[i]) \/ recs[i].body.ref = NoSeq \/ fault = "none" THEN {}
        ELSE {<<fault, recs[i].seq>>}

ShredItems(recs, i) ==
    LET r == recs[i]
        KeyOf(t) == IF Decodes(recs[t]) THEN recs[t].key ELSE NoKey
        Item(s) == LET t == Position(recs, s)
                   IN  CASE t = 0 -> {<<"shred_target_unresolved", r.seq>>}
                         [] t # 0 /\ r.shred # NoKey /\ KeyOf(t) # r.shred ->
                               {<<"shred_target_key_mismatch", r.seq>>}
                         [] OTHER -> {}
    IN  IF Legible(r) THEN UNION {Item(s) : s \in r.body.targets} ELSE {}

FullChain(recs) == recs # <<>> /\ recs[1].seq = 0 /\ recs[1].type = "GENESIS"

\* The derived root of the first n records stands for their hashes.
RootOf(recs, n) == [i \in 1..n |-> Hash(recs[i])]

\* _check_continuations, of the records at these positions.
ContinuationItems(recs, at) ==
    LET views == {i \in at : IsContinuation(recs[i])}
        Before(i) == {j \in views : j < i}
        Index(i) == recs[i].body.index
        Previous(i) == Index(LargestOf(Before(i)))
        Items(code, S) == {<<code, recs[i].seq>> : i \in S}
    IN  Items("continuation_malformed", at \ views)
        \cup Items("continuation_predecessor_mismatch",
                   {i \in views : recs[i].body.hash # recs[i].prev})
        \cup Items("continuation_index_not_increasing",
                   {i \in views : Before(i) # {} /\ Index(i) <= Previous(i)})
        \cup Items("continuation_index_gap",
                   {i \in views : /\ FullChain(recs) /\ Before(i) # {}
                                  /\ Index(i) > Previous(i) + 1})
        \cup Items("continuation_prior_root_mismatch",
                   {i \in views : /\ FullChain(recs) /\ recs[i].seq < Len(recs)
                                  /\ recs[i].body.root # RootOf(recs, recs[i].seq)})

\* _referential_advisories.
ReferentialAdvisories(recs, warm) ==
    LET shreds == {i \in Kept(recs) : recs[i].type = "KEY_SHRED"}
        Probed(kinds) == {i \in Kept(recs) : KindProbe(recs[i], warm) \in kinds}
    IN  UNION {ShredItems(recs, i) : i \in shreds}
        \cup UNION {ReferenceItems(recs, i, warm) : i \in Probed(Referencing)}
        \cup ContinuationItems(recs, Probed({"CONT"}))

-----------------------------------------------------------------------------
(* The two loops that close: acknowledged_candidates and shredded_targets.  *)

\* A map from seqs; of several entries for one the last stays.
Mapped(pairs, Order(_)) ==
    [s \in {p[1] : p \in pairs} |->
        (CHOOSE p \in pairs : p[1] = s /\ \A q \in pairs : q[1] = s => Order(q[2]) <= Order(p[2]))[2]]

Safety(recs) == SelectSeq(recs, LAMBDA r : r.type = "SAFETY")

\* Only SAFETY records take part; they are gone through in the order in which
\* their seqs are first met.
AcknowledgedCandidates(recs) ==
    LET safety == Safety(recs)
        Target(i) == safety[Position(safety, safety[i].body.ref)]
        acks == {i \in Kept(safety) : /\ KindOf(safety[i]) = "ACK"
                                      /\ safety[i].body.ref # NoSeq
                                      /\ Resolves(safety, safety[i].body)
                                      /\ KindOf(Target(i)) = "CANDIDATE"}
    IN  Mapped({<<Target(i).seq, safety[i].seq>> : i \in acks},
               LAMBDA s : FirstPosition(safety, s))

\* Seeded fault: whose key it was is not looked at.
Shreds_AnyKey(recs, i, t) == t # 0

\* The record at t was under the key that the one at i destroys; one that names
\* no key destroys all it names.
Shreds(recs, i, t) ==
    /\ t # 0
    /\ recs[i].shred # NoKey => Decodes(recs[t]) /\ recs[t].key = recs[i].shred

ShreddedTargets(recs) ==
    LET shreds == {i \in Kept(recs) : recs[i].type = "KEY_SHRED" /\ Legible(recs[i])}
        pairs == UNION {{<<s, recs[i].seq>> :
                            s \in {t \in recs[i].body.targets : Shreds(recs, i, Position(recs, t))}} :
                         i \in shreds}
    IN  Mapped(pairs, LAMBDA s : FirstPosition(recs, s))

-----------------------------------------------------------------------------
(* The structural views: boots and spans.                                   *)

Readable(recs) == {i \in 1..Len(recs) : Decodes(recs[i])}

SeqsOf(recs, S) == SeqsWhere(recs, LAMBDA i : i \in S)

\* A recovery is told where it can be: right behind a BOOT.
RecoveryAt(recs, i, warm) ==
    /\ i - 1 \in Readable(recs) /\ recs[i - 1].type = "BOOT"
    /\ recs[i].type = "EVENT"
    /\ KindProbe(recs[i], warm) = "RECOVERY"

BootView(recs, boot, warm) ==
    LET mine == {i \in Readable(recs) : recs[i].boot = boot}
        recovered == {i \in mine : RecoveryAt(recs, i, warm)}
    IN  [first |-> recs[SmallestOf(mine)].seq, last |-> recs[LargestOf(mine)].seq,
         count |-> Cardinality(mine),
         recovery |-> IF recovered = {} THEN NoSeq ELSE recs[LargestOf(recovered)].seq]

\* A span without its start begins where it is first referred to.
SpanView(recs, span) ==
    LET mine == {i \in Readable(recs) : recs[i].span = span}
        Last(type) == LET of == {i \in mine : recs[i].type = type}
                      IN  IF of = {} THEN NoSeq ELSE recs[LargestOf(of)].seq
    IN  [start |-> IF Last("SPAN_START") = NoSeq THEN recs[SmallestOf(mine)].seq
                                                 ELSE Last("SPAN_START"),
         end |-> Last("SPAN_END"), seqs |-> SeqsOf(recs, mine)]

Structure(recs, warm) ==
    [boots |-> [b \in {recs[i].boot : i \in Readable(recs)} |-> BootView(recs, b, warm)],
     spans |-> [s \in {recs[i].span : i \in Readable(recs)} \ {ZeroSpan} |-> SpanView(recs, s)]]

-----------------------------------------------------------------------------
(* The origin in force at a seq, from an index that is built once.          *)

\* An EVENT that loads or unloads a model, or carries a model's digest.
Sets(r, kind) == r.type = "EVENT" /\ (kind \in {"LOAD", "UNLOAD"} \/ r.origin)

Ascending(S) == [k \in 1..Cardinality(S) |-> CHOOSE i \in S : Cardinality({j \in S : j < i}) = k - 1]

\* _build_origin_index: positions, how far their seqs reach, and the setters.
OriginIndex(recs, warm) ==
    LET positions == Ascending(Readable(recs))
        Top(k) == LargestOf({recs[positions[j]].seq : j \in 1..k})
        setters == Ascending({i \in Readable(recs) : Sets(recs[i], KindProbe(recs[i], warm))})
    IN  [positions |-> positions,
         reach |-> [k \in 1..Len(positions) |-> Top(k)],
         setters |-> setters,
         unloads |-> [k \in 1..Len(setters) |-> KindProbe(recs[setters[k]], warm) = "UNLOAD"]]

\* bisect_right: how many entries of a sorted list are not beyond s.
Bisect(reach, s) == Cardinality({k \in DOMAIN reach : reach[k] <= s})

Never == [since |-> NoSeq, unloaded |-> FALSE]

\* _origin_state_at: two binary searches.
OriginAt(recs, index, s) ==
    LET k == Bisect(index.reach, s)
        cutoff == IF k < Len(index.positions) THEN index.positions[k + 1] ELSE Len(recs) + 1
        j == Cardinality({m \in DOMAIN index.setters : index.setters[m] < cutoff})
    IN  CASE j = 0 -> Never
          [] j > 0 /\ index.unloads[j] -> [Never EXCEPT !.unloaded = TRUE]
          [] OTHER -> [Never EXCEPT !.since = recs[index.setters[j]].seq]

\* What it stands for: the walk over the decoded records in file order, up to
\* the first whose seq is beyond s.
OriginWalk(recs, s) ==
    LET beyond == {i \in Readable(recs) : recs[i].seq > s}
        within == {i \in Readable(recs) : \A j \in beyond : i < j}
        setters == {i \in within : Sets(recs[i], KindOf(recs[i]))}
        r == recs[LargestOf(setters)]
    IN  CASE setters = {} -> Never
          [] setters # {} /\ KindOf(r) = "UNLOAD" -> [Never EXCEPT !.unloaded = TRUE]
          [] OTHER -> [Never EXCEPT !.since = r.seq]
=============================================================================
