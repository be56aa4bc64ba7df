----------------------------- MODULE Verifiers -----------------------------
(***************************************************************************)
(* The chain rules of PALA-1 (section 7.1 of its specification), as the    *)
(* four verifiers of the repository carry them out over the headers of one *)
(* file: the incremental one that everything under src/ drives, the        *)
(* reference, and two that others wrote from the specification alone.      *)
(*                                                                         *)
(* A record is its header's fields, name, bound and body.  Where one       *)
(* record ends and another begins is settled by the walk before any of     *)
(* this, so that a header always has its magic and the length it tells.    *)
(***************************************************************************)
EXTENDS Integers, Sequences, FiniteSets

\* A hash stands for the header it was taken over: which record was written,
\* and what has been changed in its header since.
Name(of, edits) == [of |-> of, edits |-> edits]

Zero32 == Name(0, <<>>)              \* 32 zero bytes
NoHash == Name(0, <<Zero32>>)        \* None where a hash may be
NoSeq == -1                          \* None where a seq may be
NoKey == -1
ZeroSpan == "zero"                   \* 16 zero bytes

Hash(r) == r.name

\* A record of a version and of a type that the verifier claims to understand.
Interpretable(r) == r.ver = 1 /\ r.type # "UNKNOWN"

When(condition, item) == IF condition THEN <<item>> ELSE <<>>

\* The MUSTs about one header; the first of them are one field here, flaw, as
\* each is about bytes that nothing else depends on.
SemanticChecks(r, i) ==
    When(r.flaw \notin {"none", "malformed_tlv"}, <<r.seq, r.flaw>>)
    \o When(r.type = "GENESIS" /\ i # 1, <<r.seq, "genesis_not_first">>)

TlvCheck(r) == When(r.flaw = "malformed_tlv", <<r.seq, "malformed_tlv">>)

-----------------------------------------------------------------------------
(* IncrementalVerifier: one record after the other.                         *)

\* The advisory channel: clocks, spans and anchors.
NothingObserved == [observed |-> FALSE, anchor |-> FALSE, boot |-> "none", mono |-> 0,
                    started |-> {}, ended |-> {}, referenced |-> {}, items |-> {}]

\* setdefault: the first seq of a span stays.
Noted(pairs, span, seq) == IF \E p \in pairs : p[1] = span THEN pairs ELSE pairs \cup {<<span, seq>>}

\* A clock is compared within a boot only; wall clock and time trust likewise.
Observe(a, r) ==
    [a EXCEPT
        !.observed = TRUE,
        !.anchor = @ \/ r.type = "ANCHOR",
        !.started = IF r.span # ZeroSpan /\ r.type = "SPAN_START" THEN Noted(@, r.span, r.seq) ELSE @,
        !.ended = IF r.span # ZeroSpan /\ r.type = "SPAN_END" THEN @ \cup {r.span} ELSE @,
        !.referenced = IF r.span # ZeroSpan /\ r.type \notin {"SPAN_START", "SPAN_END"}
                       THEN Noted(@, r.span, r.seq) ELSE @,
        !.boot = r.boot,
        !.mono = r.mono,
        !.items = IF r.boot = a.boot /\ r.mono < a.mono
                  THEN @ \cup {<<"mono_regression_in_boot", r.seq>>} ELSE @]

Advisory(a) ==
    a.items
    \cup {<<"span_unclosed", p[2]>> : p \in {q \in a.started : q[1] \notin a.ended}}
    \cup {<<"span_unopened", p[2]>> :
             p \in {q \in a.referenced : \A s \in a.started : s[1] # q[1]}}
    \cup (IF a.observed /\ ~a.anchor THEN {<<"anchor_never_written", NoSeq>>} ELSE {})

\* start is the hash that the first record has to name, NoHash for a GENESIS.
Fresh(start) == [start |-> start, prev |-> IF start = NoHash THEN Zero32 ELSE start,
                 expected |-> NoSeq, count |-> 0, breaks |-> <<>>, gaps |-> <<>>,
                 violations |-> <<>>, uninterpretable |-> <<>>, seen |-> <<>>,
                 advisory |-> NothingObserved]

HasPredecessor(v) == v.count > 0 \/ v.start # NoHash

\* What is wrong with a first record where nothing precedes.
StartCheck(v, r) ==
    When(~HasPredecessor(v) /\ r.type # "GENESIS", <<0, "prefix_absent">>)
    \o When(~HasPredecessor(v) /\ r.type = "GENESIS" /\ r.prev # Zero32,
            <<r.seq, "genesis_prev_hash_nonzero">>)

\* Seeded fault: after a gap the seq before it is still expected.
NextExpected_Stuck(v, r) == IF v.expected = NoSeq \/ v.expected = r.seq THEN r.seq + 1 ELSE v.expected

NextExpected(v, r) == r.seq + 1

Step(v, r) ==
    [v EXCEPT
        !.breaks = @ \o When(HasPredecessor(v) /\ r.prev # v.prev, r.seq),
        !.gaps = @ \o When(v.expected \notin {NoSeq, r.seq}, r.seq),
        !.expected = NextExpected(v, r),
        !.violations = @ \o StartCheck(v, r)
                         \o (IF Interpretable(r)
                             THEN SemanticChecks(r, v.count + 1) \o TlvCheck(r) ELSE <<>>),
        !.uninterpretable = @ \o When(~Interpretable(r), r.seq),
        !.advisory = IF r.ver = 1 THEN Observe(@, r) ELSE @,
        !.prev = Hash(r),
        !.seen = Append(@, Hash(r)),
        !.count = @ + 1]

Stepped(recs, start) ==
    LET after[i \in 0..Len(recs)] == IF i = 0 THEN Fresh(start) ELSE Step(after[i - 1], recs[i])
    IN  after[Len(recs)]

FirstIn(s, x) == CHOOSE i \in DOMAIN s : s[i] = x /\ \A j \in 1..(i - 1) : s[j] # x

\* Completeness to an anchor, NoHash for none: whether it was checked and
\* holds, and how many records there are behind the anchored one.
Completeness(seen, head, expected) ==
    [complete |-> CASE expected = NoHash -> "unchecked"
                    [] expected = head -> "yes"
                    [] OTHER -> "no",
     lag |-> IF expected # head /\ \E i \in DOMAIN seen : seen[i] = expected
             THEN Len(seen) - FirstIn(seen, expected) ELSE NoSeq]

ChainOk(v) == v.breaks = <<>> /\ v.gaps = <<>> /\ v.violations = <<>>

\* verify_headers_with_advisory.
VerifyHeaders(recs, start, expected) ==
    LET v == Stepped(recs, start)
        c == Completeness(v.seen, v.prev, expected)
    IN  [ok |-> ChainOk(v), count |-> v.count, head |-> v.prev, breaks |-> v.breaks,
         gaps |-> v.gaps, violations |-> v.violations, uninterpretable |-> v.uninterpretable,
         complete |-> c.complete, lag |-> c.lag, advisory |-> Advisory(v.advisory)]

-----------------------------------------------------------------------------
(* The same rules over the whole sequence: what each of the others reports. *)

Hashes(recs) == [i \in 1..Len(recs) |-> Hash(recs[i])]

HeadHash(recs) == IF recs = <<>> THEN Zero32 ELSE Hash(recs[Len(recs)])

\* The seqs of the positions with P, in order.
SeqsWhere(recs, P(_)) ==
    LET at == SelectSeq([i \in 1..Len(recs) |-> i], P)
    IN  [k \in 1..Len(at) |-> recs[at[k]].seq]

\* The concatenation of the lists of all positions.
Gathered(recs, Of(_)) ==
    LET upto[i \in 0..Len(recs)] == IF i = 0 THEN <<>> ELSE upto[i - 1] \o Of(i)
    IN  upto[Len(recs)]

Unlinked(recs, i) == i > 1 /\ recs[i].prev # Hash(recs[i - 1])
Jumps(recs, i) == i > 1 /\ recs[i].seq # recs[i - 1].seq + 1

Reference(recs, expected) ==
    LET Wrong(i) == LET r == recs[i] IN
            When(i = 1 /\ r.type # "GENESIS", <<0, "prefix_absent">>)
            \o When(i = 1 /\ r.type = "GENESIS" /\ r.prev # Zero32,
                    <<r.seq, "genesis_prev_hash_nonzero">>)
            \o (IF Interpretable(r) THEN SemanticChecks(r, i) \o TlvCheck(r) ELSE <<>>)
    IN  [breaks |-> SeqsWhere(recs, LAMBDA i : Unlinked(recs, i)),
         gaps |-> SeqsWhere(recs, LAMBDA i : Jumps(recs, i)),
         violations |-> Gathered(recs, Wrong),
         uninterpretable |-> SeqsWhere(recs, LAMBDA i : ~Interpretable(recs[i])),
         head |-> HeadHash(recs),
         answer |-> Completeness(Hashes(recs), HeadHash(recs), expected)]

\* Run by Kurdybaylo: a GENESIS that is not first counts also where the record
\* is of a version that is not understood.
Kurdybaylo(recs, expected) ==
    LET Wrong(i) == LET r == recs[i] IN
            When(i = 1 /\ r.type # "GENESIS", <<0, "prefix_absent">>)
            \o When(i = 1 /\ r.type = "GENESIS" /\ r.prev # Zero32,
                    <<r.seq, "genesis_prev_hash_nonzero">>)
            \o When(i > 1 /\ r.type = "GENESIS", <<r.seq, "genesis_not_first">>)
            \o (IF Interpretable(r) THEN When(r.flaw # "none", <<r.seq, r.flaw>>) ELSE <<>>)
    IN  [Reference(recs, expected) EXCEPT !.violations = Gathered(recs, Wrong)]

\* Run by Oleksandr: the same, and a first record that names a predecessor is a
\* violation and a break, whatever its type; a chain without its prefix is one
\* at the seq of its first record.
Oleksandr(recs, expected) ==
    LET Wrong(i) == LET r == recs[i] IN
            When(i = 1 /\ r.type # "GENESIS", <<r.seq, "prefix_absent">>)
            \o When(i = 1 /\ r.prev # Zero32, <<r.seq, "genesis_prev_hash_nonzero">>)
            \o When(i > 1 /\ r.type = "GENESIS", <<r.seq, "genesis_not_first">>)
            \o (IF Interpretable(r) THEN When(r.flaw # "none", <<r.seq, r.flaw>>) ELSE <<>>)
    IN  [Reference(recs, expected) EXCEPT
            !.breaks = When(recs # <<>> /\ recs[1].prev # Zero32, recs[1].seq) \o @,
            !.violations = Gathered(recs, Wrong)]
=============================================================================
