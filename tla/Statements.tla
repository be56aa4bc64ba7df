----------------------------- MODULE Statements -----------------------------
(***************************************************************************)
(* Statements about a chain for those who do not hold it                   *)
(* (audit/pala/scitt.py): a COSE_Sign1 message that commits to the chain's *)
(* head and a range of it (v2), and to the root over all its records (v3). *)
(* The module has what the product builds and reads, the statements that   *)
(* another issuer may sign, by mistake or otherwise, and what becomes of a *)
(* message on its way; and the reader of run B3, which was written from    *)
(* the specification alone (independent-runs/turak/scitt-statement-b3).    *)
(*                                                                         *)
(* A digest and a signature hold what they were made of.                   *)
(***************************************************************************)
EXTENDS Evidence, Cbor

CONSTANT MaxStated  \* bound: records of a chain that statements are drafted over

VARIABLE draft      \* the statement on its way, or NoDraft

EdDSA == -8
ES256 == -7
Own == [name |-> "own", alg |-> EdDSA]
OwnEC == [name |-> "own", alg |-> ES256]
Other == [name |-> "other", alg |-> EdDSA]

HeadType == Text("head")
HeadTypeV3 == Text("head-v3")
FormatId == Text("pala-1/v1.0")
Issuer == Text("issuer")
ProtectedLabels == {1, 3, 4, 15}

\* The head of the first n records, and heads that differ from it in a byte.
HeadOf(n) == Bytes(32, <<n, "as hashed">>)
FlippedAt(byte, head) == Bytes(32, <<head[3][1], byte>>)

RootBytes(root) == Bytes(32, root)
ZeroRoot == Bytes(32, <<3>>)
NoRoot == Absent

\* The subject names the chain by its whole head.
Subject(head) == <<"subject", head>>
Claims(subject) == <<"claims", Issuer, subject>>

-----------------------------------------------------------------------------
(* What the product builds.                                                 *)

\* Seeded fault: the key's fields are ordered as numbers.
Thumbprint_Numeric(key) ==
    Bytes(32, Map(SortSeq(<<<<1, key.alg>>, <<-1, key.alg>>, <<-2, key.name>>>>,
                          LAMBDA a, b : a[1] < b[1])))

\* _cose_key_thumbprint: a digest of the key's fields, encoded canonically.
Thumbprint(key) ==
    Bytes(32, Map(Sorted(<<<<1, key.alg>>, <<-1, key.alg>>, <<-2, key.name>>>>)))

Signature(key, protected, payload) ==
    [by |-> key, protected |-> protected, payload |-> payload, form |-> "plain"]

\* The signature is over the structure that the verifier puts together.  S + L
\* passes only a verifier that does not look at the range of S.
Verifies(key, protected, payload, sig, canonicalS) ==
    /\ sig.by = key /\ sig.protected = protected /\ sig.payload = payload
    /\ sig.form = "plain" \/ (sig.form = "S + L" /\ ~canonicalS)

\* tag is 0 for a message without one; long, if the head of the protected
\* string is longer than need be; rest, what follows the message.
Tagged(protected, payload, sig) ==
    [tag |-> 18, long |-> FALSE, rest |-> "none", protected |-> protected,
     unprotected |-> <<>>, payload |-> payload, sig |-> sig]

Nil == [head |-> "nil", entries |-> <<>>]

Header(key, type, claims) ==
    <<<<1, Number(key.alg)>>, <<3, type>>, <<4, Thumbprint(key)>>, <<15, claims>>>>

CoseSign1(payload, key, claims, type) ==
    LET protected == Map(Header(key, type, claims))
    IN  Tagged(protected, payload, Signature(key, protected, payload))

\* head_payload refuses any other range.
ValidRange(first, last) == 0 <= first /\ first <= last

HeadPayload(head, first, last, root) ==
    Map(<<<<1, head>>, <<2, Number(first)>>, <<3, Number(last)>>, <<4, FormatId>>>>
        \o IF root = NoRoot THEN <<>> ELSE <<<<5, root>>>>)

BuildSignedStatement(head, first, last, key, root) ==
    CoseSign1(HeadPayload(head, first, last, root), key, Claims(Subject(head)),
              IF root = NoRoot THEN HeadType ELSE HeadTypeV3)

-----------------------------------------------------------------------------
(* What the product reads.                                                  *)

\* A reader's records, or none at hand.
NoChain == [held |-> FALSE, hashes |-> <<>>]
Chain(hashes) == [held |-> TRUE, hashes |-> hashes]

\* proofs.chain_root, over the records that this reader has.
ReaderRoot(c, count) == RootBytes(Root(FromRecordHashes(SubSeq(c.hashes, 1, count))))

DistinctKeys(e) == e.head \in {"short", "long"} /\ Distinct(e)

\* External: what cbor2 does with bytes after a message is not said here.
CoseVerify1(m, key) ==
    /\ m.tag = 18 /\ m.payload # Nil
    /\ Latest(m.protected, 1) = Number(key.alg)
    /\ Verifies(key, m.protected, m.payload, m.sig, TRUE)

\* Seeded fault: the order of first and last is not looked at.
RangeStated_AnyOrder(p) == Latest(p, 2)[1] = "int" /\ Latest(p, 3)[1] = "int"

RangeStated(p) == /\ Latest(p, 2)[1] = "int" /\ Latest(p, 3)[1] = "int"
                  /\ ValidRange(Latest(p, 2)[2], Latest(p, 3)[2])

\* The construction that the signed type names.
Version(type) == CASE type = HeadType -> "v2" [] type = HeadTypeV3 -> "v3" [] OTHER -> "none"
KeysIn(version) == IF version = "v3" THEN 1..5 ELSE 1..4

Is32Bytes(value) == value[1] = "bytes" /\ value[2] = 32

\* All that verify_statement asks of a statement by itself.
Understood(m, key, head) ==
    LET version == Version(Latest(m.protected, 3)) IN
    /\ CoseVerify1(m, key)
    /\ IsMap(m.payload) /\ DistinctKeys(m.payload)
    /\ Latest(m.payload, 1) = head /\ Latest(m.payload, 4) = FormatId
    /\ RangeStated(m.payload)
    /\ DistinctKeys(m.protected)
    /\ version # "none" /\ KeySet(m.payload) = KeysIn(version)
    /\ version = "v3" => Is32Bytes(Latest(m.payload, 5))
    /\ KeySet(m.protected) = ProtectedLabels

Outcome(version, status) == [version |-> version, root |-> status]
Refused == Outcome("none", "none")

\* Not a refusal but an error of cbor2's, or of a header that is no map.
Raised == Outcome("none", "raised")

\* Seeded fault: the root is that of all records at hand.
RootMatches_Whole(p, c) == /\ Latest(p, 3)[2] + 1 <= Len(c.hashes)
                           /\ Latest(p, 5) = ReaderRoot(c, Len(c.hashes))

\* The root is that of records 0..last, which the reader must have.
RootMatches(p, c) == /\ Latest(p, 3)[2] + 1 <= Len(c.hashes)
                     /\ Latest(p, 5) = ReaderRoot(c, Latest(p, 3)[2] + 1)

VerifyStatement(m, key, head, c) ==
    LET version == Version(Latest(m.protected, 3))
    IN  CASE m.rest = "cut" \/ (m.tag = 18 /\ ~IsMap(m.protected)) -> Raised
          [] ~Understood(m, key, head) -> Refused
          [] version = "v2" -> Outcome("v2", "absent")
          [] ~c.held -> Outcome("v3", "carried")
          [] OTHER -> IF RootMatches(m.payload, c) THEN Outcome("v3", "recomputed") ELSE Refused

-----------------------------------------------------------------------------
(* What run B3 reads (scitt_verify_v3.py).                                  *)

\* parse_sign1: one strictly encoded item, tagged 18 if a tag is asked for.
ParseSign1(m, strict, require_tag) ==
    /\ m.rest = "none" /\ (strict => ~m.long)
    /\ IF require_tag THEN m.tag = 18 ELSE m.tag \in {0, 18}

SignedB3(m, key) == /\ m.payload # Nil /\ m.sig.form # "63 bytes"
                    /\ Verifies(key, m.protected, m.payload, m.sig, TRUE)

IsNatural(value) == value[1] = "int" /\ value[2] >= 0

\* The version rule and the rest of what the statement alone decides.
UnderstoodB3(m, key) ==
    LET p == m.payload
        version == Version(First(m.protected, 3))
    IN  /\ ParseSign1(m, TRUE, TRUE) /\ SignedB3(m, key)
        /\ Loads(m.protected, TRUE) /\ Loads(p, TRUE)
        /\ IsMap(m.protected) /\ IsMap(p)
        /\ First(m.protected, 1) = Number(EdDSA) /\ version # "none"
        /\ First(m.protected, 4)[1] = "bytes"
        /\ KeysOf(p) = [i \in KeysIn(version) |-> i]
        /\ version = "v3" => Is32Bytes(First(p, 5))
        /\ Is32Bytes(First(p, 1)) /\ First(p, 4) = FormatId
        /\ IsNatural(First(p, 2)) /\ IsNatural(First(p, 3))
        /\ First(p, 2)[2] <= First(p, 3)[2]

\* derived_root: the tree from the bottom up.
DerivedRoot(hashes) == RootBytes(MerkleRoot(hashes))

RootStatus(p, c) ==
    CASE ~c.held -> "carried"
      [] c.held /\ Len(c.hashes) <= First(p, 3)[2] -> "chain-too-short"
      [] OTHER -> IF First(p, 5) = DerivedRoot(SubSeq(c.hashes, 1, First(p, 3)[2] + 1))
                  THEN "recomputed-ok" ELSE "recomputed-mismatch"

\* ok and what it found; a chain that is too short does not make it refuse.
ReadStatement(m, key, c) ==
    LET version == IF UnderstoodB3(m, key) THEN Version(First(m.protected, 3)) ELSE "none"
        status == IF version = "v3" THEN RootStatus(m.payload, c) ELSE "none"
    IN  [ok |-> version # "none" /\ status # "recomputed-mismatch",
         version |-> version, root |-> status]

-----------------------------------------------------------------------------
(* Consistency of two statements, without the chain.                        *)

\* One step of section 2.1.4.2 of RFC 9162, as merkle.py has it.
StepB3(c, node) ==
    LET left == c.fn % 2 = 1 \/ c.fn = c.sn
        joined == IF left THEN [c EXCEPT !.fr = NodeHash(node, @), !.sr = NodeHash(node, @)]
                  ELSE [c EXCEPT !.sr = NodeHash(@, node)]
    IN  IF c.sn = 0 THEN [c EXCEPT !.ok = FALSE]
        ELSE Shift(IF left THEN ShiftEven(joined) ELSE joined)

\* Roots of one size have no proof here, and no path is no proof.
VerifyConsistencyB3(first, second, firstRoot, secondRoot, proof) ==
    /\ 0 < first /\ first < second /\ proof # <<>>
    /\ LET path == IF PowerOfTwo(first) THEN <<firstRoot>> \o proof ELSE proof
           start == ShiftOdd([fn |-> first - 1, sn |-> second - 1, ok |-> TRUE,
                              fr |-> path[1], sr |-> path[1]])
           end == FoldLeft(StepB3, start, Tail(path))
       IN  end.ok /\ end.fr = firstRoot /\ end.sr = secondRoot /\ end.sn = 0

\* The sizes and the roots come from the two payloads.
Size(m) == First(m.payload, 3)[2] + 1
StatedRoot(m) == First(m.payload, 5)[3]

ChainlessConsistencyCheck(earlier, later, path, key) ==
    /\ ReadStatement(earlier, key, NoChain).version = "v3"
    /\ ReadStatement(later, key, NoChain).version = "v3"
    /\ VerifyConsistencyB3(Size(earlier), Size(later), StatedRoot(earlier), StatedRoot(later),
                           path)

\* With the product's verifiers: its reading of both statements, and
\* ConsistencyProof.verify over the sizes and roots they carry.
ProductConsistencyCheck(earlier, later, path, key) ==
    /\ VerifyStatement(earlier, key, First(earlier.payload, 1), NoChain).version = "v3"
    /\ VerifyStatement(later, key, First(later.payload, 1), NoChain).version = "v3"
    /\ VerifyConsistency(Size(earlier), Size(later), StatedRoot(earlier), StatedRoot(later),
                         path)

-----------------------------------------------------------------------------
(* Statements on their way.                                                 *)

NoDraft == [carried |-> "none"]

\* The root that a writer states, and what may be mistaken for it.
WholeRoot == RootBytes(ChainRoot(Len(chain)))
RootOf(hashes) == RootBytes(MerkleRoot(hashes))

With5(p, root) == Map(SubSeq(p.entries, 1, 4) \o <<<<5, root>>>>)
Set(p, key, value) ==
    Map([i \in DOMAIN p.entries |-> IF p.entries[i][1] = key THEN <<key, value>> ELSE p.entries[i]])
Add(e, key, value) == Map(Append(e.entries, <<key, value>>))
Drop(e, key) == Map(SelectSeq(e.entries, LAMBDA x : x[1] # key))
Headed(e, head) == [e EXCEPT !.head = head]

Plain(first, version) ==
    HeadPayload(HeadOf(Len(chain)), first, Len(chain) - 1,
                IF version = "v3" THEN WholeRoot ELSE NoRoot)

\* External: the payloads that an issuer may sign.
Payloads(first, version) ==
    LET p == Plain(first, version)
        n == Len(chain)
    IN  [plain |-> p,
         descending |-> Map(Reverse(p.entries)),
         key_twice |-> Add(p, Last(p.entries)[1], ZeroRoot),
         inverted |-> Set(Set(p, 2, Number(n)), 3, Number(n - 1)),
         last_text |-> Set(p, 3, Text("last")),
         other_head |-> Set(p, 1, HeadOf(n + 1)),
         other_format |-> Set(p, 4, Text("other")),
         long_head |-> Headed(p, "long"),
         indefinite |-> Headed(p, "indefinite"),
         no_map |-> Headed(Map(<<>>), "no_map"),
         root_31 |-> With5(p, Bytes(31, <<3>>)),
         root_zero |-> With5(p, ZeroRoot),
         root_of_range |-> With5(p, RootOf(Hashes(first + 1, n))),
         root_of_less |-> With5(p, RootOf(Hashes(1, n - 1))),
         root_of_more |-> With5(p, RootOf(Hashes(1, n + 1)))]

\* External: the headers that an issuer may sign; "bare" is the one that run B1
\* found, with part of the head for a subject.
Headers(key, type) ==
    LET h == Map(Header(key, type, Claims(Subject(HeadOf(Len(chain))))))
    IN  [plain |-> h,
         descending |-> Map(Reverse(h.entries)),
         bare |-> Map(<<<<1, Number(key.alg)>>, <<15, Claims(<<"first 8 bytes", Len(chain)>>)>>>>),
         no_kid |-> Drop(h, 4),
         kid_text |-> Set(h, 4, Text("kid")),
         kid_twice |-> Add(h, 4, Bytes(1, "kid")),
         more |-> Add(h, 16, Text("type")),
         long_head |-> Headed(h, "long"),
         indefinite |-> Headed(h, "indefinite"),
         no_map |-> Headed(Map(<<>>), "no_map")]

\* External: what may become of a message on its way.
Carried(m) ==
    [tag_98 |-> [m EXCEPT !.tag = 98],
     untagged |-> [m EXCEPT !.tag = 0],
     longer_head |-> [m EXCEPT !.long = TRUE],
     cut_off |-> [m EXCEPT !.rest = "cut"],
     kid_outside |-> [m EXCEPT !.unprotected = <<<<4, Bytes(4, "kid")>>>>],
     payload_gone |-> [m EXCEPT !.payload = Nil],
     sig_flipped |-> [m EXCEPT !.sig.form = "flipped"],
     sig_63 |-> [m EXCEPT !.sig.form = "63 bytes"],
     sig_plus_L |-> [m EXCEPT !.sig.form = "S + L"],
     head_flipped |-> [m EXCEPT !.payload = Set(@, 1, FlippedAt("byte 0", First(@, 1)))],
     root_flipped |-> [m EXCEPT !.payload = Set(@, 5, Bytes(32, <<4>>))],
     head_inside |-> [m EXCEPT !.protected.head = "long"]]

\* What the records are is nothing to a statement: it is drafted, and the
\* history altered, over chains of events.
EventsOnly == \A i \in 2..Len(chain) : chain[i].kind = "EVENT"

MayState == draft = NoDraft /\ open /\ Len(chain) <= MaxStated /\ EventsOnly

\* build_signed_statement.
Publish ==
    /\ MayState
    /\ \E first \in 0..(Len(chain) - 1), key \in {Own, OwnEC}, root \in {NoRoot, WholeRoot} :
          draft' = [first |-> first, key |-> key, header |-> "plain", payload |-> "plain",
                    carried |-> "published",
                    message |-> BuildSignedStatement(HeadOf(Len(chain)), first, Len(chain) - 1,
                                                     key, root)]
    /\ UNCHANGED evidenceVars

\* External: another program's, with the same key or its own.
Sign ==
    /\ MayState
    /\ \E first \in 0..(Len(chain) - 1), key \in {Own, Other}, version \in {"v2", "v3"},
          type \in {HeadType, HeadTypeV3, Text("other")} :
          LET headers == Headers(key, type)
              payloads == Payloads(first, version)
          IN  \E h \in DOMAIN headers, p \in DOMAIN payloads :
                 /\ key = Other => h = "plain" /\ p = "plain"
                 /\ draft' = [first |-> first, key |-> key, header |-> h, payload |-> p,
                              carried |-> "signed",
                              message |-> Tagged(headers[h], payloads[p],
                                                 Signature(key, headers[h], payloads[p]))]
    /\ UNCHANGED evidenceVars

Carry ==
    /\ draft.carried = "published"
    /\ LET after == Carried(draft.message)
       IN  \E c \in DOMAIN after : draft' = [draft EXCEPT !.carried = c, !.message = after[c]]
    /\ UNCHANGED evidenceVars

StatementInit == EvidenceInit /\ draft = NoDraft

StatementNext == \/ draft = NoDraft /\ EvidenceNext /\ UNCHANGED draft
                 \/ Publish \/ Sign \/ Carry

StatementSpec == StatementInit /\ [][StatementNext]_<<evidenceVars, draft>>

-----------------------------------------------------------------------------
(* Properties.                                                              *)

\* Where the product reads what run B3's reader refuses: it takes ECDSA, any
\* definite head (of the message too), any order of the payload's keys, and any
\* key identifier.
ProductOnly(m) == \/ Latest(m.protected, 1) = Number(ES256)
                  \/ m.long \/ m.protected.head = "long" \/ m.payload.head = "long"
                  \/ ~Ascending(m.payload)
                  \/ First(m.protected, 4)[1] # "bytes"

\* Where it refuses what that reader takes: other labels and repeated ones in
\* the header, and a chain that does not reach the end of the statement.
B3Only(m, c) == \/ KeySet(m.protected) # ProtectedLabels \/ ~Distinct(m.protected)
                \/ c.held /\ KeySet(m.payload) = 1..5 /\ Len(c.hashes) < Size(m)

\* Whatever is signed and whatever happens to it on its way, the product and the
\* reader that was written from the specification alone take the same statements
\* for the same construction and say the same of their roots; but for the
\* differences that ProductOnly and B3Only list, each of which is one.
ReaderB3Agrees ==
    draft # NoDraft =>
      LET m == draft.message
          key == IF draft.key = OwnEC THEN OwnEC ELSE Own
          ours(c) == VerifyStatement(m, key, Latest(m.payload, 1), c)
          theirs(c) == ReadStatement(m, key, c)
      IN  \A c \in {NoChain} \cup {Chain(Hashes(1, n)) : n \in 0..(Len(chain) + 1)} :
             LET a == ours(c)
                 b == theirs(c)
                 read == a.version # "none"
             IN  /\ read => (b.ok <=> ~ProductOnly(m))
                 /\ b.ok => (read <=> ~B3Only(m, c))
                 /\ read /\ b.ok =>
                       /\ a.version = b.version
                       /\ <<a.root, b.root>> \in {<<"absent", "none">>, <<"carried", "carried">>,
                                                  <<"recomputed", "recomputed-ok">>}

\* What the product states of the first n records of a chain with these hashes.
StatementOf(hashes, n, first) ==
    BuildSignedStatement(Bytes(32, <<hashes[n], "as hashed">>), first, n - 1, Own,
                         RootBytes(Root(FromRecordHashes(SubSeq(hashes, 1, n)))))

\* The root that a statement carries is that of the history: recomputed by who
\* has the chain from its first record, exactly if none of the records that it
\* covers has been changed; and two statements and a proof show that the later
\* chain begins with the earlier one exactly if it does, the chain being in
\* nobody's hands.  Who has a later segment only recomputes no root.
RootIsHistory ==
    draft = NoDraft /\ ~open =>
      LET n == Len(chain) IN
      \A m \in 1..n :
        LET stated == StatementOf(Hashes(1, n), m, 0)
            rootFor(c) == VerifyStatement(stated, Own, HeadOf(m), c).root
        IN  /\ \A s \in Segments :
                  rootFor(Chain(Hashes(starts[s], End(s)))) = "recomputed" <=> s = 1 /\ m <= End(s)
            /\ EventsOnly => \A k \in 1..(n + 1) :
                  LET later == StatementOf(Altered(k), n, m - 1)
                      path == ConsistencyProof(Altered(k), m)
                  IN  /\ rootFor(Chain(Altered(k))) = "recomputed" <=> k > m
                      /\ ProductConsistencyCheck(stated, later, path, Own) <=> k > m
                      /\ ChainlessConsistencyCheck(stated, later, path, Own) <=> k > m /\ m < n
=============================================================================
