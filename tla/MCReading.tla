----------------------------- MODULE MCReading -----------------------------
\* Reading for TLC: six small logs, and what an auditor may bring.
EXTENDS Reading

H(i) == Name(i, <<>>)

Rec(type) == [name |-> Zero32, ver |-> 1, type |-> type, seq |-> 0, boot |-> "b1", prev |-> Zero32,
              span |-> ZeroSpan, mono |-> 0, key |-> 0, flaw |-> "none", origin |-> FALSE,
              shred |-> NoKey, bound |-> TRUE, body |-> NoBody]

Kinded(kind) == [NoBody EXCEPT !.form = "ok", !.first = TRUE, !.kind = kind]

Of(type, kind) == [Rec(type) EXCEPT !.body = Kinded(kind)]

To(r, i, hash) == [r EXCEPT !.body.ref = i - 1, !.body.hash = hash]

Shred(key, targets) == [Rec("KEY_SHRED") EXCEPT !.shred = key, !.body.form = "ok",
                                                !.body.targets = targets]

Tools == <<Rec("GENESIS"), Of("EVENT", "CALL"), To(Of("EVENT", "RESULT"), 2, H(2)),
           To(Of("SAFETY", "GUARD"), 2, H(2))>>

Oversight == <<Rec("GENESIS"), Of("SAFETY", "CANDIDATE"), To(Of("SAFETY", "ACK"), 2, H(2)),
               To(Of("SAFETY", "ACK"), 2, H(1))>>

\* The kind of the second record is not the first TLV of its body.
Models == <<Rec("GENESIS"), [Of("EVENT", "LOAD") EXCEPT !.body.first = FALSE],
            Of("EVENT", "UNLOAD"), [Of("EVENT", "other") EXCEPT !.origin = TRUE]>>

Boots == <<Rec("GENESIS"), [Rec("SPAN_START") EXCEPT !.span = "s1"],
           [Rec("BOOT") EXCEPT !.boot = "b2"], [Of("EVENT", "RECOVERY") EXCEPT !.boot = "b2"],
           [Rec("SPAN_END") EXCEPT !.span = "s1", !.boot = "b2"]>>

Shreds4 == <<Rec("GENESIS"), [Of("EVENT", "other") EXCEPT !.key = 1], Shred(1, {1}), Shred(2, {1})>>

Segments == <<Rec("GENESIS"), Rec("ANCHOR"),
              [Of("EVENT", "CONT") EXCEPT !.body.hash = H(2), !.body.index = 1,
                                          !.body.root = <<H(1), H(2)>>],
              Of("EVENT", "other")>>

MCScripts == {Tools, Oversight, Models, Boots, Shreds4, Segments}

From(content, head) == [content |-> content, head |-> head]

MCAnchors == {<<>>, <<From("a head", H(4))>>, <<From("short", NoHash), From("a head", H(3))>>,
              <<From("missing", NoHash), From("a head", H(99))>>}

Listing(heads) == [kind |-> "segments", heads |-> heads]

MCManifests == {[kind |-> "none", heads |-> <<>>], Listing(<<>>), Listing(<<H(2)>>), Listing(<<H(99)>>)}
=============================================================================
