--------------------------- MODULE StatementRuns ----------------------------
(***************************************************************************)
(* Two runs of programs written from the specification alone against       *)
(* published statements (docs/specs/pala-1/independent-runs/turak): B1     *)
(* (scitt-statement) of the first construction, and B2                     *)
(* (scitt-statement-b2) of v2.  A run is its checks: it passes if all of   *)
(* them do, B1's those within its pass bar.  "in" is what a vector says of *)
(* its statement.  Left out are what a vector says of its own bytes        *)
(* (length, digest) and the self-tests of the runs' arithmetic.            *)
(***************************************************************************)
EXTENDS Statements

Inputs(first, n) == [type |-> HeadType, head |-> HeadOf(n), first |-> first, last |-> n - 1,
                     subject |-> Subject(HeadOf(n)), kid |-> Thumbprint(Own)]

\* The runs' own thumbprint, and the other plausible one.
ThumbprintBytewise == Bytes(32, Map(Sorted(<<<<1, EdDSA>>, <<-1, EdDSA>>, <<-2, "own">>>>)))
ThumbprintNumeric == Bytes(32, Map(<<<<-2, "own">>, <<-1, EdDSA>>, <<1, EdDSA>>>>))

Is(value, kind) == value[1] = kind
Valid(m) == Verifies(Own, m.protected, m.payload, m.sig, TRUE)
SignedBy(protected, payload) == Tagged(protected, payload, Signature(Own, protected, payload))

\* What the payload says, whoever decodes it.
Says(p, in) == /\ First(p, 1) = in.head /\ First(p, 2) = Number(in.first)
               /\ First(p, 3) = Number(in.last) /\ First(p, 4) = FormatId

\* What all runs demand of the message: tag, attached payload, whole signature.
Attached(m) == m.unprotected = <<>> /\ m.payload # Nil /\ m.sig.form # "63 bytes"

-----------------------------------------------------------------------------
(* B2.                                                                      *)

\* Section 5: the message from its inputs.
Build(in) ==
    LET h == Map(Sorted(<<<<1, Number(EdDSA)>>, <<3, in.type>>, <<4, in.kid>>,
                          <<15, Claims(in.subject)>>>>))
    IN  SignedBy(h, HeadPayload(in.head, in.first, in.last, NoRoot))

ParsesB2(m) == ParseSign1(m, TRUE, TRUE) /\ Attached(m)

\* Section 3: the last check re-encodes in the order that was read.
PayloadB2(m, in) ==
    /\ Loads(m.payload, TRUE) /\ IsMap(m.payload) /\ Len(m.payload.entries) = 4
    /\ Says(m.payload, in)
    /\ Map(m.payload.entries) = m.payload

\* Section 4.
HeaderB2(m, in) ==
    LET h == m.protected
        kid == First(h, 4)
        cwt == First(h, 15)
    IN  /\ Loads(h, TRUE) /\ IsMap(h) /\ Len(h.entries) = 4
        /\ First(h, 1) = Number(EdDSA) /\ First(h, 3) = in.type
        /\ Is(kid, "bytes") /\ kid = in.kid /\ kid = ThumbprintBytewise /\ kid # ThumbprintNumeric
        /\ Is(cwt, "claims") /\ cwt[2] = Issuer /\ cwt[3] = in.subject /\ cwt[3] = Subject(in.head)
        /\ KeysOf(h) = <<1, 3, 4, 15>> /\ Ascending(h)
        /\ Map(h.entries) = h

ReadsB2(m, in) == ParsesB2(m) /\ Valid(m) /\ PayloadB2(m, in) /\ HeaderB2(m, in)

\* Section 6: bits flipped in payload and signature, another head expected, the
\* kid outside, the tag taken off.
TampersB2(m, in) ==
    LET noKid == SignedBy(Drop(m.protected, 4), m.payload)
        moved == [noKid EXCEPT !.unprotected = <<<<4, in.kid>>>>]
        swapped == [noKid EXCEPT !.unprotected = <<<<4, Bytes(4, "kid")>>>>]
        untagged == [m EXCEPT !.tag = 0]
    IN  /\ ~Valid([m EXCEPT !.payload = Set(@, 1, FlippedAt("byte 0", in.head))])
        /\ ~Valid([m EXCEPT !.sig.form = "flipped"])
        /\ First(m.payload, 1) # ZeroRoot /\ Valid(m)
        /\ Valid(noKid) /\ moved # m
        /\ ParseSign1(swapped, TRUE, TRUE) /\ swapped.unprotected # moved.unprotected /\ Valid(swapped)
        /\ untagged # m /\ ~ParseSign1(untagged, TRUE, TRUE)
        /\ ParseSign1(untagged, TRUE, FALSE) /\ Valid(untagged)

\* Section 7, A1 to A11.
OwnCasesB2(m, in) ==
    LET longer == [m EXCEPT !.long = TRUE]
        plusL == [m EXCEPT !.sig.form = "S + L"]
        detached == [m EXCEPT !.payload = Nil]
        twice == Add(m.protected, 4, Bytes(1, "0"))
    IN  /\ ParseSign1(longer, FALSE, TRUE) /\ Valid(longer) /\ longer # m
        /\ ~ParseSign1(longer, TRUE, TRUE)
        /\ ~Valid([m EXCEPT !.protected.head = "long"])
        /\ ~Valid([m EXCEPT !.sig.form = "63 bytes"])
        /\ ~Valid(plusL) /\ Verifies(Own, m.protected, m.payload, plusL.sig, FALSE)
        /\ Is(First(m.payload, 1), "bytes") /\ Is(First(m.payload, 2), "int")
        /\ ~ParseSign1([m EXCEPT !.tag = 98], TRUE, TRUE)
        /\ ~ParseSign1([m EXCEPT !.rest = "cut"], TRUE, TRUE)
        /\ ~ParseSign1([m EXCEPT !.rest = "trailing"], TRUE, TRUE)
        /\ ParseSign1(detached, TRUE, TRUE) /\ detached # m
        /\ Verifies(Own, m.protected, m.payload, detached.sig, TRUE)
        /\ Loads(twice, TRUE) /\ ~Distinct(twice)

\* Section 5 rebuilds every byte from the inputs.
RunB2(m, in) == /\ ReadsB2(m, in)
                /\ Build(in) = m
                /\ TampersB2(m, in) /\ OwnCasesB2(m, in)

-----------------------------------------------------------------------------
(* B1: the header has an algorithm and claims; the subject, part of a head. *)

InputsB1(first, n) == [Inputs(first, n) EXCEPT !.subject = <<"first 8 bytes", n>>]

BuildB1(in) == SignedBy(Map(Sorted(<<<<1, Number(EdDSA)>>, <<15, Claims(in.subject)>>>>)),
                        HeadPayload(in.head, in.first, in.last, NoRoot))

\* The header is decoded with the message; only a strict parse wants short
\* heads and ordered keys.
ParsesB1(m, require_deterministic) ==
    /\ m.rest = "none" /\ m.tag = 18 /\ (require_deterministic => ~m.long)
    /\ LoadsB1(m.protected, FALSE) /\ IsMap(m.protected)

\* Steps 1 to 4.
ReadsB1(m, in) ==
    LET cwt == First(m.protected, 15) IN
    /\ ParsesB1(m, FALSE) /\ Attached(m) /\ Valid(m)
    /\ LoadsB1(m.payload, FALSE) /\ IsMap(m.payload) /\ Len(m.payload.entries) = 4
    /\ Says(m.payload, in)
    /\ First(m.protected, 1) = Number(EdDSA)
    /\ Is(cwt, "claims") /\ cwt[2] = Issuer /\ cwt[3] = in.subject
    /\ in.subject = <<"first 8 bytes", in.head[3][1]>>

\* Steps 6 and 7, as far as the pass bar goes.
CasesB1(m, in) ==
    LET flipped == HeadPayload(FlippedAt("byte 0", in.head), in.first, in.last, NoRoot)
    IN  /\ ~Valid([m EXCEPT !.payload = flipped])
        /\ ~Valid([m EXCEPT !.sig.form = "flipped"])
        /\ First(m.payload, 1) # FlippedAt("byte 31", in.head)
        /\ ~ParsesB1([m EXCEPT !.long = TRUE], TRUE)
        /\ ~ParsesB1([m EXCEPT !.tag = 98], FALSE)
        /\ ~Valid([m EXCEPT !.sig.form = "63 bytes"])
        /\ ~Valid([m EXCEPT !.sig.form = "S + L"])
        /\ ~LoadsB1(Add(m.protected, 1, Number(EdDSA)), FALSE)
        /\ ParsesB1([m EXCEPT !.payload = Nil], FALSE)
        /\ ~ParsesB1([m EXCEPT !.rest = "trailing"], FALSE)

RunB1(m, in) == ReadsB1(m, in) /\ BuildB1(in) = m /\ CasesB1(m, in)

-----------------------------------------------------------------------------
(* Properties.                                                              *)

\* What build_signed_statement publishes, and nothing else that is signed over the
\* same prefix or happens to it, passes the run of its construction, which rebuilds
\* it from what it states; and a statement of the first construction passes its run
\* while the product refuses it.
RunsPass ==
    draft # NoDraft =>
      LET n == Len(chain)
          in == Inputs(draft.first, n)
          stated == BuildSignedStatement(in.head, in.first, in.last, Own, NoRoot)
          first == InputsB1(draft.first, n)
          old == BuildB1(first)
      IN  /\ RunB2(draft.message, in) <=> draft.message = stated
          /\ RunB1(old, first) /\ ~RunB1(stated, first)
          /\ VerifyStatement(old, Own, in.head, NoChain).version = "none"

\* The product and the programs written from the specification alone say the same
\* of the same message: the reader of B3 of whatever is signed, and the runs B1
\* and B2 of what they rebuild.
ReadersAgree == ReaderB3Agrees /\ RunsPass
=============================================================================
