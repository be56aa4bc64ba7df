------------------------------- MODULE Merkle -------------------------------
(***************************************************************************)
(* The Merkle tree over record hashes (audit/pala/merkle.py), its frontier *)
(* (frontier.py), and the proofs of inclusion and of prefix consistency.   *)
(*                                                                         *)
(* SHA-256 is a constructor: a leaf and a node are what was hashed, with   *)
(* the prefix that keeps the two apart, so that equal values have equal    *)
(* preimages.                                                              *)
(***************************************************************************)
EXTENDS Naturals, Sequences, SequencesExt

LeafHash(data) == <<0, data>>
NodeHash(left, right) == <<1, left, right>>
EmptyRoot == <<2>>

Leaves(hashes) == [i \in DOMAIN hashes |-> LeafHash(hashes[i])]

-----------------------------------------------------------------------------
(* The root: layer upon layer, as the code builds it.                       *)

\* Seeded fault: an unpaired node is paired with itself.
Layer_Duplicated(l) ==
    [i \in 1..((Len(l) + 1) \div 2) |->
        NodeHash(l[2 * i - 1], l[IF 2 * i <= Len(l) THEN 2 * i ELSE 2 * i - 1])]

\* An unpaired node is promoted.
Layer(l) == [i \in 1..((Len(l) + 1) \div 2) |->
                IF 2 * i <= Len(l) THEN NodeHash(l[2 * i - 1], l[2 * i]) ELSE l[2 * i - 1]]

RECURSIVE RootOfHashed(_)
RootOfHashed(l) == IF Len(l) = 1 THEN l[1] ELSE RootOfHashed(Layer(l))

MerkleRoot(hashes) == IF hashes = <<>> THEN EmptyRoot ELSE RootOfHashed(Leaves(hashes))

\* Whether n is 2^k for some k.
RECURSIVE PowerOfTwo(_)
PowerOfTwo(n) == n = 1 \/ (n % 2 = 0 /\ PowerOfTwo(n \div 2))

LargestPowerOfTwoBelow(n) ==
    CHOOSE k \in 1..(n - 1) : PowerOfTwo(k) /\ 2 * k >= n

\* The reference, RFC 6962 section 2.1: split at the largest power of two
\* below the number of leaves.
RECURSIVE TreeHash(_)
TreeHash(hashes) ==
    CASE hashes = <<>> -> EmptyRoot
      [] Len(hashes) = 1 -> LeafHash(hashes[1])
      [] OTHER -> LET k == LargestPowerOfTwoBelow(Len(hashes))
                  IN  NodeHash(TreeHash(SubSeq(hashes, 1, k)),
                               TreeHash(SubSeq(hashes, k + 1, Len(hashes))))

-----------------------------------------------------------------------------
(* Inclusion.                                                               *)

\* Siblings from the leaf up, each with the side it joins from.
RECURSIVE Path(_, _)
Path(l, i) ==
    IF Len(l) = 1 THEN <<>>
    ELSE (CASE i % 2 = 0 -> <<[side |-> "L", hash |-> l[i - 1]]>>
            [] i % 2 = 1 /\ i < Len(l) -> <<[side |-> "R", hash |-> l[i + 1]]>>
            [] OTHER -> <<>>) \o Path(Layer(l), (i + 1) \div 2)

MerkleProof(hashes, i) == Path(Leaves(hashes), i)

\* Seeded fault: the sides are not told apart.
Joined_OneSide(h, step) == NodeHash(h, step.hash)

Joined(h, step) == IF step.side = "L" THEN NodeHash(step.hash, h) ELSE NodeHash(h, step.hash)

VerifyProof(leaf, proof, root) == FoldLeft(Joined, LeafHash(leaf), proof) = root

-----------------------------------------------------------------------------
(* Prefix consistency.                                                      *)

RECURSIVE SubProof(_, _, _)
SubProof(m, nodes, whole) ==
    LET n == Len(nodes)
        k == LargestPowerOfTwoBelow(n)
        left == SubSeq(nodes, 1, k)
        right == SubSeq(nodes, k + 1, n)
    IN  CASE m = n -> IF whole THEN <<>> ELSE <<RootOfHashed(nodes)>>
          [] m # n /\ m <= k -> Append(SubProof(m, left, whole), RootOfHashed(right))
          [] OTHER -> Append(SubProof(m - k, right, FALSE), RootOfHashed(left))

ConsistencyProof(hashes, first) == SubProof(first, Leaves(hashes), TRUE)

\* Both counters lose a bit.
Shift(c) == [c EXCEPT !.fn = @ \div 2, !.sn = @ \div 2]

\* while fn & 1
RECURSIVE ShiftOdd(_)
ShiftOdd(c) == IF c.fn % 2 = 1 THEN ShiftOdd(Shift(c)) ELSE c

\* while fn and not fn & 1
RECURSIVE ShiftEven(_)
ShiftEven(c) == IF c.fn # 0 /\ c.fn % 2 = 0 THEN ShiftEven(Shift(c)) ELSE c

\* One node of the path: it joins from the left below both roots, or from the
\* right below the second one only.
Climb(c, node) ==
    CASE c.sn = 0 -> [c EXCEPT !.ok = FALSE]
      [] c.sn # 0 /\ (c.fn % 2 = 1 \/ c.fn = c.sn) ->
            Shift(ShiftEven([c EXCEPT !.fr = NodeHash(node, @), !.sr = NodeHash(node, @)]))
      [] OTHER -> Shift([c EXCEPT !.sr = NodeHash(@, node)])

\* Seeded fault: only the second root is looked at.
Arrived_Second(c, firstRoot, secondRoot) == c.ok /\ c.sr = secondRoot /\ c.sn = 0

Arrived(c, firstRoot, secondRoot) ==
    c.ok /\ c.fr = firstRoot /\ c.sr = secondRoot /\ c.sn = 0

VerifyConsistency(first, second, firstRoot, secondRoot, proof) ==
    LET path == (IF PowerOfTwo(first) THEN <<firstRoot>> ELSE <<>>) \o proof
        start == ShiftOdd([fn |-> first - 1, sn |-> second - 1, ok |-> TRUE,
                           fr |-> path[1], sr |-> path[1]])
    IN  CASE first < 1 \/ second < first -> FALSE
          [] first = second -> proof = <<>> /\ firstRoot = secondRoot
          [] OTHER -> path # <<>> /\ Arrived(FoldLeft(Climb, start, Tail(path)),
                                             firstRoot, secondRoot)

-----------------------------------------------------------------------------
(* The frontier: the roots of the perfect subtrees, largest first.          *)

NoFrontier == [count |-> 0, peaks |-> <<>>]

\* A new peak swallows those of its own height.
RECURSIVE Merged(_, _)
Merged(peaks, peak) ==
    IF peaks # <<>> /\ Last(peaks).height = peak.height
    THEN Merged(Front(peaks), [height |-> peak.height + 1,
                               hash |-> NodeHash(Last(peaks).hash, peak.hash)])
    ELSE Append(peaks, peak)

With(f, hash) == [count |-> f.count + 1,
                  peaks |-> Merged(f.peaks, [height |-> 0, hash |-> LeafHash(hash)])]

FromRecordHashes(hashes) == FoldLeft(With, NoFrontier, hashes)

\* Right to left.
Root(f) == IF f.peaks = <<>> THEN EmptyRoot
           ELSE FoldRight(LAMBDA peak, acc : NodeHash(peak.hash, acc), Front(f.peaks),
                          Last(f.peaks).hash)

ToBytes(f) == [count |-> f.count, roots |-> [i \in DOMAIN f.peaks |-> f.peaks[i].hash]]

RECURSIVE Heights(_, _)
Heights(count, bit) ==
    IF count = 0 THEN <<>>
    ELSE Heights(count \div 2, bit + 1) \o (IF count % 2 = 1 THEN <<bit>> ELSE <<>>)

\* What to_bytes could not have produced is refused.
Readable(data) == Len(data.roots) = Len(Heights(data.count, 0))

\* Seeded fault: the peaks are taken for a row of leaves.
FromBytes_Flat(data) ==
    [count |-> data.count,
     peaks |-> [i \in DOMAIN data.roots |-> [height |-> 0, hash |-> data.roots[i]]]]

\* The heights are the set bits of the count.
FromBytes(data) ==
    [count |-> data.count,
     peaks |-> [i \in DOMAIN data.roots |->
                  [height |-> Heights(data.count, 0)[i], hash |-> data.roots[i]]]]
=============================================================================
