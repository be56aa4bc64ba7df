------------------------------ MODULE Evidence ------------------------------
(***************************************************************************)
(* What a chain lets others prove of it, while it grows, is cut into       *)
(* segments, loses the oldest of them to retention and is resumed: the     *)
(* writer's derived root (PalaWriter.chain_root), the checkpoints          *)
(* (pala/checkpoints.py), and the proofs a reader builds (pala/proofs.py). *)
(*                                                                         *)
(* The record at position n has hash n.  One thread writes, as             *)
(* merkle_checkpoint asks for; PalaWriter is about several of them and     *)
(* about what a crash does to the files.                                   *)
(***************************************************************************)
EXTENDS Merkle, FiniteSets

CONSTANTS MaxChain,    \* bound: records ever written
          MaxSegments  \* bound: segments ever begun

VARIABLES chain,     \* all records, in order
          starts,    \* the position of each segment's first record
          gone,      \* how many of the oldest segments were removed
          open,      \* there is a writer
          frontier,  \* its _frontier
          recorded   \* the frontier in the manifest's last entry

evidenceVars == <<chain, starts, gone, open, frontier, recorded>>

EvidenceInit == /\ chain = <<[kind |-> "GENESIS", count |-> 0, root |-> EmptyRoot]>>
                /\ starts = <<1>>
                /\ gone = 0
                /\ open = TRUE
                /\ frontier = With(NoFrontier, 1)
                /\ recorded = ToBytes(NoFrontier)

Hashes(first, last) == [i \in 1..(last - first + 1) |-> first + i - 1]

\* Where the segment that is written begins.
Start == Last(starts)

\* _commit_locked: the record is part of the root.
Commit(kind, count, root) ==
    /\ open /\ Len(chain) < MaxChain
    /\ chain' = Append(chain, [kind |-> kind, count |-> count, root |-> root])
    /\ frontier' = With(frontier, Len(chain) + 1)

Emit == Commit("EVENT", 0, EmptyRoot) /\ UNCHANGED <<starts, gone, open, recorded>>

\* Seeded fault: the previous checkpoint itself is left out.
Window_Behind == LET c == {i \in Start..Len(chain) : chain[i].kind = "MERKLE"}
                 IN  IF c = {} THEN Hashes(Start, Len(chain))
                     ELSE Hashes((CHOOSE i \in c : \A j \in c : j <= i) + 1, Len(chain))

\* What a checkpoint aggregates: what the file holds from the last one on.
Window == LET c == {i \in Start..Len(chain) : chain[i].kind = "MERKLE"}
          IN  IF c = {} THEN Hashes(Start, Len(chain))
              ELSE Hashes(CHOOSE i \in c : \A j \in c : j <= i, Len(chain))

Checkpoint == /\ Window # <<>>
              /\ Commit("MERKLE", Len(Window), MerkleRoot(Window))
              /\ UNCHANGED <<starts, gone, open, recorded>>

\* _rotate_core: the frontier goes to the manifest, its root into the record
\* that begins the successor.
Cut == /\ Len(starts) < MaxSegments
       /\ Commit("CONT", 0, Root(frontier))
       /\ recorded' = ToBytes(frontier)
       /\ starts' = Append(starts, Len(chain) + 1)
       /\ UNCHANGED <<gone, open>>

Close == /\ open
         /\ open' = FALSE /\ frontier' = NoFrontier
         /\ UNCHANGED <<chain, starts, gone, recorded>>

\* The frontier that the manifest keeps, or none, and the records of the file.
Resume == /\ ~open
          /\ Start = 1 \/ Readable(recorded)
          /\ open' = TRUE
          /\ frontier' = FoldLeft(With, IF Start = 1 THEN NoFrontier ELSE FromBytes(recorded),
                                  Hashes(Start, Len(chain)))
          /\ UNCHANGED <<chain, starts, gone, recorded>>

\* External: retention removes the oldest segment, a closed one.
Retire == /\ gone + 1 < Len(starts)
          /\ gone' = gone + 1
          /\ UNCHANGED <<chain, starts, open, frontier, recorded>>

EvidenceNext == Emit \/ Checkpoint \/ Cut \/ Close \/ Resume \/ Retire

EvidenceSpec == EvidenceInit /\ [][EvidenceNext]_evidenceVars

-----------------------------------------------------------------------------
(* Proofs, from one segment's file.                                         *)

Segments == (gone + 1)..Len(starts)
End(s) == IF s = Len(starts) THEN Len(chain) ELSE starts[s + 1] - 1
Checkpoints(s) == {m \in starts[s]..End(s) : chain[m].kind = "MERKLE"}

\* The checkpoints whose window, all of it in the file, holds position i.
Covering(s, i) == {m \in Checkpoints(s) : /\ i < m /\ m - chain[m].count <= i
                                          /\ starts[s] <= m - chain[m].count}

InclusionProof(s, i) ==
    LET m == CHOOSE m \in Covering(s, i) : \A k \in Covering(s, i) : m <= k
        lo == m - chain[m].count
    IN  [path |-> MerkleProof(Hashes(lo, m - 1), i - lo + 1), root |-> chain[m].root,
         window |-> lo..(m - 1)]

\* range_proofs: of each record from lo to hi that has one, from what the file
\* holds at last.
RangeProofs(s, lo, hi) ==
    [i \in {j \in lo..hi : j \in starts[s]..End(s) /\ Covering(s, j) # {}} |-> InclusionProof(s, i)]

\* assemble_bundle: the records are those of a first reading, when the file
\* ended with record n; verdict, head and proofs come from a second one.  A
\* record that no checkpoint covers is bundled without a proof.
Bundle(s, n, from, to) ==
    LET picked == {i \in starts[s]..n : from <= i /\ i <= to}
        proofs == IF picked = {} THEN <<>>
                  ELSE RangeProofs(s, CHOOSE i \in picked : \A j \in picked : i <= j,
                                   CHOOSE i \in picked : \A j \in picked : i >= j)
    IN  [records |-> picked, unproven |-> picked \ DOMAIN proofs, proofs |-> proofs,
         head |-> End(s)]

\* proofs.chain_root: what a reader of all segments computes.
ChainRoot(n) == Root(FromRecordHashes(Hashes(1, n)))

\* The chain as someone has it who changed it from position k on: every record
\* from there has another hash.
Altered(k) == [i \in 1..Len(chain) |-> IF i < k THEN i ELSE i + MaxChain]

-----------------------------------------------------------------------------
(* Properties.                                                              *)

\* The root that the writer states is RFC 6962's over every record since the
\* first, whether it was kept incrementally, built from what the manifest
\* recorded, or computed layer by layer, and whatever segments are gone; its
\* peaks are the set bits of the count, and its bytes give it back; and each
\* continuation declares that root of the records before it.
RootsAgree ==
    LET all == Hashes(1, Len(chain)) IN
    /\ TreeHash(all) = MerkleRoot(all) /\ TreeHash(all) = ChainRoot(Len(chain))
    /\ open => /\ frontier.count = Len(chain) /\ Root(frontier) = TreeHash(all)
               /\ [i \in DOMAIN frontier.peaks |-> frontier.peaks[i].height]
                    = Heights(Len(chain), 0)
               /\ FromBytes(ToBytes(frontier)) = frontier
    /\ \A s \in 2..Len(starts) : chain[starts[s]].root = TreeHash(Hashes(1, starts[s] - 1))

\* "inclusion_proof can answer for every non-tail record": every record of a
\* segment that a later checkpoint of that segment follows has a proof, which
\* verifies for it against the root on the chain and for no other record; and a
\* bundle of any range, whose file may have grown while it was put together,
\* lacks a proof of those records only that no checkpoint follows.
InclusionSound ==
    \A s \in Segments : \A i \in starts[s]..End(s) :
        /\ Covering(s, i) # {} <=> \E m \in Checkpoints(s) : i < m
        /\ Covering(s, i) # {} =>
              LET p == InclusionProof(s, i)
              IN  \A j \in p.window : VerifyProof(j, p.path, p.root) <=> j = i
        /\ LET b == Bundle(s, i, starts[s], Len(chain))
           IN  /\ b.records = starts[s]..i
               /\ b.unproven = {j \in b.records : \A m \in Checkpoints(s) : m <= j}
               /\ \A j \in DOMAIN b.proofs : VerifyProof(j, b.proofs[j].path, b.proofs[j].root)

\* A root that was taken when the chain had m records and is kept elsewhere, or
\* that a continuation declares, is found consistent with the chain of today
\* exactly if none of those m records has been changed since, and by the proof
\* for m only.
ConsistencySound ==
    ~open => LET n == Len(chain) IN
        \A m \in 1..n : LET kept == MerkleRoot(Hashes(1, m)) IN
            /\ \A k \in 1..(n + 1) :
                  VerifyConsistency(m, n, kept, MerkleRoot(Altered(k)),
                                    ConsistencyProof(Altered(k), m)) <=> k > m
            /\ \A l \in 1..n \ {m} :
                  ~VerifyConsistency(m, n, kept, MerkleRoot(Hashes(1, n)),
                                     ConsistencyProof(Hashes(1, n), l))

\* Both kinds of proof hold of what they are about and of nothing else.
ProofsSound == InclusionSound /\ ConsistencySound
=============================================================================
