----------------------------- MODULE SegmentSet -----------------------------
(***************************************************************************)
(* A segmented chain as someone finds it: audit/segment_set.py, which      *)
(* judges the files of a chain against the manifest beside them, and       *)
(* pala/segments.py, which cuts a whole chain into such a set.  The sets   *)
(* that are judged here are those that the writers of PalaWriter leave on  *)
(* disk at every moment of their work, and the same with records missing.  *)
(*                                                                         *)
(* fs is a function from names to records, mf the list of the entries.     *)
(***************************************************************************)
EXTENDS PalaWriter

\* verify_headers from a declared start: GENESIS only where nothing precedes.
ChainOk(rows, prev) ==
    /\ IF prev = Genesis THEN rows[1].kind = "GENESIS" /\ rows[1].prev = Genesis
                         ELSE rows[1].prev = prev
    /\ \A k \in 2..Len(rows) : /\ rows[k].prev = rows[k - 1].hash
                               /\ rows[k].seq = rows[k - 1].seq + 1

\* The file is the one its entry tells of.
Matches(rows, e) == /\ Last(rows).hash = e.head
                    /\ rows[1].seq = e.first /\ Last(rows).seq = e.last
                    /\ Len(rows) = e.last - e.first + 1

\* A file may have lost everything; then its head is not the entry's.
CheckFile(rows, e) == rows # <<>> /\ ChainOk(rows, e.prev) /\ Matches(rows, e)

SeamOk(mf, k) == k = 1 \/ mf[k].prev = mf[k - 1].head

\* The file beside them, not listed, whose first record links to the last
\* listed head: the segment that is being written.
LiveTail(fs, mf) == {i \in DOMAIN fs : /\ \A e \in Range(mf) : e.file # i
                                       /\ fs[i] # <<>> /\ fs[i][1].prev = Last(mf).head}

\* Seeded fault: the live tail is not verified.
Consistent_Listed(fs, mf) ==
    \A k \in 1..Len(mf) : /\ SeamOk(mf, k)
                          /\ mf[k].file \in DOMAIN fs => CheckFile(fs[mf[k].file], mf[k])

\* Everything present verifies and agrees with the manifest.
Consistent(fs, mf) ==
    /\ \A k \in 1..Len(mf) : /\ SeamOk(mf, k)
                             /\ mf[k].file \in DOMAIN fs => CheckFile(fs[mf[k].file], mf[k])
    /\ \A i \in LiveTail(fs, mf) : ChainOk(fs[i], Last(mf).head)

\* ... and nothing listed is missing, from a GENESIS on.
Complete(fs, mf) == /\ Consistent(fs, mf)
                    /\ \A e \in Range(mf) : e.file \in DOMAIN fs
                    /\ mf # <<>> /\ mf[1].prev = Genesis /\ mf[1].first = 0

-----------------------------------------------------------------------------
(* segment_chain: a chain in files of n records each.                       *)

\* Seeded fault: a last segment that is not full is forgotten.
Pieces_Full(rows, n) == Len(rows) \div n

Pieces(rows, n) == (Len(rows) + n - 1) \div n

Piece(rows, n, k) == SubSeq(rows, (k - 1) * n + 1, Min({k * n, Len(rows)}))

SegmentFiles(rows, n) == [k \in 1..Pieces(rows, n) |-> Piece(rows, n, k)]

SegmentEntries(rows, n) ==
    [k \in 1..Pieces(rows, n) |->
        LET piece == Piece(rows, n, k)
        IN  [file |-> k, first |-> piece[1].seq, last |-> Last(piece).seq,
             head |-> Last(piece).hash,
             prev |-> IF k = 1 THEN Genesis ELSE Last(Piece(rows, n, k - 1)).hash]]

-----------------------------------------------------------------------------
(* Properties.                                                              *)

\* A file with its k-th record taken out.
Without(i, k) == [files EXCEPT ![i] = RemoveAt(@, k)]

\* "A segment deleted under a retention policy makes a set incomplete, never
\* inconsistent": at every moment of the writers' work, in the middle of a cut
\* and after a crash in it, the set on disk is consistent, and complete exactly
\* if nothing was removed; and when any record of a listed segment is missing,
\* or one in the middle of the live tail, it is not consistent.  (Without its
\* first record a live tail is not recognised, and without its last ones it is
\* shorter: the set is called consistent.  A torn tail has no answer: the walk
\* over it raises.)  And what segment_chain makes of the chain is a complete
\* set: "concatenating all segments reproduces the source".
SetIsJudged ==
    (manifest # <<>> /\ \A i \in DOMAIN files : Clean(i)) =>
        /\ Consistent(files, manifest)
        /\ Complete(files, manifest) <=> Retired = 0
        /\ \A i \in DOMAIN files : \A k \in 1..Len(files[i]) :
              \/ ~Consistent(Without(i, k), manifest)
              \/ i \in LiveTail(files, manifest) /\ k \in {1, Len(files[i])}
        /\ \A n \in 1..3 :
              /\ FlattenSeq(SegmentFiles(chain, n)) = chain
              /\ Complete(SegmentFiles(chain, n), SegmentEntries(chain, n))
=============================================================================
