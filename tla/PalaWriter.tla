---------------------------- MODULE PalaWriter ----------------------------
(***************************************************************************)
(* The container writer of the PALA chain (audit/pala_writer.py).  A chain *)
(* is a file and, once it is cut, the segments after it: `base`,           *)
(* `base.00001`, ...; beside them lies the manifest base.segments.json     *)
(* with one entry for every closed segment.  A writer keeps seq and head   *)
(* in memory, a lock keeps a second writer away, and a process may die at  *)
(* any point, in the middle of a record too.                               *)
(*                                                                         *)
(* What a process writes under its thread lock is one step up to the next  *)
(* change on disk.  A record is its header; record_hash is a fresh number, *)
(* and the derived root over records is the sequence of their hashes.  The *)
(* writers here are all given one rotation policy, whose thresholds may be *)
(* crossed by any record.                                                  *)
(***************************************************************************)
EXTENDS HashChain, FiniteSets, Functions, SequencesExt

CONSTANTS Proc,          \* the processes that may write the chain
          Null,          \* no process, no span
          Span,          \* span ids
          ResumeAny,     \* whether a resume may name any segment (see Resumable)
          FreshAnyTime,  \* whether PalaWriter(path) may meet a chain (see Start)
          PendingLimit,  \* _FRONTIER_PENDING_LIMIT
          MaxRecords,    \* bound: records ever encoded
          MaxOpens       \* bound: writers ever opened

ASSUME NullAssumption == Null \notin Proc \cup Span
ASSUME ChoicesAssumption == ResumeAny \in BOOLEAN /\ FreshAnyTime \in BOOLEAN
ASSUME PendingAssumption == PendingLimit \in Nat \ {0}
ASSUME BoundsAssumption == {MaxRecords, MaxOpens} \subseteq Nat

VARIABLES files,     \* files[i]: what is in segment i; 0 is the base
          manifest,  \* the entries of base.segments.json; <<>>: no such file
          lock,      \* lock[i]: who holds the lock named after segment i
          pc,        \* where the thread of p that holds p's _lock is
          path,      \* path[p]: the segment p writes, or is about to open
          must,      \* must[p]: the record that has to come first
          boot,      \* boot[p]: its boot id
          seq, head, \* seq[p], head[p]: the next record's number and prev_hash
          spans,     \* spans[p]: _open_spans
          due,       \* due[p]: _rotation_due
          opened,    \* opened[p]: _seg_first_seq, _seg_prev_head, _seg_ordinal
          entries,   \* entries[p]: _manifest_entries
          frontier,  \* frontier[p]: _frontier, or _frontier_pending
          deferred,  \* deferred[p]: records a deferred frontier has to rescan
          chain,     \* history: every record ever completed, in that order
          counts     \* how many records were encoded, and writers opened

diskVars == <<files, manifest, chain>>
segVars == <<due, opened, entries>>
memVars == <<path, must, boot, seq, head, spans, frontier, deferred, segVars>>
palaVars == <<diskVars, lock, pc, memVars, counts>>

Index == 0..MaxRecords
Nothing == [first |-> 0, prev |-> Genesis, ordinal |-> 0]

PalaInit == /\ files = [i \in {} |-> <<>>]
            /\ manifest = <<>>
            /\ lock = [i \in Index |-> Null]
            /\ pc = [p \in Proc |-> "out"]
            /\ path = [p \in Proc |-> 0]
            /\ must = [p \in Proc |-> "GENESIS"]
            /\ boot = [p \in Proc |-> 0]
            /\ seq = [p \in Proc |-> 0]
            /\ head = [p \in Proc |-> Genesis]
            /\ spans = [p \in Proc |-> {}]
            /\ due = [p \in Proc |-> FALSE]
            /\ opened = [p \in Proc |-> Nothing]
            /\ entries = [p \in Proc |-> <<>>]
            /\ frontier = [p \in Proc |-> <<>>]
            /\ deferred = [p \in Proc |-> 0]
            /\ chain = <<>>
            /\ counts = [c \in {"records", "opens"} |-> 0]

-----------------------------------------------------------------------------
(* What is on disk.                                                         *)

\* Bytes of a record that was not written to its end.
Torn == [kind |-> "TORN", seq |-> 0, prev |-> Genesis, hash |-> Genesis,
         boot |-> 0, span |-> Null, ordinal |-> 0, root |-> <<>>]

TornAt(i) == SelectInSeq(files[i], LAMBDA r : r = Torn)

\* Seeded fault: the last complete record goes with the torn one.
Scanned_OneLess(i) == IF TornAt(i) = 0 THEN files[i]
                      ELSE SubSeq(files[i], 1, TornAt(i) - 2)

\* The records a resume scan finds: it stops at the first incomplete one.
Scanned(i) == IF TornAt(i) = 0 THEN files[i]
              ELSE SubSeq(files[i], 1, TornAt(i) - 1)

\* There are bytes of later records behind it.
Damaged(i) == TornAt(i) # 0 /\ TornAt(i) < Len(files[i])

HashesOf(rows) == [k \in 1..Len(rows) |-> rows[k].hash]

\* A segment whose first record follows the given head: _successor_of_head.
Successors(h) == {i \in DOMAIN files \ {0} :
                     files[i] # <<>> /\ files[i][1] # Torn /\ files[i][1].prev = h}

\* The root of everything before a segment, from the entry of its predecessor.
StartingFrontier(first) ==
    LET e == CHOOSE e \in Range(manifest) :
                 e.head = first.prev /\ Len(e.covers) = first.seq
    IN  e.covers

\* Which segment of the chain a file is.
SegmentOrdinal(first) == IF first.seq = 0 THEN 0 ELSE first.ordinal

\* Seeded fault: each segment is locked under its own name.
LockName_OwnName(i) == i

\* _chain_lock_target: one name for all the segments of a rotated chain.
LockName(i) == IF manifest # <<>> THEN 0 ELSE i

-----------------------------------------------------------------------------
(* Starting and resuming a writer.                                          *)

\* A file appears under a name that was free.
Created(i, rows) == [j \in DOMAIN files \cup {i} |-> IF j = i THEN rows ELSE files[j]]

\* The fields of a writer that is gone.
Forget(p) == /\ path' = [path EXCEPT ![p] = 0]
             /\ must' = [must EXCEPT ![p] = "GENESIS"]
             /\ boot' = [boot EXCEPT ![p] = 0]
             /\ seq' = [seq EXCEPT ![p] = 0]
             /\ head' = [head EXCEPT ![p] = Genesis]
             /\ spans' = [spans EXCEPT ![p] = {}]
             /\ due' = [due EXCEPT ![p] = FALSE]
             /\ opened' = [opened EXCEPT ![p] = Nothing]
             /\ entries' = [entries EXCEPT ![p] = <<>>]
             /\ frontier' = [frontier EXCEPT ![p] = <<>>]
             /\ deferred' = [deferred EXCEPT ![p] = 0]

\* Seeded fault: the lock outlives the writer.
Leave_LockKept(p) == /\ pc' = [pc EXCEPT ![p] = "out"]
                     /\ UNCHANGED lock
                     /\ Forget(p)

\* The process is without a writer again; the OS or close() drops its locks.
Leave(p) == /\ pc' = [pc EXCEPT ![p] = "out"]
            /\ lock' = [i \in Index |-> IF lock[i] = p THEN Null ELSE lock[i]]
            /\ Forget(p)

NoBytes == 0 \in DOMAIN files => files[0] = <<>>
NoChain == NoBytes /\ DOMAIN files \subseteq {0}

\* PalaWriter(path) refuses a file that holds bytes ...
CheckFresh(p) ==
    /\ pc[p] = "out" /\ NoBytes
    /\ FreshAnyTime \/ NoChain
    /\ counts["opens"] < MaxOpens
    /\ counts' = [counts EXCEPT !["opens"] = @ + 1]
    /\ boot' = [boot EXCEPT ![p] = counts["opens"] + 1]
    /\ pc' = [pc EXCEPT ![p] = "fresh"]
    /\ UNCHANGED <<diskVars, lock, path, must, seq, head, spans, frontier,
                   deferred, segVars>>

\* ... and only then takes the lock, or is refused it.  With FreshAnyTime,
\* another process may have come, written and gone in between, or the chain
\* may be one whose base was removed.
Start(p) ==
    /\ pc[p] = "fresh" /\ lock[LockName(0)] = Null
    /\ FreshAnyTime \/ NoChain
    /\ lock' = [lock EXCEPT ![LockName(0)] = p]
    /\ files' = IF 0 \in DOMAIN files THEN files ELSE Created(0, <<>>)
    /\ entries' = [entries EXCEPT ![p] = manifest]
    /\ pc' = [pc EXCEPT ![p] = "ready"]
    /\ UNCHANGED <<manifest, chain, path, must, boot, seq, head, spans, due,
                   opened, frontier, deferred, counts>>

StartRefused(p) ==
    /\ pc[p] = "fresh" /\ lock[LockName(0)] # Null
    /\ Leave(p)
    /\ UNCHANGED <<diskVars, counts>>

\* The segments a resume is given: the newest one, or the one that the
\* manifest closed last (a cut may or may not have finished).
Newest == Max({0} \cup DOMAIN files)
Resumable == {i \in DOMAIN files :
                 /\ files[i] # <<>>
                 /\ \/ ResumeAny
                    \/ i = Newest
                    \/ manifest # <<>> /\ Last(manifest).file = i}

\* open_existing takes the lock before it looks at the file.

TakeLock(p) ==
    /\ pc[p] = "out"
    /\ counts["opens"] < MaxOpens
    /\ \E i \in Resumable :
         /\ lock[LockName(i)] = Null
         /\ lock' = [lock EXCEPT ![LockName(i)] = p]
         /\ path' = [path EXCEPT ![p] = i]
    /\ counts' = [counts EXCEPT !["opens"] = @ + 1]
    /\ boot' = [boot EXCEPT ![p] = counts["opens"] + 1]
    /\ pc' = [pc EXCEPT ![p] = "scan"]
    /\ UNCHANGED <<diskVars, must, seq, head, spans, frontier, deferred, segVars>>

\* Seeded fault: a torn tail is left where it is.
Clean_Torn(i) == Scanned(i) # <<>>

Clean(i) == TornAt(i) = 0

\* A torn tail is cut off; damage with further records behind it is refused,
\* and so is a file without one complete record.
Truncate(p) ==
    LET i == path[p] IN
    /\ pc[p] = "scan"
    /\ ~Clean(i) /\ Scanned(i) # <<>> /\ ~Damaged(i)
    /\ files' = [files EXCEPT ![i] = Scanned(i)]
    /\ UNCHANGED <<manifest, chain, lock, pc, memVars, counts>>

ResumeRefused(p) ==
    LET i == path[p] IN
    /\ pc[p] = "scan"
    /\ Scanned(i) = <<>> \/ Damaged(i)
    /\ Leave(p)
    /\ UNCHANGED <<diskVars, counts>>

\* The manifest that a writer resumed on segment i extends; any other segment
\* than these it takes for a base, with no manifest yet.
Loaded(i) == IF \/ i = 0
                \/ /\ manifest # <<>>
                   /\ \/ Last(manifest).head = files[i][1].prev
                      \/ Last(manifest).file = i
             THEN manifest ELSE <<>>

\* The manifest calls segment i closed at the record that is still its last.
CutUnfinished(i) ==
    /\ Loaded(i) # <<>>
    /\ Last(Loaded(i)).file = i /\ Last(Loaded(i)).head = Last(files[i]).hash

\* Seeded fault: the entry of an unfinished cut stays in the manifest.
FoldedBack_Kept(i) == Loaded(i)

\* _fold_back_unfinished_cut: that cut did not happen.
FoldedBack(i) == IF CutUnfinished(i) THEN Front(Loaded(i)) ELSE Loaded(i)

ClosedRefused(p) ==
    LET i == path[p] IN
    /\ pc[p] = "scan"
    /\ Clean(i) /\ CutUnfinished(i)
    /\ Successors(Last(files[i]).hash) # {}
    /\ Leave(p)
    /\ UNCHANGED <<diskVars, counts>>

\* Adopt the tail: head, seq, the frontier (of a whole chain: later), the
\* place in the chain and the manifest.
Adopt(p) ==
    LET i == path[p]
        first == files[i][1]
    IN
    /\ pc[p] = "scan"
    /\ Clean(i)
    /\ CutUnfinished(i) => Successors(Last(files[i]).hash) = {}
    /\ manifest' = IF CutUnfinished(i) THEN FoldedBack(i) ELSE manifest
    /\ entries' = [entries EXCEPT ![p] = FoldedBack(i)]
    /\ must' = [must EXCEPT ![p] = "BOOT"]
    /\ seq' = [seq EXCEPT ![p] = Last(files[i]).seq + 1]
    /\ head' = [head EXCEPT ![p] = Last(files[i]).hash]
    /\ opened' = [opened EXCEPT ![p] =
                     [first |-> first.seq, prev |-> first.prev,
                      ordinal |-> SegmentOrdinal(first)]]
    /\ IF first.seq = 0
       THEN /\ deferred' = [deferred EXCEPT ![p] = Len(files[i])]
            /\ UNCHANGED frontier
       ELSE /\ frontier' = [frontier EXCEPT ![p] =
                              StartingFrontier(first) \o HashesOf(files[i])]
            /\ UNCHANGED deferred
    /\ pc' = [pc EXCEPT ![p] = "ready"]
    /\ UNCHANGED <<files, chain, lock, path, boot, spans, due, counts>>

-----------------------------------------------------------------------------
(* Writing.                                                                 *)

\* The hashes that the writer's root covers; a deferred frontier rescans the
\* file it was resumed on, which is the one it still writes.
Covered(p) == IF deferred[p] = 0 THEN frontier[p]
              ELSE HashesOf(SubSeq(files[path[p]], 1, deferred[p])) \o frontier[p]

Record(p, kind, span) ==
    [kind |-> kind, seq |-> seq[p], prev |-> head[p], hash |-> counts["records"] + 1,
     boot |-> boot[p], span |-> span, ordinal |-> 0, root |-> <<>>]

\* Seeded fault: a resumed writer goes on as if nothing had happened.
Allowed_NoBoot(p) == CASE must[p] = "GENESIS" -> {"GENESIS"}
                       [] OTHER -> {"BOOT", "START", "END", "EVENT"}

\* What may be written next: GENESIS once, BOOT after a resume, then the rest.
Allowed(p) == CASE must[p] = "GENESIS" -> {"GENESIS"}
                [] must[p] = "BOOT" -> {"BOOT"}
                [] OTHER -> {"BOOT", "START", "END", "EVENT"}

SpansAfter(p, r) == CASE r.kind = "START" -> spans[p] \cup {r.span}
                      [] r.kind = "END" -> spans[p] \ {r.span}
                      [] OTHER -> spans[p]

\* Seeded fault: building a deferred frontier forgets what was written since.
Cover_PendingLost(p, r) ==
    IF deferred[p] # 0 /\ Len(frontier[p]) + 1 >= PendingLimit
    THEN /\ frontier' = [frontier EXCEPT ![p] =
                           HashesOf(SubSeq(files[path[p]], 1, deferred[p]))]
         /\ deferred' = [deferred EXCEPT ![p] = 0]
    ELSE /\ frontier' = [frontier EXCEPT ![p] = Append(@, r.hash)]
         /\ UNCHANGED deferred

\* The record is part of the root; a deferred frontier is built when it has
\* become too long a list.
Cover(p, r) ==
    IF deferred[p] # 0 /\ Len(frontier[p]) + 1 >= PendingLimit
    THEN /\ frontier' = [frontier EXCEPT ![p] = Append(Covered(p), r.hash)]
         /\ deferred' = [deferred EXCEPT ![p] = 0]
    ELSE /\ frontier' = [frontier EXCEPT ![p] = Append(@, r.hash)]
         /\ UNCHANGED deferred

\* Seeded fault: a due cut does not wait for the open spans.
CutNow_AnySpan(p, r, crossed) == due[p] \/ crossed

\* _maybe_rotate_locked: a due cut waits until no span is open.
CutNow(p, r, crossed) == (due[p] \/ crossed) /\ SpansAfter(p, r) = {}

\* _emit: encode, write, advance; then the thresholds are looked at.
Emit(p) ==
    /\ pc[p] = "ready" /\ counts["records"] < MaxRecords
    /\ \E kind \in Allowed(p) :
         \E span \in IF kind \in {"START", "END"} THEN Span ELSE {Null} :
         \E crossed \in BOOLEAN :
           LET r == Record(p, kind, span) IN
           /\ files' = [files EXCEPT ![path[p]] = Append(@, r)]
           /\ chain' = Append(chain, r)
           /\ spans' = [spans EXCEPT ![p] = SpansAfter(p, r)]
           /\ head' = [head EXCEPT ![p] = r.hash]
           /\ Cover(p, r)
           /\ due' = [due EXCEPT ![p] = (@ \/ crossed) /\ ~CutNow(p, r, crossed)]
           /\ pc' = IF CutNow(p, r, crossed) THEN [pc EXCEPT ![p] = "cut"] ELSE pc
    /\ must' = [must EXCEPT ![p] = "any"]
    /\ seq' = [seq EXCEPT ![p] = @ + 1]
    /\ counts' = [counts EXCEPT !["records"] = @ + 1]
    /\ UNCHANGED <<manifest, lock, path, boot, opened, entries>>

\* _rotate_core, first: the manifest calls the segment closed.
CutManifest(p) ==
    LET closed == [file |-> path[p], first |-> opened[p].first,
                   last |-> seq[p] - 1, head |-> head[p],
                   prev |-> opened[p].prev, covers |-> Covered(p)]
    IN
    /\ pc[p] = "cut"
    /\ entries' = [entries EXCEPT ![p] = Append(@, closed)]
    /\ manifest' = Append(entries[p], closed)
    /\ frontier' = [frontier EXCEPT ![p] = Covered(p)]
    /\ deferred' = [deferred EXCEPT ![p] = 0]
    /\ pc' = [pc EXCEPT ![p] = "successor"]
    /\ UNCHANGED <<files, chain, lock, path, must, boot, seq, head, spans, due,
                   opened, counts>>

FirstFree(n) == Min((n..(n + Cardinality(DOMAIN files))) \ DOMAIN files)

\* Seeded fault: the first name that is free.
NextSegment_FirstFree(p) == FirstFree(1)

\* A name no segment of this chain has had: _next_segment_path.
NextSegment(p) ==
    FirstFree(1 + Max({opened[p].ordinal, path[p]}
                      \cup {e.file : e \in Range(entries[p])}))

\* Then the successor appears, already holding its continuation record, which
\* names its place and the root of all that came before; the writer moves on.
CutSuccessor(p) ==
    LET n == NextSegment(p)
        r == [Record(p, "CONT", Null) EXCEPT !.ordinal = opened[p].ordinal + 1,
                                             !.root = frontier[p]]
    IN
    /\ pc[p] = "successor" /\ counts["records"] < MaxRecords
    /\ files' = Created(n, <<r>>)
    /\ chain' = Append(chain, r)
    /\ path' = [path EXCEPT ![p] = n]
    /\ opened' = [opened EXCEPT ![p] =
                     [first |-> r.seq, prev |-> r.prev, ordinal |-> r.ordinal]]
    /\ head' = [head EXCEPT ![p] = r.hash]
    /\ seq' = [seq EXCEPT ![p] = @ + 1]
    /\ Cover(p, r)
    /\ pc' = [pc EXCEPT ![p] = "ready"]
    /\ counts' = [counts EXCEPT !["records"] = @ + 1]
    /\ UNCHANGED <<manifest, lock, must, boot, spans, due, entries>>

Close(p) == /\ pc[p] = "ready"
            /\ Leave(p)
            /\ UNCHANGED <<diskVars, counts>>

-----------------------------------------------------------------------------
(* What happens to a writer.                                                *)

\* The process dies, anywhere; in the middle of a write it leaves a torn tail.
Crash(p) ==
    /\ pc[p] # "out"
    /\ \/ UNCHANGED files
       \/ /\ pc[p] = "ready"
          /\ files' = [files EXCEPT ![path[p]] = Append(@, Torn)]
    /\ Leave(p)
    /\ UNCHANGED <<manifest, chain, counts>>

\* External: a retention policy removes the oldest segment, a closed one.
Retire ==
    \E i \in DOMAIN files :
        /\ \A j \in DOMAIN files : i <= j
        /\ i # Newest
        /\ \E e \in Range(manifest) : e.file = i
        /\ \A p \in Proc : pc[p] # "out" => path[p] # i
        /\ files' = [j \in DOMAIN files \ {i} |-> files[j]]
        /\ UNCHANGED <<manifest, chain, lock, pc, memVars, counts>>

PalaNext == \/ \E p \in Proc :
                  \/ CheckFresh(p) \/ Start(p) \/ StartRefused(p)
                  \/ TakeLock(p) \/ Truncate(p) \/ ResumeRefused(p)
                  \/ ClosedRefused(p) \/ Adopt(p)
                  \/ Emit(p) \/ CutManifest(p) \/ CutSuccessor(p)
                  \/ Close(p) \/ Crash(p)
            \/ Retire

PalaSpec == PalaInit /\ [][PalaNext]_palaVars

-----------------------------------------------------------------------------
Item == [kind : {"GENESIS", "BOOT", "START", "END", "EVENT", "CONT", "TORN"},
         seq : Nat, prev : Nat, hash : Nat, boot : Nat, span : Span \cup {Null},
         ordinal : Nat, root : Seq(Nat)]
Entry == [file : Index, first : Nat, last : Nat, head : Nat, prev : Nat,
          covers : Seq(Nat)]

PalaTypeOK == /\ DOMAIN files \subseteq Index
              /\ \A i \in DOMAIN files : files[i] \in Seq(Item)
              /\ manifest \in Seq(Entry)
              /\ lock \in [Index -> Proc \cup {Null}]
              /\ pc \in [Proc -> {"out", "fresh", "scan", "ready", "cut", "successor"}]
              /\ path \in [Proc -> Index]
              /\ must \in [Proc -> {"GENESIS", "BOOT", "any"}]
              /\ boot \in [Proc -> Nat]
              /\ seq \in [Proc -> Nat]
              /\ head \in [Proc -> Nat]
              /\ spans \in [Proc -> SUBSET Span]
              /\ due \in [Proc -> BOOLEAN]
              /\ opened \in [Proc -> [first : Nat, prev : Nat, ordinal : Nat]]
              /\ entries \in [Proc -> Seq(Entry)]
              /\ frontier \in [Proc -> Seq(Nat)]
              /\ deferred \in [Proc -> Nat]
              /\ chain \in Seq(Item)
              /\ counts \in [{"records", "opens"} -> Nat]

Writing == {p \in Proc : pc[p] \in {"ready", "cut", "successor"}}

\* A writer's memory agrees with the disk, and only one has the chain open.
WriterInv ==
    /\ \A p, q \in Proc \ {r \in Proc : pc[r] \in {"out", "fresh"}} : p = q
    /\ \A p \in Proc :
         (\E i \in Index : lock[i] = p) <=> pc[p] \notin {"out", "fresh"}
    /\ \A p \in Writing :
         /\ path[p] = Newest /\ Clean(path[p])
         /\ seq[p] = Len(chain) /\ head[p] = HeadOf(chain)
         /\ entries[p] = manifest
         /\ must[p] = "GENESIS" <=> chain = <<>>
         /\ files[path[p]] # <<>> => /\ opened[p].first = files[path[p]][1].seq
                                    /\ opened[p].prev = files[path[p]][1].prev

\* Where in the chain a segment begins, by its first record, and where it ends.
Begin(i) == IF i = 0 THEN 0 ELSE files[i][1].seq
End(i) == Begin(i) + Len(Scanned(i))

\* How many records went with the segments that were removed.
Retired == IF DOMAIN files = {} THEN 0 ELSE Begin(Min(DOMAIN files))

\* No cut, crash or truncation loses, repeats or reorders a record: each segment
\* that is left is the piece of the chain that its first record says, each begins
\* where the one before it ends, and the newest ends where the chain does.
\* "No segment exists empty or with a torn first record", and a torn record
\* is only ever the last thing in the newest file: what a resume can repair.
\* (Part of OneChain.)
SegmentsHoldTheChain ==
    /\ DOMAIN files = {} => chain = <<>>
    /\ \A i \in DOMAIN files :
          /\ Scanned(i) = SubSeq(chain, Begin(i) + 1, End(i))
          /\ i = Newest => End(i) = Len(chain)
          /\ i # Newest => i + 1 \in DOMAIN files /\ Begin(i + 1) = End(i)
          /\ ~Damaged(i)
          /\ ~Clean(i) => i = Newest
          /\ i # 0 => Scanned(i) # <<>>

\* However often writers start, die and resume, and wherever the chain is cut,
\* there is one chain: every record names the one before it and carries the
\* next number, GENESIS is the first record and no other, and the first record
\* a resumed writer adds is BOOT, the cross-boot link, even when the resume
\* came in the middle of a cut.  What a writer holds in memory agrees with it,
\* and so does what is on disk.
OneChain == /\ PalaTypeOK /\ WriterInv /\ SegmentsHoldTheChain
            /\ Linear(chain)
            /\ \A k \in 1..Len(chain) :
                 /\ chain[k].seq = k - 1
                 /\ chain[k].kind = "GENESIS" <=> k = 1
            /\ \A k \in 2..Len(chain) :
                 chain[k].boot # chain[k - 1].boot => chain[k].kind = "BOOT"

\* "Resuming on a segment whose successor exists is refused"
\* (retention-continuation.md, issue 3): no writer adopts the tail of one.  The
\* code asks for a successor only where the manifest's last entry is the segment
\* itself, so that OneChain is about the resumes of Resumable without ResumeAny.
ClosedStaysClosed ==
    [][\A p \in Proc : pc[p] = "scan" /\ pc'[p] = "ready" =>
          Successors(Last(files[path[p]]).hash) = {}]_palaVars

\* The manifest is true at every moment, also between the steps of a cut: its
\* entries follow each other, and each states where its segment begins and
\* ends and the root up to there; every segment but the newest has an entry.
\* "A new segment's name is never one an earlier segment of the chain has had,
\* even after that segment was deleted": a file under a name the manifest lists
\* is the segment it lists, and a new name is past all of them.
ManifestIsTrue ==
    /\ \A k \in 1..Len(manifest) :
         LET e == manifest[k]
         IN  /\ e.first = (IF k = 1 THEN 0 ELSE manifest[k - 1].last + 1)
             /\ e.prev = (IF k = 1 THEN Genesis ELSE manifest[k - 1].head)
             /\ e.head = chain[e.last + 1].hash
             /\ e.covers = HashesOf(SubSeq(chain, 1, e.last + 1))
             /\ e.file \in DOMAIN files =>
                  Scanned(e.file) = SubSeq(chain, e.first + 1, e.last + 1)
    /\ \A i \in DOMAIN files \ {Newest} : \E e \in Range(manifest) : e.file = i
    /\ \A k \in 2..Len(manifest) : manifest[k - 1].file < manifest[k].file
    /\ manifest # <<>> => Last(manifest).file <= Newest

\* A cut never severs a span: a span the writer opened before its continuation
\* record is closed before it too.  (Part of RootCoversChain.)
NoSpanSevered ==
    \A s, c \in 1..Len(chain) :
        /\ s < c /\ chain[s].kind = "START" /\ chain[c].kind = "CONT"
        /\ chain[s].boot = chain[c].boot
        => \E e \in s..c : /\ chain[e].kind = "END"
                           /\ chain[e].span = chain[s].span

\* The root a writer states covers every record from seq 0, whether it started
\* the chain, resumed it or a later segment, and whatever was removed; and
\* each continuation record stands where no span is severed, and declares the
\* root and the place that are its own.
RootCoversChain ==
    /\ NoSpanSevered
    /\ \A p \in Writing : Covered(p) = HashesOf(chain)
    /\ \A k \in 1..Len(chain) : chain[k].kind = "CONT" =>
         /\ chain[k].root = HashesOf(SubSeq(chain, 1, k - 1))
         /\ chain[k].ordinal =
              Cardinality({j \in 1..k : chain[j].kind = "CONT"})

\* A chain of segments implements what every log here promises: records are
\* only added at the end, chained, and what is gone is a beginning that only
\* grows.  (That `chain` is what the disk holds is SegmentsHoldTheChain.)
Abstract == INSTANCE AppendOnlyLog WITH log <- chain, mark <- Retired
ImplementsAppendOnlyLog == Abstract!Spec
=============================================================================
