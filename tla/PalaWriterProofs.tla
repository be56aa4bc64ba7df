-------------------------- MODULE PalaWriterProofs --------------------------
(***************************************************************************)
(* Proofs about PalaWriter, and about the verdict of SegmentSet over what  *)
(* it leaves on disk, for any number of processes, records, segments and   *)
(* spans, where writers are started on an empty path and resumed on the    *)
(* newest segment or the one that was closed last (the two doors of the    *)
(* module are shut).                                                       *)
(***************************************************************************)
EXTENDS SegmentSet, FiniteSetTheorems, SequenceTheorems, WellFoundedInduction, TLAPS

-----------------------------------------------------------------------------
(* The invariants.                                                          *)

\* The hashes of the first n records: a record's hash is its place.
Upto(n) == [k \in 1..n |-> k]

\* A torn record is at the end, and what is complete.
HasTorn(i) == files[i] # <<>> /\ files[i][Len(files[i])] = Torn
Whole(i) == IF HasTorn(i) THEN Len(files[i]) - 1 ELSE Len(files[i])

\* Records stand in their places, GENESIS first, and boots begin with BOOT.
ChainInv ==
    /\ counts["records"] = Len(chain)
    /\ \A k \in 1..Len(chain) :
          /\ chain[k].seq = k - 1 /\ chain[k].prev = k - 1 /\ chain[k].hash = k
          /\ chain[k].kind = "GENESIS" <=> k = 1
          /\ k # 1 /\ chain[k].boot # chain[k - 1].boot => chain[k].kind = "BOOT"

\* The segments have consecutive names and hold the end of the chain, piece by
\* piece; only the newest one may end in a torn record.
FilesInv ==
    /\ DOMAIN files = {} => chain = <<>>
    /\ \A i, j \in DOMAIN files : \A k \in i..j : k \in DOMAIN files
    /\ \A i \in DOMAIN files :
          /\ \A k \in 1..Len(files[i]) :
                IF files[i][k] = Torn
                THEN k = Len(files[i]) /\ i = Newest /\ (k = 1 => i = 0)
                ELSE /\ Begin(i) + k \in 1..Len(chain)
                     /\ files[i][k] = chain[Begin(i) + k]
          /\ i # 0 => files[i] # <<>> /\ files[i][1].ordinal = i
          /\ i <= Begin(i)
          /\ i = Newest => Begin(i) + Whole(i) = Len(chain)
          /\ i # Newest => /\ files[i] # <<>>
                           /\ Begin(i + 1) = Begin(i) + Len(files[i])

\* The manifest lists the segments before the newest one, and that one too
\* while a cut is under way, or was broken off, after its first step.
Cutting == Len(manifest) = Newest + 1
ManifestInv ==
    /\ Len(manifest) = Newest \/ Cutting
    /\ \A k \in 1..Len(manifest) :
          LET e == manifest[k] IN
          /\ e.file = k - 1
          /\ e.first = (IF k = 1 THEN 0 ELSE manifest[k - 1].last + 1)
          /\ e.prev = e.first /\ e.head = e.last + 1
          /\ e.last + 1 \in 1..Len(chain)
          /\ e.covers = Upto(e.last + 1)
          /\ k \in DOMAIN files => Begin(k) = e.last + 1
    /\ Cutting => /\ ~HasTorn(Newest) /\ chain # <<>>
                  /\ manifest[Newest + 1].last + 1 = Len(chain)

\* One lock serves the whole chain, and whoever is inside has it.
Inside == {p \in Proc : pc[p] \notin {"out", "fresh"}}
LockInv ==
    /\ \A p \in Proc : lock[0] = p <=> p \in Inside
    /\ \A i \in Index \ {0} : lock[i] = Null

\* What is not set yet of a writer's fields.
Blank(p) == /\ must[p] = "GENESIS" /\ seq[p] = 0 /\ head[p] = Genesis
            /\ spans[p] = {} /\ opened[p] = Nothing
            /\ frontier[p] = <<>> /\ deferred[p] = 0

\* What a writer's frontier, deferred or not, covers.
FrontierInv(p) ==
    /\ deferred[p] + Len(frontier[p]) = Len(chain)
    /\ \A k \in 1..Len(frontier[p]) : frontier[p][k] = deferred[p] + k
    /\ deferred[p] # 0 => path[p] = 0

\* What a writer has in memory is what is on disk.
MemoryInv(p) ==
    /\ p \notin Writing => Blank(p)
    /\ pc[p] \in {"out", "fresh"} => path[p] = 0
    /\ pc[p] = "scan" => /\ path[p] \in DOMAIN files /\ files[path[p]] # <<>>
                         /\ \/ path[p] = Newest
                            \/ manifest # <<>> /\ Last(manifest).file = path[p]
    /\ p \in Writing =>
          /\ path[p] = Newest /\ Newest \in DOMAIN files /\ ~HasTorn(Newest)
          /\ seq[p] = Len(chain) /\ head[p] = Len(chain)
          /\ entries[p] = manifest
          /\ must[p] = "GENESIS" <=> chain = <<>>
          /\ opened[p] = [first |-> Begin(Newest), prev |-> Begin(Newest),
                          ordinal |-> Newest]
          /\ FrontierInv(p)
          /\ Cutting <=> pc[p] = "successor"
          /\ pc[p] # "ready" => must[p] = "any" /\ spans[p] = {}
          /\ pc[p] = "successor" => deferred[p] = 0

\* Boots are told apart, and a boot's first record is the next one.
BootInv ==
    /\ \A k \in 1..Len(chain) : chain[k].boot <= counts["opens"]
    /\ \A p \in Proc : pc[p] # "out" =>
          /\ boot[p] <= counts["opens"]
          /\ \A q \in Proc \ {p} : pc[q] # "out" => boot[p] # boot[q]
          /\ IF must[p] = "any" THEN chain # <<>> /\ chain[Len(chain)].boot = boot[p]
             ELSE \A k \in 1..Len(chain) : chain[k].boot # boot[p]

\* A span of a writer is among its open spans until its end is on record.
SpanInv ==
    /\ \A p \in Writing : \A s \in 1..Len(chain) :
          chain[s].kind = "START" /\ chain[s].boot = boot[p] =>
             \/ chain[s].span \in spans[p]
             \/ \E e \in s..Len(chain) : chain[e].kind = "END" /\ chain[e].span = chain[s].span
    /\ NoSpanSevered

\* Continuation records are counted, by the names of the segments too.
Conts(n) == {j \in 1..n : chain[j].kind = "CONT"}
ContInv ==
    /\ Cardinality(Conts(Len(chain))) = Newest
    /\ \A k \in 1..Len(chain) : chain[k].kind = "CONT" =>
          /\ chain[k].root = Upto(k - 1)
          /\ chain[k].ordinal = Cardinality(Conts(k))

DiskInv == ChainInv /\ FilesInv /\ ManifestInv
IInv == /\ PalaTypeOK /\ DiskInv /\ LockInv
        /\ \A p \in Proc : MemoryInv(p)
        /\ BootInv /\ SpanInv /\ ContInv

-----------------------------------------------------------------------------
(* Numbers, and the newest and the oldest of some names.                    *)

\* A set of natural numbers that is not empty has a least member.
LEMMA LeastNat ==
    ASSUME NEW S, S \subseteq Nat, S # {}
    PROVE  \E x \in S : \A y \in S : x <= y
<1> DEFINE Less == {ss \in Nat \X Nat : ss[1] < ss[2]}
<1>1. IsWellFoundedOn(Less, Nat)
  BY NatLessThanWellFounded DEF OpToRel
<1> HIDE DEF Less
<1>2. \E x \in S : \A y \in S : ~(<<y, x>> \in Less)
  BY <1>1, WFMin
<1>3. PICK x \in S : \A y \in S : ~(<<y, x>> \in Less)
  BY <1>2
<1>4. \A y \in S : ~(y < x)
  BY <1>3 DEF Less
<1> QED BY <1>4

\* Min is the least member, and the only one.
LEMMA MinFacts ==
    ASSUME NEW S, S \subseteq Nat, S # {}
    PROVE  /\ Min(S) \in S /\ \A y \in S : Min(S) <= y
           /\ \A x \in S : (\A y \in S : x <= y) => x = Min(S)
<1>1. Min(S) \in S /\ \A y \in S : Min(S) <= y
  BY LeastNat DEF Min
<1>2. ASSUME NEW x \in S, \A y \in S : x <= y
      PROVE  x = Min(S)
  <2> DEFINE m == Min(S)
  <2>1. m \in Nat /\ x \in Nat /\ m <= x /\ x <= m
    BY <1>1, <1>2
  <2> HIDE DEF m
  <2>2. m = x
    BY <2>1
  <2> QED BY <2>2 DEF m
<1> QED BY <1>1, <1>2

\* Max is the greatest member of a set that has a bound, and the only one.
LEMMA MaxFacts ==
    ASSUME NEW S, NEW n \in Nat, S \subseteq 0..n, S # {}
    PROVE  /\ Max(S) \in S /\ \A y \in S : y <= Max(S)
           /\ \A x \in S : (\A y \in S : y <= x) => x = Max(S)
<1> DEFINE T == {k \in 0..n : n - k \in S}
<1>1. T \subseteq Nat /\ T # {}
  <2>1. PICK s \in S : TRUE
    OBVIOUS
  <2>2. n - s \in T
    BY <2>1
  <2> QED BY <2>2
<1>2. PICK t \in T : \A u \in T : t <= u
  BY <1>1, LeastNat
<1>3. n - t \in S /\ \A y \in S : n - y \in T
  BY <1>2
<1>4. \A y \in S : n - t >= y
  <2> TAKE y \in S
  <2>1. t <= n - y /\ y \in Nat /\ t \in 0..n
    BY <1>2, <1>3
  <2> QED BY <2>1
<1> HIDE DEF T
<1>5. Max(S) \in S /\ \A y \in S : Max(S) >= y
  BY <1>3, <1>4 DEF Max
<1>6. ASSUME NEW x \in S, \A y \in S : y <= x
      PROVE  x = Max(S)
  <2> DEFINE m == Max(S)
  <2>1. m \in 0..n /\ x \in 0..n
    BY <1>5
  <2>3. m <= x
    BY <1>5, <1>6
  <2>4. m >= x
    BY <1>5
  <2> HIDE DEF m
  <2>2. m = x
    BY <2>1, <2>3, <2>4
  <2> QED BY <2>2 DEF m
<1>7. \A y \in S : y <= Max(S)
  <2> TAKE y \in S
  <2>1. y \in 0..n /\ Max(S) \in 0..n /\ Max(S) >= y
    BY <1>5
  <2> QED BY <2>1
<1> QED BY <1>5, <1>6, <1>7

\* The newest segment is one of those there are, if there are any.
LEMMA NewestFacts ==
    ASSUME DOMAIN files \subseteq Index
    PROVE  /\ Newest \in Nat /\ Newest \in Index
           /\ \A i \in DOMAIN files : i \in Nat /\ i <= Newest
           /\ DOMAIN files # {} => Newest \in DOMAIN files
           /\ DOMAIN files \subseteq {0} => Newest = 0
           /\ \A i \in DOMAIN files : (\A j \in DOMAIN files : j <= i) => i = Newest
<1> DEFINE S == {0} \cup DOMAIN files
<1>1. S \subseteq 0..MaxRecords /\ S # {} /\ MaxRecords \in Nat
  BY BoundsAssumption DEF Index
<1>2. Newest = Max(S)
  BY DEF Newest
<1> HIDE DEF S
<1>3. /\ Newest \in S /\ \A y \in S : y <= Newest
      /\ \A x \in S : (\A y \in S : y <= x) => x = Newest
  BY <1>1, <1>2, MaxFacts
<1>4. /\ Newest \in Nat /\ Newest \in Index
      /\ \A i \in DOMAIN files : i \in Nat /\ i <= Newest
  BY <1>1, <1>3 DEF S, Index
<1>5. DOMAIN files # {} => Newest \in DOMAIN files
  BY <1>3, <1>4 DEF S
<1>6. DOMAIN files \subseteq {0} => Newest = 0
  BY <1>3 DEF S
<1>7. ASSUME NEW i \in DOMAIN files, \A j \in DOMAIN files : j <= i
      PROVE  i = Newest
  <2>1. i \in S /\ \A y \in S : y <= i
    BY <1>4, <1>7 DEF S
  <2> QED BY <1>3, <2>1
<1> QED BY <1>4, <1>5, <1>6, <1>7

\* The same of the next state.
LEMMA NewestLater ==
    (DOMAIN files \subseteq Index)' =>
        (/\ Newest \in Nat /\ Newest \in Index
         /\ \A i \in DOMAIN files : i \in Nat /\ i <= Newest
         /\ DOMAIN files # {} => Newest \in DOMAIN files
         /\ DOMAIN files \subseteq {0} => Newest = 0
         /\ \A i \in DOMAIN files : (\A j \in DOMAIN files : j <= i) => i = Newest)'
<1>1. DOMAIN files \subseteq Index =>
        /\ Newest \in Nat /\ Newest \in Index
        /\ \A i \in DOMAIN files : i \in Nat /\ i <= Newest
        /\ DOMAIN files # {} => Newest \in DOMAIN files
        /\ DOMAIN files \subseteq {0} => Newest = 0
        /\ \A i \in DOMAIN files : (\A j \in DOMAIN files : j <= i) => i = Newest
  BY NewestFacts
<1> QED BY <1>1, PTL

-----------------------------------------------------------------------------
(* What is read of a file.                                                  *)

\* The beginning of a sequence.
LEMMA PrefixFacts ==
    ASSUME NEW T, NEW s \in Seq(T), NEW m \in 0..Len(s)
    PROVE  /\ SubSeq(s, 1, m) \in Seq(T) /\ Len(SubSeq(s, 1, m)) = m
           /\ \A k \in 1..m : SubSeq(s, 1, m)[k] = s[k]
<1>1. Len(s) \in Nat /\ \A k \in 1..m : s[k] \in T
  BY ElementOfSeq
<1> QED BY <1>1

\* What a file is read as whose only torn record is its last.
LEMMA ScanFacts ==
    ASSUME NEW i \in DOMAIN files, files[i] \in Seq(Item),
           \A k \in 1..Len(files[i]) : files[i][k] = Torn => k = Len(files[i])
    PROVE  /\ Clean(i) <=> ~HasTorn(i)
           /\ ~Damaged(i)
           /\ Scanned(i) \in Seq(Item) /\ Len(Scanned(i)) = Whole(i)
           /\ Whole(i) \in 0..Len(files[i])
           /\ \A k \in 1..Whole(i) : Scanned(i)[k] = files[i][k] /\ files[i][k] # Torn
           /\ Clean(i) => Scanned(i) = files[i]
<1> DEFINE n == Len(files[i])
           I == {k \in 1..n : files[i][k] = Torn}
<1>1. n \in Nat /\ (files[i] # <<>> <=> n > 0)
  BY EmptySeq
<1>2. TornAt(i) = IF I # {} THEN Min(I) ELSE 0
  BY DEF TornAt, SelectInSeq
<1>3. I = (IF HasTorn(i) THEN {n} ELSE {})
  BY <1>1 DEF HasTorn
<1> HIDE DEF I
<1>4. HasTorn(i) => n > 0
  BY <1>1 DEF HasTorn
<1>5. Min({n}) = n
  <2>1. {n} \subseteq Nat /\ {n} # {}
    BY <1>1
  <2> QED BY <2>1, MinFacts
<1>6. /\ HasTorn(i) => TornAt(i) = n /\ n # 0
      /\ ~HasTorn(i) => TornAt(i) = 0
  <2>1. CASE HasTorn(i)
    <3>1. I = {n} /\ {n} # {} /\ n # 0
      BY <1>1, <1>3, <1>4, <2>1
    <3> QED BY <1>2, <1>5, <2>1, <3>1
  <2>2. CASE ~HasTorn(i)
    BY <1>2, <1>3, <2>2
  <2> QED BY <2>1, <2>2
<1>7. Clean(i) <=> ~HasTorn(i)
  BY <1>6 DEF Clean
<1>8. ~Damaged(i)
  BY <1>1, <1>6 DEF Damaged
<1>9. Whole(i) \in 0..n
  BY <1>1, <1>4 DEF Whole
<1>10. CASE HasTorn(i)
  <2>1. Scanned(i) = SubSeq(files[i], 1, n - 1) /\ Whole(i) = n - 1
    BY <1>6, <1>10 DEF Scanned, Whole
  <2>2. \A k \in 1..(n - 1) : files[i][k] \in Item /\ files[i][k] # Torn
    BY <1>1, ElementOfSeq
  <2>3. /\ Scanned(i) \in Seq(Item) /\ Len(Scanned(i)) = n - 1
        /\ \A k \in 1..(n - 1) : Scanned(i)[k] = files[i][k]
    <3> DEFINE m == n - 1
    <3>1. m \in 0..Len(files[i])
      BY <1>1, <1>4, <1>10
    <3>2. Scanned(i) = SubSeq(files[i], 1, m)
      BY <2>1
    <3> HIDE DEF m
    <3>3. /\ Scanned(i) \in Seq(Item) /\ Len(Scanned(i)) = m
          /\ \A k \in 1..m : Scanned(i)[k] = files[i][k]
      BY <3>1, <3>2, PrefixFacts
    <3> QED BY <3>3 DEF m
  <2> QED BY <1>7, <1>8, <1>9, <1>10, <2>1, <2>2, <2>3
<1>11. CASE ~HasTorn(i)
  <2>1. Scanned(i) = files[i] /\ Whole(i) = n
    BY <1>6, <1>11 DEF Scanned, Whole
  <2>2. \A k \in 1..n : files[i][k] # Torn
    BY <1>1, <1>11 DEF HasTorn
  <2> QED BY <1>7, <1>8, <1>9, <2>1, <2>2
<1> QED BY <1>10, <1>11

-----------------------------------------------------------------------------
(* What the invariants say of the disk.                                     *)

\* The records of the chain are items, and none of them is torn.
LEMMA ChainFacts ==
    ASSUME PalaTypeOK, ChainInv
    PROVE  /\ Len(chain) \in Nat /\ (chain = <<>> <=> Len(chain) = 0)
           /\ \A k \in 1..Len(chain) : chain[k] \in Item /\ chain[k] # Torn
<1>1. chain \in Seq(Item)
  BY DEF PalaTypeOK
<1>2. Len(chain) \in Nat /\ (chain = <<>> <=> Len(chain) = 0)
  BY <1>1, EmptySeq
<1>3. \A k \in 1..Len(chain) : chain[k] \in Item
  BY <1>1, ElementOfSeq
<1>4. \A k \in 1..Len(chain) : chain[k].hash = k /\ k # 0
  BY <1>2 DEF ChainInv
<1>5. Torn.hash = 0
  BY DEF Torn, Genesis
<1> QED BY <1>2, <1>3, <1>4, <1>5

\* What is read of a segment, and where it begins.
LEMMA FileFacts ==
    ASSUME PalaTypeOK, ChainInv, FilesInv, NEW i \in DOMAIN files
    PROVE  /\ files[i] \in Seq(Item) /\ Len(files[i]) \in Nat
           /\ files[i] = <<>> <=> Len(files[i]) = 0
           /\ Clean(i) <=> ~HasTorn(i)
           /\ ~Damaged(i)
           /\ Scanned(i) \in Seq(Item) /\ Len(Scanned(i)) = Whole(i)
           /\ Whole(i) \in 0..Len(files[i])
           /\ \A k \in 1..Whole(i) : /\ Scanned(i)[k] = files[i][k]
                                     /\ files[i][k] # Torn
                                     /\ Begin(i) + k \in 1..Len(chain)
                                     /\ files[i][k] = chain[Begin(i) + k]
           /\ Clean(i) => Scanned(i) = files[i]
           /\ i \in Nat /\ Begin(i) \in Nat
<1>1. files[i] \in Seq(Item) /\ DOMAIN files \subseteq Index
  BY DEF PalaTypeOK
<1>2. /\ Len(files[i]) \in Nat /\ (files[i] = <<>> <=> Len(files[i]) = 0)
      /\ \A k \in 1..Len(files[i]) : files[i][k] \in Item
  BY <1>1, EmptySeq, ElementOfSeq
<1>3. \A k \in 1..Len(files[i]) : files[i][k] = Torn => k = Len(files[i])
  BY DEF FilesInv
<1>4. /\ Clean(i) <=> ~HasTorn(i)
      /\ ~Damaged(i)
      /\ Scanned(i) \in Seq(Item) /\ Len(Scanned(i)) = Whole(i)
      /\ Whole(i) \in 0..Len(files[i])
      /\ \A k \in 1..Whole(i) : Scanned(i)[k] = files[i][k] /\ files[i][k] # Torn
      /\ Clean(i) => Scanned(i) = files[i]
  BY <1>1, <1>3, ScanFacts
<1>5. \A k \in 1..Whole(i) : /\ Begin(i) + k \in 1..Len(chain)
                             /\ files[i][k] = chain[Begin(i) + k]
  <2> TAKE k \in 1..Whole(i)
  <2>1. k \in 1..Len(files[i]) /\ files[i][k] # Torn
    BY <1>2, <1>4
  <2> QED BY <2>1 DEF FilesInv
<1>6. i \in Nat
  BY <1>1, BoundsAssumption DEF Index
<1>7. Begin(i) \in Nat
  <2>1. CASE i = 0
    BY <2>1 DEF Begin
  <2>2. CASE i # 0
    <3>1. files[i][1] \in Item
      BY <1>2, <2>2 DEF FilesInv
    <3> QED BY <2>2, <3>1 DEF Begin, Item
  <2> QED BY <2>1, <2>2
<1> QED BY <1>1, <1>2, <1>4, <1>5, <1>6, <1>7

\* The first record of a segment says where it begins.
LEMMA FirstFacts ==
    ASSUME PalaTypeOK, ChainInv, FilesInv, NEW i \in DOMAIN files
    PROVE  /\ Whole(i) > 0 => /\ files[i][1].seq = Begin(i)
                              /\ files[i][1].prev = Begin(i)
                              /\ files[i][1] # Torn
                              /\ SegmentOrdinal(files[i][1]) = i
           /\ i # 0 => Whole(i) > 0
           /\ i # Newest => Clean(i) /\ Whole(i) = Len(files[i]) /\ Whole(i) > 0
<1>1. /\ files[i] \in Seq(Item) /\ Len(files[i]) \in Nat /\ i \in Nat
      /\ files[i] = <<>> <=> Len(files[i]) = 0
      /\ Clean(i) <=> ~HasTorn(i)
      /\ Begin(i) \in Nat /\ Whole(i) \in 0..Len(files[i])
      /\ \A k \in 1..Whole(i) : /\ Begin(i) + k \in 1..Len(chain)
                                /\ files[i][k] = chain[Begin(i) + k]
                                /\ files[i][k] # Torn
  BY FileFacts
<1>2. ASSUME i # 0 PROVE Whole(i) > 0
  <2>1. files[i] # <<>> /\ Len(files[i]) >= 1
    BY <1>1, <1>2 DEF FilesInv
  <2>2. files[i][Len(files[i])] = Torn => Len(files[i]) # 1
    BY <1>1, <1>2, <2>1 DEF FilesInv
  <2>3. CASE HasTorn(i)
    <3> DEFINE n == Len(files[i])
    <3>1. n # 1
      BY <2>2, <2>3 DEF HasTorn
    <3>2. Whole(i) = n - 1
      BY <2>3 DEF Whole
    <3>3. n \in Nat /\ n >= 1
      BY <1>1, <2>1
    <3> HIDE DEF n
    <3>4. n - 1 > 0
      BY <3>1, <3>3
    <3> QED BY <3>2, <3>4
  <2>4. CASE ~HasTorn(i)
    BY <1>1, <2>1, <2>4 DEF Whole
  <2> QED BY <2>3, <2>4
<1>3. ASSUME Whole(i) > 0
      PROVE  /\ files[i][1].seq = Begin(i) /\ files[i][1].prev = Begin(i)
             /\ files[i][1] # Torn /\ SegmentOrdinal(files[i][1]) = i
  <2>1. /\ Begin(i) + 1 \in 1..Len(chain) /\ files[i][1] = chain[Begin(i) + 1]
        /\ files[i][1] # Torn
    BY <1>1, <1>3
  <2>2. files[i][1].seq = Begin(i) /\ files[i][1].prev = Begin(i)
    BY <1>1, <2>1 DEF ChainInv
  <2>3. CASE i = 0
    BY <2>1, <2>2, <2>3 DEF SegmentOrdinal, Begin
  <2>4. CASE i # 0
    <3>1. files[i][1].ordinal = i /\ i <= Begin(i)
      BY <2>4 DEF FilesInv
    <3> QED BY <1>1, <2>1, <2>2, <2>4, <3>1 DEF SegmentOrdinal
  <2> QED BY <2>3, <2>4
<1>4. ASSUME i # Newest PROVE Clean(i) /\ Whole(i) = Len(files[i]) /\ Whole(i) > 0
  <2>1. files[i] # <<>> /\ Len(files[i]) >= 1
    BY <1>1, <1>4 DEF FilesInv
  <2>2. ~HasTorn(i)
    BY <1>1, <1>4, <2>1 DEF FilesInv, HasTorn
  <2> QED BY <1>1, <2>1, <2>2 DEF Whole
<1> QED BY <1>2, <1>3, <1>4

\* The newest segment ends where the chain does, and has its last record.
LEMMA NewestEnds ==
    ASSUME PalaTypeOK, ChainInv, FilesInv, DOMAIN files # {}
    PROVE  /\ Newest \in DOMAIN files
           /\ Begin(Newest) + Whole(Newest) = Len(chain)
           /\ Newest <= Begin(Newest)
           /\ chain # <<>> => Whole(Newest) > 0 /\ files[Newest] # <<>>
<1>1. Newest \in DOMAIN files
  BY NewestFacts DEF PalaTypeOK
<1>2. Begin(Newest) + Whole(Newest) = Len(chain) /\ Newest <= Begin(Newest)
  BY <1>1 DEF FilesInv
<1>3. ASSUME chain # <<>> PROVE Whole(Newest) > 0 /\ files[Newest] # <<>>
  <2>1. Newest = 0 => Begin(Newest) = 0
    BY DEF Begin
  <2>2. Whole(Newest) \in 0..Len(files[Newest]) /\ Len(files[Newest]) \in Nat
    BY <1>1, FileFacts
  <2>3. Len(chain) \in Nat /\ Len(chain) # 0
    BY <1>3, ChainFacts
  <2>4. Whole(Newest) > 0
    BY <1>1, <1>2, <2>1, <2>2, <2>3, FirstFacts
  <2> QED BY <1>1, <2>2, <2>4, FileFacts
<1> QED BY <1>1, <1>2, <1>3

\* Where PalaWriter(path) may begin there is nothing yet.
LEMMA NothingYet ==
    ASSUME PalaTypeOK, DiskInv, NoChain
    PROVE  /\ chain = <<>> /\ Len(chain) = 0
           /\ manifest = <<>> /\ Newest = 0 /\ DOMAIN files \subseteq {0}
           /\ 0 \in DOMAIN files => files[0] = <<>>
<1>1. DOMAIN files \subseteq {0} /\ (0 \in DOMAIN files => files[0] = <<>>)
  BY DEF NoChain, NoBytes
<1>2. Newest = 0
  BY <1>1, NewestFacts DEF PalaTypeOK
<1>3. chain = <<>>
  <2>1. CASE DOMAIN files = {}
    BY <2>1 DEF DiskInv, FilesInv
  <2>2. CASE DOMAIN files # {}
    <3>1. 0 \in DOMAIN files /\ files[0] = <<>>
      BY <1>1, <2>2
    <3> QED BY <1>2, <2>2, <3>1, NewestEnds DEF DiskInv
  <2> QED BY <2>1, <2>2
<1>4. manifest = <<>>
  <2>1. manifest \in Seq(Entry)
    BY DEF PalaTypeOK
  <2>2. Len(manifest) = 0
    BY <1>2, <1>3 DEF DiskInv, ManifestInv
  <2> QED BY <2>1, <2>2, EmptySeq
<1> QED BY <1>1, <1>2, <1>3, <1>4, ChainFacts DEF DiskInv

\* One lock name serves all segments.
LEMMA OneLockName ==
    ASSUME PalaTypeOK, DiskInv, NEW i \in DOMAIN files
    PROVE  LockName(i) = 0
<1>1. CASE manifest # <<>>
  BY <1>1 DEF LockName
<1>2. CASE manifest = <<>>
  <2>1. Newest \in Nat /\ i <= Newest /\ i \in Nat
    BY NewestFacts DEF PalaTypeOK
  <2>2. Newest = 0
    BY <1>2, <2>1, EmptySeq DEF DiskInv, ManifestInv, Cutting
  <2> QED BY <1>2, <2>1, <2>2 DEF LockName
<1> QED BY <1>1, <1>2

LEMMA BaseLockName == LockName(0) = 0
BY DEF LockName

-----------------------------------------------------------------------------
(* What each step does to the disk.                                         *)

DiskTypes == /\ DOMAIN files \subseteq Index
             /\ \A i \in DOMAIN files : files[i] \in Seq(Item)
             /\ manifest \in Seq(Entry)
             /\ chain \in Seq(Item)
             /\ counts \in [{"records", "opens"} -> Nat]

LEMMA TypeDisk == PalaTypeOK => DiskTypes
BY DEF PalaTypeOK, DiskTypes

\* Nothing on disk changes.
LEMMA DiskKept ==
    ASSUME PalaTypeOK, DiskInv, UNCHANGED diskVars, counts'["records"] = counts["records"],
           counts' \in [{"records", "opens"} -> Nat]
    PROVE  DiskTypes' /\ DiskInv' /\ Newest' = Newest /\ (Cutting' <=> Cutting)
<1>1. files' = files /\ manifest' = manifest /\ chain' = chain
  BY DEF diskVars
<1>2. Newest' = Newest
  BY <1>1 DEF Newest
<1>3. (Cutting' <=> Cutting) /\ DiskTypes'
  BY <1>1, <1>2, TypeDisk DEF Cutting, DiskTypes
<1>4. ChainInv'
  BY <1>1 DEF DiskInv, ChainInv
<1>5. \A i : Begin(i)' = Begin(i) /\ HasTorn(i)' = HasTorn(i) /\ Whole(i)' = Whole(i)
  BY <1>1 DEF Begin, HasTorn, Whole
<1>6. FilesInv'
  BY <1>1, <1>2, <1>5 DEF DiskInv, FilesInv
<1>7. ManifestInv'
  BY <1>1, <1>2, <1>3, <1>5 DEF DiskInv, ManifestInv
<1> QED BY <1>2, <1>3, <1>4, <1>6, <1>7 DEF DiskInv

\* The first writer creates the base, or finds it empty.
LEMMA DiskStarted ==
    ASSUME PalaTypeOK, DiskInv, NoChain, DOMAIN files' = {0}, files'[0] = <<>>,
           UNCHANGED <<manifest, chain, counts>>
    PROVE  DiskTypes' /\ DiskInv' /\ Newest' = 0 /\ ~Cutting' /\ ~HasTorn(0)'
<1>1. /\ chain = <<>> /\ Len(chain) = 0 /\ manifest = <<>> /\ Newest = 0
      /\ Len(manifest) = 0
  BY NothingYet, EmptySeq
<1>2. DiskTypes'
  <2>1. DOMAIN files' \subseteq Index
    BY BoundsAssumption DEF Index
  <2>2. \A i \in DOMAIN files' : files'[i] \in Seq(Item)
    <3>1. <<>> \in Seq(Item)
      BY EmptySeq
    <3> QED BY <3>1
  <2> QED BY <2>1, <2>2, TypeDisk DEF DiskTypes
<1>3. Newest' = 0
  <2>1. DOMAIN files' \subseteq Index /\ DOMAIN files' \subseteq {0}
    BY <1>2 DEF DiskTypes
  <2> QED BY <2>1, NewestLater
<1>4. ~Cutting' /\ ManifestInv'
  BY <1>1, <1>3 DEF Cutting, ManifestInv
<1>5. ChainInv'
  BY DEF DiskInv, ChainInv
<1>6. Begin(0)' = 0 /\ ~HasTorn(0)' /\ Whole(0)' = 0 /\ Len(files'[0]) = 0
  BY EmptySeq DEF Begin, HasTorn, Whole
<1>7. FilesInv'
  <2>1. \A i, j \in DOMAIN files' : \A k \in i..j : k \in DOMAIN files'
    OBVIOUS
  <2>2. ASSUME NEW i \in DOMAIN files'
        PROVE  /\ i = 0 /\ i <= Begin(i)'
               /\ Begin(i)' + Whole(i)' = Len(chain')
               /\ \A k \in 1..Len(files'[i]) : FALSE
    BY <1>1, <1>6
  <2> QED BY <1>3, <2>1, <2>2 DEF FilesInv
<1> QED BY <1>2, <1>3, <1>4, <1>5, <1>6, <1>7 DEF DiskInv

\* The tail of the newest segment is torn, or a torn tail is cut off.
LEMMA DiskRewritten ==
    ASSUME PalaTypeOK, DiskInv, NEW m \in DOMAIN files, m = Newest,
           NEW w, w = Whole(m), NEW s \in Seq(Item),
           files' = [files EXCEPT ![m] = s],
           UNCHANGED <<manifest, chain, counts>>,
           Len(s) \in {w, w + 1},
           \A k \in 1..w : s[k] = files[m][k],
           Len(s) = w + 1 => s[Len(s)] = Torn /\ ~Cutting
    PROVE  /\ DiskTypes' /\ DiskInv' /\ Newest' = m /\ (Cutting' <=> Cutting)
           /\ Begin(m)' = Begin(m)
           /\ HasTorn(m)' <=> Len(s) = w + 1
<1>1. /\ m \in DOMAIN files /\ Begin(m) + w = Len(chain) /\ m <= Begin(m)
  BY NewestEnds DEF DiskInv
<1>2. /\ files[m] \in Seq(Item) /\ w \in Nat /\ m \in Nat /\ Begin(m) \in Nat
      /\ \A k \in 1..w : /\ Begin(m) + k \in 1..Len(chain)
                         /\ files[m][k] = chain[Begin(m) + k]
                         /\ files[m][k] # Torn
      /\ m # 0 => w > 0
  <2>1. Len(files[m]) \in Nat /\ w \in 0..Len(files[m])
    BY <1>1, FileFacts DEF DiskInv
  <2> QED BY <1>1, <2>1, FileFacts, FirstFacts DEF DiskInv
<1>3. /\ DOMAIN files' = DOMAIN files /\ files'[m] = s
      /\ \A j \in DOMAIN files : j # m => files'[j] = files[j]
  BY <1>1
<1>4. Newest' = m
  BY <1>3 DEF Newest
<1>5. DiskTypes' /\ (Cutting' <=> Cutting)
  BY <1>3, <1>4, TypeDisk DEF DiskTypes, Cutting
<1>6. \A j \in DOMAIN files : Begin(j)' = Begin(j)
  <2> TAKE j \in DOMAIN files
  <2>1. CASE j # m \/ j = 0
    BY <1>3, <2>1 DEF Begin
  <2>2. CASE j = m /\ j # 0
    <3>1. s[1] = files[m][1]
      BY <1>2, <2>2
    <3> QED BY <1>3, <2>2, <3>1 DEF Begin
  <2> QED BY <2>1, <2>2
<1>7. \A j \in DOMAIN files : j # m => HasTorn(j)' = HasTorn(j) /\ Whole(j)' = Whole(j)
  BY <1>3 DEF HasTorn, Whole
<1>8. \A k \in 1..Len(s) : /\ k \in 1..w => s[k] = files[m][k] /\ s[k] # Torn
                           /\ k \notin 1..w => k = Len(s) /\ s[k] = Torn
  <2> TAKE k \in 1..Len(s)
  <2>1. k \in 1..w => s[k] = files[m][k] /\ s[k] # Torn
    BY <1>2
  <2>2. k \notin 1..w => k = Len(s) /\ Len(s) = w + 1
    BY <1>2
  <2> QED BY <2>1, <2>2
<1>9. (s # <<>> <=> Len(s) > 0) /\ Len(s) \in {w, w + 1}
  BY EmptySeq
<1>10. HasTorn(m)' <=> Len(s) = w + 1
  <2>1. CASE Len(s) = w + 1
    <3>1. Len(s) \in 1..Len(s) /\ Len(s) \notin 1..w /\ s # <<>>
      BY <1>2, <1>9, <2>1
    <3> QED BY <1>3, <1>8, <2>1, <3>1 DEF HasTorn
  <2>2. CASE Len(s) = w
    <3>1. s # <<>> => Len(s) \in 1..Len(s) /\ Len(s) \in 1..w
      BY <1>2, <1>9, <2>2
    <3>2. s # <<>> => s[Len(s)] # Torn
      BY <1>8, <3>1
    <3> QED BY <1>2, <1>3, <2>2, <3>2 DEF HasTorn
  <2> QED BY <1>9, <2>1, <2>2
<1>11. Whole(m)' = w
  BY <1>2, <1>3, <1>9, <1>10 DEF Whole
<1>12. ChainInv'
  BY DEF DiskInv, ChainInv
<1>13. FilesInv'
  <2>1. ASSUME NEW i \in DOMAIN files', i # m
        PROVE  /\ \A k \in 1..Len(files'[i]) :
                     IF files'[i][k] = Torn
                     THEN k = Len(files'[i]) /\ i = Newest' /\ (k = 1 => i = 0)
                     ELSE /\ Begin(i)' + k \in 1..Len(chain')
                          /\ files'[i][k] = chain'[Begin(i)' + k]
               /\ i # 0 => files'[i] # <<>> /\ files'[i][1].ordinal = i
               /\ i <= Begin(i)'
               /\ files'[i] # <<>>
               /\ Begin(i + 1)' = Begin(i)' + Len(files'[i])
    <3>1. /\ i \in DOMAIN files /\ files'[i] = files[i] /\ Begin(i)' = Begin(i)
      BY <1>3, <1>6, <2>1
    <3>2. i + 1 \in DOMAIN files
      <4>1. i \in Nat /\ i <= m /\ m \in DOMAIN files /\ m \in Nat
        BY <1>1, <1>2, <3>1, NewestFacts DEF PalaTypeOK
      <4>2. i + 1 \in i..m
        BY <2>1, <4>1
      <4> QED BY <3>1, <4>1, <4>2 DEF DiskInv, FilesInv
    <3>3. Begin(i + 1)' = Begin(i + 1)
      BY <1>6, <3>2
    <3> QED BY <1>4, <2>1, <3>1, <3>3 DEF DiskInv, FilesInv
  <2>2. /\ \A k \in 1..Len(files'[m]) :
              IF files'[m][k] = Torn
              THEN k = Len(files'[m]) /\ m = Newest' /\ (k = 1 => m = 0)
              ELSE /\ Begin(m)' + k \in 1..Len(chain')
                   /\ files'[m][k] = chain'[Begin(m)' + k]
        /\ m # 0 => files'[m] # <<>> /\ files'[m][1].ordinal = m
        /\ m <= Begin(m)'
        /\ Begin(m)' + Whole(m)' = Len(chain')
    <3>1. Begin(m)' = Begin(m) /\ files'[m] = s
      BY <1>1, <1>3, <1>6
    <3>2. ASSUME NEW k \in 1..Len(s), s[k] = Torn
          PROVE  k = Len(s) /\ (k = 1 => m = 0)
      <4>1. k \notin 1..w /\ k = Len(s)
        BY <1>8, <3>2
      <4> QED BY <1>2, <4>1
    <3>3. ASSUME NEW k \in 1..Len(s), s[k] # Torn
          PROVE  Begin(m) + k \in 1..Len(chain) /\ s[k] = chain[Begin(m) + k]
      <4>1. k \in 1..w /\ s[k] = files[m][k]
        BY <1>8, <3>3
      <4> QED BY <1>2, <4>1
    <3>4. m # 0 => s # <<>> /\ s[1].ordinal = m
      <4> SUFFICES ASSUME m # 0 PROVE s # <<>> /\ s[1].ordinal = m
        OBVIOUS
      <4>1. 1 \in 1..w /\ Len(s) > 0
        BY <1>2, <1>9
      <4>2. s[1] = files[m][1]
        BY <4>1
      <4>3. files[m][1].ordinal = m
        BY <1>1 DEF DiskInv, FilesInv
      <4> QED BY <1>9, <4>1, <4>2, <4>3
    <3> QED BY <1>1, <1>4, <1>11, <3>1, <3>2, <3>3, <3>4
  <2>3. /\ DOMAIN files' # {}
        /\ \A i, j \in DOMAIN files' : \A k \in i..j : k \in DOMAIN files'
    BY <1>3 DEF DiskInv, FilesInv
  <2> QED BY <1>4, <2>1, <2>2, <2>3 DEF FilesInv
<1>14. ManifestInv'
  <2>1. Cutting => ~HasTorn(m)'
    <3>1. Cutting => Len(s) # w + 1
      OBVIOUS
    <3> QED BY <1>10, <3>1
  <2>2. \A k \in DOMAIN files' : Begin(k)' = Begin(k)
    BY <1>3, <1>6
  <2>3. \A k \in DOMAIN files' : k \in DOMAIN files
    BY <1>3
  <2> QED BY <1>4, <1>5, <2>1, <2>2, <2>3 DEF DiskInv, ManifestInv
<1> QED BY <1>1, <1>4, <1>5, <1>6, <1>10, <1>12, <1>13, <1>14 DEF DiskInv

\* What holds of a record that comes next.
NextRecord(r) ==
    /\ r \in Item
    /\ r.seq = Len(chain) /\ r.prev = Len(chain) /\ r.hash = Len(chain) + 1
    /\ r.kind = "GENESIS" <=> chain = <<>>
    /\ chain # <<>> /\ r.boot # chain[Len(chain)].boot => r.kind = "BOOT"

\* The chain with one more record.
LEMMA ChainExtended ==
    ASSUME PalaTypeOK, ChainInv, NEW r, NextRecord(r), chain' = Append(chain, r),
           counts' = [counts EXCEPT !["records"] = @ + 1]
    PROVE  /\ ChainInv' /\ chain' \in Seq(Item)
           /\ counts' \in [{"records", "opens"} -> Nat]
           /\ Len(chain') = Len(chain) + 1 /\ chain' # <<>>
           /\ chain'[Len(chain) + 1] = r /\ r # Torn
           /\ \A k \in 1..Len(chain) : chain'[k] = chain[k]
<1> DEFINE n == Len(chain)
<1>1. chain \in Seq(Item) /\ n \in Nat /\ (chain = <<>> <=> n = 0)
  BY ChainFacts DEF PalaTypeOK
<1>2. r \in Item
  BY DEF NextRecord
<1>3. /\ chain' \in Seq(Item) /\ Len(chain') = n + 1 /\ chain' # <<>>
      /\ chain'[n + 1] = r
      /\ \A k \in 1..n : chain'[k] = chain[k]
  BY <1>1, <1>2, AppendProperties
<1>4. /\ counts' \in [{"records", "opens"} -> Nat]
      /\ counts'["records"] = counts["records"] + 1
  BY DEF PalaTypeOK
<1>5. counts["records"] = n
  BY DEF ChainInv
<1> HIDE DEF n
<1>6. ASSUME NEW k \in 1..Len(chain')
      PROVE  /\ chain'[k].seq = k - 1 /\ chain'[k].prev = k - 1 /\ chain'[k].hash = k
             /\ chain'[k].kind = "GENESIS" <=> k = 1
             /\ k # 1 /\ chain'[k].boot # chain'[k - 1].boot => chain'[k].kind = "BOOT"
  <2>1. CASE k \in 1..n
    <3>1. chain'[k] = chain[k] /\ (k # 1 => chain'[k - 1] = chain[k - 1])
      BY <1>1, <1>3, <2>1
    <3> QED BY <2>1, <3>1 DEF ChainInv, n
  <2>2. CASE k = n + 1
    <3>1. /\ r.seq = n /\ r.prev = n /\ r.hash = n + 1
          /\ r.kind = "GENESIS" <=> n = 0
          /\ n # 0 /\ r.boot # chain[n].boot => r.kind = "BOOT"
      BY <1>1 DEF NextRecord, n
    <3>2. k # 1 => chain'[k - 1] = chain[n] /\ n # 0
      BY <1>1, <1>3, <2>2
    <3> QED BY <1>1, <1>3, <2>2, <3>1, <3>2
  <2> QED BY <1>1, <1>3, <2>1, <2>2
<1>7. ChainInv'
  BY <1>3, <1>4, <1>5, <1>6 DEF ChainInv
<1>8. r # Torn
  <2>1. r.hash = n + 1 /\ Torn.hash = 0
    BY DEF NextRecord, n, Torn, Genesis
  <2> QED BY <1>1, <2>1
<1> QED BY <1>3, <1>4, <1>7, <1>8 DEF n

\* A record is written to its end: _emit.
LEMMA DiskEmitted ==
    ASSUME PalaTypeOK, DiskInv, NEW m \in DOMAIN files, m = Newest,
           ~HasTorn(m), ~Cutting, NEW r, NextRecord(r),
           files' = [files EXCEPT ![m] = Append(@, r)],
           chain' = Append(chain, r),
           counts' = [counts EXCEPT !["records"] = @ + 1],
           UNCHANGED manifest
    PROVE  /\ DiskTypes' /\ DiskInv' /\ Newest' = m /\ ~Cutting'
           /\ ~HasTorn(m)' /\ Begin(m)' = Begin(m)
<1> DEFINE n == Len(chain)
           l == Len(files[m])
<1>1. /\ ChainInv' /\ chain' \in Seq(Item)
      /\ counts' \in [{"records", "opens"} -> Nat]
      /\ Len(chain') = n + 1 /\ chain' # <<>>
      /\ chain'[n + 1] = r /\ r # Torn
      /\ \A k \in 1..n : chain'[k] = chain[k]
  BY ChainExtended DEF DiskInv
<1>2. /\ Begin(m) + l = n /\ m <= Begin(m)
      /\ files[m] \in Seq(Item) /\ l \in Nat /\ m \in Nat /\ Begin(m) \in Nat
      /\ \A k \in 1..l : files[m][k] # Torn
      /\ m # 0 => l > 0
  <2>1. Whole(m) = l
    BY DEF Whole
  <2> QED BY <2>1, FileFacts, FirstFacts, NewestEnds DEF DiskInv
<1>3. r \in Item /\ r.seq = n /\ r.prev = n /\ r.hash = n + 1
  BY DEF NextRecord
<1>4. /\ DOMAIN files' = DOMAIN files /\ files'[m] = Append(files[m], r)
      /\ \A j \in DOMAIN files : j # m => files'[j] = files[j]
  OBVIOUS
<1>5. /\ files'[m] \in Seq(Item) /\ files'[m] # <<>> /\ Len(files'[m]) = l + 1
      /\ files'[m][l + 1] = r
      /\ \A k \in 1..l : files'[m][k] = files[m][k]
  BY <1>2, <1>3, <1>4, AppendProperties
<1>6. n \in Nat
  BY ChainFacts DEF DiskInv
<1>7. Newest' = m /\ ~Cutting'
  <2>1. Newest' = m
    BY <1>4 DEF Newest
  <2> QED BY <2>1 DEF Cutting
<1>8. DiskTypes'
  BY <1>1, <1>4, <1>5, TypeDisk DEF DiskTypes
<1> HIDE DEF n, l
<1>9. \A j \in DOMAIN files : Begin(j)' = Begin(j)
  <2> TAKE j \in DOMAIN files
  <2>1. CASE j # m \/ j = 0
    BY <1>4, <2>1 DEF Begin
  <2>2. CASE j = m /\ j # 0
    <3>1. files'[m][1] = files[m][1]
      BY <1>2, <1>5, <2>2
    <3> QED BY <2>2, <3>1 DEF Begin
  <2> QED BY <2>1, <2>2
<1>10. ~HasTorn(m)' /\ Whole(m)' = l + 1
  <2>1. ~HasTorn(m)'
    BY <1>1, <1>2, <1>5 DEF HasTorn
  <2> QED BY <1>5, <2>1 DEF Whole
<1>11. FilesInv'
  <2>1. ASSUME NEW i \in DOMAIN files', i # m
        PROVE  /\ \A k \in 1..Len(files'[i]) :
                     /\ files'[i][k] # Torn
                     /\ Begin(i)' + k \in 1..Len(chain')
                     /\ files'[i][k] = chain'[Begin(i)' + k]
               /\ i # 0 => files'[i] # <<>> /\ files'[i][1].ordinal = i
               /\ i <= Begin(i)'
               /\ files'[i] # <<>>
               /\ Begin(i + 1)' = Begin(i)' + Len(files'[i])
    <3>1. /\ i \in DOMAIN files /\ files'[i] = files[i] /\ Begin(i)' = Begin(i)
      BY <1>4, <1>9, <2>1
    <3>2. i + 1 \in DOMAIN files
      <4>1. i \in Nat /\ i <= m /\ m \in DOMAIN files /\ m \in Nat
        BY <1>2, <3>1, NewestFacts DEF PalaTypeOK
      <4>2. i + 1 \in i..m
        BY <2>1, <4>1
      <4> QED BY <3>1, <4>1, <4>2 DEF DiskInv, FilesInv
    <3>3. Begin(i + 1)' = Begin(i + 1)
      BY <1>9, <3>2
    <3>4. Begin(i) \in Nat /\ Len(files[i]) \in Nat
      BY <3>1, FileFacts DEF DiskInv
    <3>5. ASSUME NEW k \in 1..Len(files[i])
          PROVE  /\ files[i][k] # Torn
                 /\ Begin(i) + k \in 1..Len(chain')
                 /\ files[i][k] = chain'[Begin(i) + k]
      <4>1. /\ files[i][k] # Torn /\ Begin(i) + k \in 1..n
            /\ files[i][k] = chain[Begin(i) + k]
        BY <2>1, <3>1 DEF DiskInv, FilesInv, n
      <4>2. Begin(i) + k \in 1..(n + 1)
        BY <1>6, <4>1
      <4> QED BY <1>1, <4>1, <4>2 DEF n
    <3>6. /\ i # 0 => files[i] # <<>> /\ files[i][1].ordinal = i
          /\ i <= Begin(i) /\ files[i] # <<>>
          /\ Begin(i + 1) = Begin(i) + Len(files[i])
      BY <2>1, <3>1 DEF DiskInv, FilesInv
    <3> QED BY <3>1, <3>3, <3>5, <3>6
  <2>2. /\ \A k \in 1..Len(files'[m]) :
              /\ files'[m][k] # Torn
              /\ Begin(m)' + k \in 1..Len(chain')
              /\ files'[m][k] = chain'[Begin(m)' + k]
        /\ m # 0 => files'[m] # <<>> /\ files'[m][1].ordinal = m
        /\ m <= Begin(m)'
        /\ Begin(m)' + Whole(m)' = Len(chain')
    <3>1. Begin(m)' = Begin(m)
      BY <1>9
    <3>2. ASSUME NEW k \in 1..l
          PROVE  /\ Begin(m) + k \in 1..n
                 /\ files[m][k] = chain[Begin(m) + k]
      BY <1>2 DEF DiskInv, FilesInv, n, l
    <3>3. ASSUME NEW k \in 1..(l + 1)
          PROVE  /\ files'[m][k] # Torn
                 /\ Begin(m) + k \in 1..(n + 1)
                 /\ files'[m][k] = chain'[Begin(m) + k]
      <4>1. CASE k \in 1..l
        <5>1. Begin(m) + k \in 1..n /\ Begin(m) + k \in 1..(n + 1)
          BY <1>6, <3>2, <4>1
        <5> QED BY <1>1, <1>2, <1>5, <3>2, <4>1, <5>1
      <4>2. CASE k = l + 1
        <5>1. Begin(m) + k = n + 1
          BY <1>2, <1>6, <4>2
        <5> QED BY <1>1, <1>5, <1>6, <4>2, <5>1
      <4>3. k \in 1..l \/ k = l + 1
        BY <1>2
      <4> QED BY <4>1, <4>2, <4>3
    <3>4. m # 0 => files'[m][1].ordinal = m
      <4> SUFFICES ASSUME m # 0 PROVE files'[m][1].ordinal = m
        OBVIOUS
      <4>1. files'[m][1] = files[m][1]
        BY <1>2, <1>5
      <4> QED BY <4>1 DEF DiskInv, FilesInv
    <3> QED BY <1>1, <1>2, <1>5, <1>6, <1>10, <3>1, <3>3, <3>4
  <2>3. /\ DOMAIN files' # {}
        /\ \A i, j \in DOMAIN files' : \A k \in i..j : k \in DOMAIN files'
    BY <1>4 DEF DiskInv, FilesInv
  <2> QED BY <1>7, <2>1, <2>2, <2>3 DEF FilesInv
<1>12. ManifestInv'
  <2>1. \A k \in DOMAIN files' : k \in DOMAIN files /\ Begin(k)' = Begin(k)
    BY <1>4, <1>9
  <2>2. Len(manifest) = m
    BY DEF DiskInv, ManifestInv
  <2>3. ASSUME NEW k \in 1..Len(manifest)
        PROVE  /\ manifest[k].last + 1 \in 1..Len(chain')
               /\ k \in DOMAIN files' => Begin(k)' = manifest[k].last + 1
    <3>1. /\ manifest[k].last + 1 \in 1..n
          /\ k \in DOMAIN files => Begin(k) = manifest[k].last + 1
      BY DEF DiskInv, ManifestInv, n
    <3> QED BY <1>1, <1>6, <2>1, <3>1
  <2> QED BY <1>7, <2>2, <2>3 DEF DiskInv, ManifestInv
<1> QED BY <1>1, <1>2, <1>7, <1>8, <1>9, <1>10, <1>11, <1>12 DEF DiskInv

\* The manifest gets the entry of the newest segment: _rotate_core, first.
LEMMA DiskClosed ==
    ASSUME PalaTypeOK, DiskInv, NEW m \in DOMAIN files, m = Newest,
           ~HasTorn(m), ~Cutting, chain # <<>>, NEW e \in Entry,
           e = [file |-> m, first |-> Begin(m), last |-> Len(chain) - 1,
                head |-> Len(chain), prev |-> Begin(m), covers |-> Upto(Len(chain))],
           manifest' = Append(manifest, e),
           UNCHANGED <<files, chain, counts>>
    PROVE  DiskTypes' /\ DiskInv' /\ Newest' = m /\ Cutting'
<1> DEFINE n == Len(chain)
<1>1. n \in Nat /\ n # 0
  BY ChainFacts DEF DiskInv
<1>2. manifest \in Seq(Entry) /\ Len(manifest) = m /\ m \in Nat
  BY NewestFacts DEF DiskInv, ManifestInv, PalaTypeOK
<1>3. /\ manifest' \in Seq(Entry) /\ Len(manifest') = m + 1 /\ manifest'[m + 1] = e
      /\ \A k \in 1..m : manifest'[k] = manifest[k]
  BY <1>2, AppendProperties
<1>4. Newest' = m /\ Cutting'
  <2>1. Newest' = m
    BY DEF Newest
  <2> QED BY <1>3, <2>1 DEF Cutting
<1>5. DiskTypes'
  BY <1>3, TypeDisk DEF DiskTypes
<1>6. ChainInv' /\ \A i : Begin(i)' = Begin(i) /\ HasTorn(i)' = HasTorn(i)
                          /\ Whole(i)' = Whole(i)
  BY DEF DiskInv, ChainInv, Begin, HasTorn, Whole
<1>7. FilesInv'
  BY <1>4, <1>6 DEF DiskInv, FilesInv
<1> HIDE DEF n
<1>8. ManifestInv'
  <2>1. ASSUME NEW k \in 1..Len(manifest')
        PROVE  /\ manifest'[k].file = k - 1
               /\ manifest'[k].first = (IF k = 1 THEN 0 ELSE manifest'[k - 1].last + 1)
               /\ manifest'[k].prev = manifest'[k].first
               /\ manifest'[k].head = manifest'[k].last + 1
               /\ manifest'[k].last + 1 \in 1..n
               /\ manifest'[k].covers = Upto(manifest'[k].last + 1)
               /\ k \in DOMAIN files => Begin(k) = manifest'[k].last + 1
    <3>1. CASE k \in 1..m
      <4>1. manifest'[k] = manifest[k] /\ (k # 1 => manifest'[k - 1] = manifest[k - 1])
        BY <1>2, <1>3, <3>1
      <4>2. k \in 1..Len(manifest)
        BY <1>2, <3>1
      <4> QED BY <4>1, <4>2 DEF DiskInv, ManifestInv, n
    <3>2. CASE k = m + 1
      <4>1. manifest'[k] = e
        BY <1>3, <3>2
      <4>2. /\ e.file = m /\ e.first = Begin(m) /\ e.prev = Begin(m)
            /\ e.last = n - 1 /\ e.head = n /\ e.covers = Upto(n)
        BY DEF n
      <4>3. e.last + 1 = n
        BY <1>1, <4>2
      <4>4. e.first = (IF k = 1 THEN 0 ELSE manifest'[k - 1].last + 1)
        <5>1. CASE m = 0
          BY <3>2, <4>2, <5>1 DEF Begin
        <5>2. CASE m # 0
          <6>1. m \in 1..Len(manifest) /\ k - 1 = m /\ k # 1
            BY <1>2, <3>2, <5>2
          <6>2. Begin(m) = manifest[m].last + 1
            BY <6>1 DEF DiskInv, ManifestInv
          <6> QED BY <1>2, <1>3, <4>2, <6>1, <6>2
        <5> QED BY <5>1, <5>2
      <4>5. k \notin DOMAIN files
        <5>1. \A i \in DOMAIN files : i <= m
          BY NewestFacts DEF PalaTypeOK
        <5> QED BY <1>2, <3>2, <5>1
      <4>6. k - 1 = m /\ n \in 1..n
        BY <1>1, <1>2, <3>2
      <4> QED BY <4>1, <4>2, <4>3, <4>4, <4>5, <4>6
    <3> QED BY <1>2, <1>3, <3>1, <3>2
  <2>2. /\ ~HasTorn(m)' /\ chain' # <<>>
        /\ manifest'[m + 1].last + 1 = Len(chain')
    <3>1. e.last = n - 1
      BY DEF n
    <3>2. e.last + 1 = n
      BY <1>1, <3>1
    <3> QED BY <1>3, <1>6, <3>2 DEF n
  <2> QED BY <1>4, <1>6, <2>1, <2>2 DEF ManifestInv, n
<1> QED BY <1>4, <1>5, <1>6, <1>7, <1>8 DEF DiskInv

\* An entry of a cut that did not finish is taken back.
LEMMA DiskFolded ==
    ASSUME PalaTypeOK, DiskInv, Cutting, NEW m, m = Newest,
           manifest' = Front(manifest), UNCHANGED <<files, chain, counts>>
    PROVE  DiskTypes' /\ DiskInv' /\ Newest' = m /\ ~Cutting'
<1>1. manifest \in Seq(Entry) /\ Len(manifest) = m + 1 /\ m \in Nat
  BY NewestFacts DEF PalaTypeOK, Cutting
<1>2. manifest' = SubSeq(manifest, 1, m)
  BY <1>1 DEF Front
<1>3. m \in 0..Len(manifest)
  BY <1>1
<1>4. /\ manifest' \in Seq(Entry) /\ Len(manifest') = m
      /\ \A k \in 1..m : manifest'[k] = manifest[k]
  BY <1>1, <1>2, <1>3, PrefixFacts
<1>5. Newest' = m /\ ~Cutting'
  <2>1. Newest' = m
    BY DEF Newest
  <2> QED BY <1>1, <1>4, <2>1 DEF Cutting
<1>6. DiskTypes'
  BY <1>4, TypeDisk DEF DiskTypes
<1>7. ChainInv' /\ \A i : Begin(i)' = Begin(i) /\ HasTorn(i)' = HasTorn(i)
                          /\ Whole(i)' = Whole(i)
  BY DEF DiskInv, ChainInv, Begin, HasTorn, Whole
<1>8. FilesInv'
  BY <1>5, <1>7 DEF DiskInv, FilesInv
<1>9. ManifestInv'
  <2>1. ASSUME NEW k \in 1..Len(manifest')
        PROVE  /\ k \in 1..Len(manifest) /\ manifest'[k] = manifest[k]
               /\ k # 1 => manifest'[k - 1] = manifest[k - 1]
    BY <1>1, <1>4
  <2>2. ASSUME NEW k \in 1..Len(manifest')
        PROVE  /\ manifest'[k].file = k - 1
               /\ manifest'[k].first = (IF k = 1 THEN 0 ELSE manifest'[k - 1].last + 1)
               /\ manifest'[k].prev = manifest'[k].first
               /\ manifest'[k].head = manifest'[k].last + 1
               /\ manifest'[k].last + 1 \in 1..Len(chain)
               /\ manifest'[k].covers = Upto(manifest'[k].last + 1)
               /\ k \in DOMAIN files => Begin(k) = manifest'[k].last + 1
    <3>1. /\ manifest[k].file = k - 1
          /\ manifest[k].first = (IF k = 1 THEN 0 ELSE manifest[k - 1].last + 1)
          /\ manifest[k].prev = manifest[k].first
          /\ manifest[k].head = manifest[k].last + 1
          /\ manifest[k].last + 1 \in 1..Len(chain)
          /\ manifest[k].covers = Upto(manifest[k].last + 1)
          /\ k \in DOMAIN files => Begin(k) = manifest[k].last + 1
      BY <2>1 DEF DiskInv, ManifestInv
    <3> QED BY <2>1, <3>1
  <2>3. Len(manifest') = Newest'
    BY <1>4, <1>5
  <2> QED BY <1>5, <1>7, <2>2, <2>3 DEF ManifestInv
<1> QED BY <1>5, <1>6, <1>7, <1>8, <1>9 DEF DiskInv

\* The successor appears with its continuation record: _rotate_core, then.
LEMMA DiskContinued ==
    ASSUME PalaTypeOK, DiskInv, NEW m \in DOMAIN files, m = Newest, m < MaxRecords,
           Cutting, NEW r, NextRecord(r), r.ordinal = m + 1,
           DOMAIN files' = DOMAIN files \cup {m + 1}, files'[m + 1] = <<r>>,
           \A j \in DOMAIN files : files'[j] = files[j],
           chain' = Append(chain, r),
           counts' = [counts EXCEPT !["records"] = @ + 1],
           UNCHANGED manifest
    PROVE  /\ DiskTypes' /\ DiskInv' /\ Newest' = m + 1 /\ ~Cutting'
           /\ ~HasTorn(m + 1)' /\ Begin(m + 1)' = Len(chain)
<1> DEFINE n == Len(chain)
<1>1. /\ ChainInv' /\ chain' \in Seq(Item)
      /\ counts' \in [{"records", "opens"} -> Nat]
      /\ Len(chain') = n + 1 /\ chain' # <<>>
      /\ chain'[n + 1] = r /\ r # Torn
      /\ \A k \in 1..n : chain'[k] = chain[k]
  BY ChainExtended DEF DiskInv
<1>2. /\ ~HasTorn(m) /\ chain # <<>>
      /\ manifest[m + 1].last + 1 = n /\ Len(manifest) = m + 1
  BY DEF DiskInv, ManifestInv, Cutting
<1>3. n \in Nat /\ n > 0 /\ m \in Nat /\ m + 1 \in Index
  BY <1>2, ChainFacts, NewestFacts, BoundsAssumption DEF DiskInv, PalaTypeOK, Index
<1>4. /\ Begin(m) + Len(files[m]) = n /\ m <= Begin(m) /\ Begin(m) \in Nat
      /\ Len(files[m]) \in Nat /\ Len(files[m]) > 0 /\ files[m] # <<>>
      /\ \A k \in 1..Len(files[m]) : files[m][k] # Torn
  <2>1. Whole(m) = Len(files[m])
    BY <1>2 DEF Whole
  <2> QED BY <1>2, <2>1, FileFacts, NewestEnds DEF DiskInv
<1>5. r \in Item /\ r.seq = n
  BY DEF NextRecord
<1>6. /\ files'[m + 1] \in Seq(Item) /\ files'[m + 1] # <<>>
      /\ Len(files'[m + 1]) = 1 /\ files'[m + 1][1] = r
  BY <1>5
<1>7. DiskTypes'
  BY <1>1, <1>3, <1>6, TypeDisk DEF DiskTypes
<1>8. \A i \in DOMAIN files : i <= m /\ i \in Nat
  BY NewestFacts DEF PalaTypeOK
<1>9. Newest' = m + 1 /\ ~Cutting'
  <2>1. DOMAIN files' \subseteq Index
    BY <1>7 DEF DiskTypes
  <2>2. m + 1 \in DOMAIN files' /\ \A j \in DOMAIN files' : j <= m + 1
    BY <1>3, <1>8
  <2>3. Newest' = m + 1
    BY <2>1, <2>2, NewestLater
  <2> QED BY <1>2, <1>3, <2>3 DEF Cutting
<1> HIDE DEF n
<1>10. /\ \A j \in DOMAIN files : Begin(j)' = Begin(j)
       /\ Begin(m + 1)' = n
  <2>1. \A j \in DOMAIN files : Begin(j)' = Begin(j)
    BY DEF Begin
  <2>2. Begin(m + 1)' = n
    BY <1>3, <1>5, <1>6 DEF Begin
  <2> QED BY <2>1, <2>2
<1>11. ~HasTorn(m + 1)' /\ Whole(m + 1)' = 1
  BY <1>1, <1>6 DEF HasTorn, Whole
<1>12. FilesInv'
  <2>1. ASSUME NEW i \in DOMAIN files
        PROVE  /\ \A k \in 1..Len(files'[i]) :
                     /\ files'[i][k] # Torn
                     /\ Begin(i)' + k \in 1..Len(chain')
                     /\ files'[i][k] = chain'[Begin(i)' + k]
               /\ i # 0 => files'[i] # <<>> /\ files'[i][1].ordinal = i
               /\ i <= Begin(i)'
               /\ files'[i] # <<>>
               /\ Begin(i + 1)' = Begin(i)' + Len(files'[i])
    <3>1. files'[i] = files[i] /\ Begin(i)' = Begin(i)
      BY <1>10
    <3>2. Begin(i) \in Nat /\ Len(files[i]) \in Nat
      BY FileFacts DEF DiskInv
    <3>3. ASSUME NEW k \in 1..Len(files[i])
          PROVE  /\ files[i][k] # Torn
                 /\ Begin(i) + k \in 1..Len(chain')
                 /\ files[i][k] = chain'[Begin(i) + k]
      <4>1. files[i][k] # Torn
        BY <1>4 DEF DiskInv, FilesInv
      <4>2. Begin(i) + k \in 1..n /\ files[i][k] = chain[Begin(i) + k]
        BY <4>1 DEF DiskInv, FilesInv, n
      <4>3. Begin(i) + k \in 1..(n + 1)
        BY <1>3, <4>2
      <4> QED BY <1>1, <4>1, <4>2, <4>3 DEF n
    <3>4. /\ i # 0 => files[i] # <<>> /\ files[i][1].ordinal = i
          /\ i <= Begin(i) /\ files[i] # <<>>
      BY <1>4 DEF DiskInv, FilesInv
    <3>5. Begin(i + 1)' = Begin(i) + Len(files[i])
      <4>1. CASE i = m
        BY <1>4, <1>10, <4>1
      <4>2. CASE i # m
        <5>1. i + 1 \in i..m
          BY <1>3, <1>8, <4>2
        <5>2. i + 1 \in DOMAIN files
          BY <5>1 DEF DiskInv, FilesInv
        <5> QED BY <1>10, <4>2, <5>2 DEF DiskInv, FilesInv
      <4> QED BY <4>1, <4>2
    <3> QED BY <3>1, <3>3, <3>4, <3>5
  <2>2. /\ \A k \in 1..Len(files'[m + 1]) :
              /\ files'[m + 1][k] # Torn
              /\ Begin(m + 1)' + k \in 1..Len(chain')
              /\ files'[m + 1][k] = chain'[Begin(m + 1)' + k]
        /\ files'[m + 1] # <<>> /\ files'[m + 1][1].ordinal = m + 1
        /\ m + 1 <= Begin(m + 1)'
        /\ Begin(m + 1)' + Whole(m + 1)' = Len(chain')
    <3>1. ASSUME NEW k \in 1..Len(files'[m + 1])
          PROVE  /\ files'[m + 1][k] = r /\ n + k = n + 1
                 /\ n + k \in 1..(n + 1)
      BY <1>3, <1>6
    <3>2. m + 1 <= n
      BY <1>3, <1>4
    <3> QED BY <1>1, <1>6, <1>10, <1>11, <3>1, <3>2 DEF n
  <2>3. \A i, j \in DOMAIN files' : \A k \in i..j : k \in DOMAIN files'
    <3> SUFFICES ASSUME NEW i \in DOMAIN files', NEW j \in DOMAIN files', NEW k \in i..j,
                        k # m + 1
                 PROVE  k \in DOMAIN files
      OBVIOUS
    <3>1. i \in Nat /\ j \in Nat /\ j <= m + 1 /\ i # m + 1
      BY <1>3, <1>8
    <3>2. i \in DOMAIN files /\ k \in i..m
      BY <1>3, <3>1
    <3> QED BY <3>2 DEF DiskInv, FilesInv
  <2>4. DOMAIN files' # {}
    OBVIOUS
  <2>5. ASSUME NEW i \in DOMAIN files'
        PROVE  /\ \A k \in 1..Len(files'[i]) :
                     /\ files'[i][k] # Torn
                     /\ Begin(i)' + k \in 1..Len(chain')
                     /\ files'[i][k] = chain'[Begin(i)' + k]
               /\ i # 0 => files'[i] # <<>> /\ files'[i][1].ordinal = i
               /\ i <= Begin(i)'
               /\ i = m + 1 => Begin(i)' + Whole(i)' = Len(chain')
               /\ i # m + 1 => /\ files'[i] # <<>>
                               /\ Begin(i + 1)' = Begin(i)' + Len(files'[i])
    <3>1. CASE i = m + 1
      BY <2>2, <3>1
    <3>2. CASE i \in DOMAIN files
      <4>1. i # m + 1
        BY <1>3, <1>8, <3>2
      <4> QED BY <2>1, <3>2, <4>1
    <3> QED BY <3>1, <3>2
  <2> QED BY <1>9, <2>3, <2>4, <2>5 DEF FilesInv
<1>13. ManifestInv'
  <2>1. ASSUME NEW k \in 1..Len(manifest)
        PROVE  /\ manifest[k].last + 1 \in 1..Len(chain')
               /\ k \in DOMAIN files' => Begin(k)' = manifest[k].last + 1
    <3>1. /\ manifest[k].last + 1 \in 1..n
          /\ k \in DOMAIN files => Begin(k) = manifest[k].last + 1
      BY DEF DiskInv, ManifestInv, n
    <3>2. k = m + 1 => Begin(k)' = manifest[k].last + 1
      BY <1>2, <1>10 DEF n
    <3> QED BY <1>1, <1>3, <1>10, <3>1, <3>2
  <2> QED BY <1>2, <1>9, <2>1 DEF DiskInv, ManifestInv
<1> QED BY <1>1, <1>7, <1>9, <1>10, <1>11, <1>12, <1>13 DEF DiskInv, n

\* Retention takes the oldest segment, which is not the newest.
LEMMA DiskRetired ==
    ASSUME PalaTypeOK, DiskInv, NEW o \in DOMAIN files, o # Newest,
           \A j \in DOMAIN files : o <= j,
           files' = [j \in DOMAIN files \ {o} |-> files[j]],
           UNCHANGED <<manifest, chain, counts>>
    PROVE  /\ DiskTypes' /\ DiskInv' /\ Newest' = Newest /\ (Cutting' <=> Cutting)
           /\ \A j \in DOMAIN files \ {o} : /\ files'[j] = files[j]
                                            /\ Begin(j)' = Begin(j)
                                            /\ HasTorn(j)' = HasTorn(j)
<1>1. /\ DOMAIN files' = DOMAIN files \ {o}
      /\ \A j \in DOMAIN files \ {o} : files'[j] = files[j]
  OBVIOUS
<1>2. \A j \in DOMAIN files \ {o} : /\ Begin(j)' = Begin(j)
                                    /\ HasTorn(j)' = HasTorn(j)
                                    /\ Whole(j)' = Whole(j)
  BY <1>1 DEF Begin, HasTorn, Whole
<1>3. DiskTypes'
  BY <1>1, TypeDisk DEF DiskTypes
<1>4. /\ Newest \in DOMAIN files /\ Newest \in Nat
      /\ \A i \in DOMAIN files : i \in Nat /\ i <= Newest
  BY NewestFacts DEF PalaTypeOK
<1>5. Newest' = Newest
  <2>1. DOMAIN files' \subseteq Index
    BY <1>3 DEF DiskTypes
  <2>2. Newest \in DOMAIN files' /\ \A j \in DOMAIN files' : j <= Newest
    BY <1>1, <1>4
  <2> QED BY <2>1, <2>2, NewestLater
<1>6. ChainInv' /\ (Cutting' <=> Cutting)
  BY <1>5 DEF DiskInv, ChainInv, Cutting
<1>7. FilesInv'
  <2>1. ASSUME NEW i \in DOMAIN files', i # Newest
        PROVE  Begin(i + 1)' = Begin(i)' + Len(files'[i])
    <3>1. i \in DOMAIN files \ {o} /\ i \in Nat /\ i <= Newest /\ o <= i
      BY <1>1, <1>4
    <3>2. i + 1 \in i..Newest /\ i + 1 # o
      BY <1>4, <2>1, <3>1
    <3>3. i + 1 \in DOMAIN files \ {o}
      BY <1>4, <3>1, <3>2 DEF DiskInv, FilesInv
    <3> QED BY <1>1, <1>2, <2>1, <3>1, <3>3 DEF DiskInv, FilesInv
  <2>2. \A i, j \in DOMAIN files' : \A k \in i..j : k \in DOMAIN files'
    <3> SUFFICES ASSUME NEW i \in DOMAIN files', NEW j \in DOMAIN files', NEW k \in i..j
                 PROVE  k \in DOMAIN files'
      OBVIOUS
    <3>1. i \in DOMAIN files /\ j \in DOMAIN files /\ i # o /\ o <= i
      BY <1>1
    <3>2. k \in DOMAIN files
      BY <3>1 DEF DiskInv, FilesInv
    <3>3. k # o
      BY <1>4, <3>1
    <3> QED BY <1>1, <3>2, <3>3
  <2>3. DOMAIN files' # {}
    BY <1>1, <1>4
  <2>4. ASSUME NEW i \in DOMAIN files'
        PROVE  /\ \A k \in 1..Len(files'[i]) :
                     IF files'[i][k] = Torn
                     THEN k = Len(files'[i]) /\ i = Newest /\ (k = 1 => i = 0)
                     ELSE /\ Begin(i)' + k \in 1..Len(chain)
                          /\ files'[i][k] = chain[Begin(i)' + k]
               /\ i # 0 => files'[i] # <<>> /\ files'[i][1].ordinal = i
               /\ i <= Begin(i)'
               /\ i = Newest => Begin(i)' + Whole(i)' = Len(chain)
               /\ i # Newest => files'[i] # <<>>
    <3>1. /\ i \in DOMAIN files /\ files'[i] = files[i] /\ Begin(i)' = Begin(i)
          /\ Whole(i)' = Whole(i)
      BY <1>1, <1>2
    <3> QED BY <3>1 DEF DiskInv, FilesInv
  <2> QED BY <1>5, <2>1, <2>2, <2>3, <2>4 DEF FilesInv
<1>8. ManifestInv'
  <2>1. HasTorn(Newest)' = HasTorn(Newest)
    <3>1. files'[Newest] = files[Newest]
      BY <1>1, <1>4
    <3> QED BY <1>5, <3>1 DEF HasTorn
  <2> QED BY <1>1, <1>2, <1>5, <1>6, <2>1 DEF DiskInv, ManifestInv
<1> QED BY <1>1, <1>2, <1>3, <1>5, <1>6, <1>7, <1>8 DEF DiskInv

-----------------------------------------------------------------------------
(* What each step does to the writers.                                      *)

MemTypes == /\ lock \in [Index -> Proc \cup {Null}]
            /\ pc \in [Proc -> {"out", "fresh", "scan", "ready", "cut", "successor"}]
            /\ path \in [Proc -> Index]
            /\ must \in [Proc -> {"GENESIS", "BOOT", "any"}]
            /\ boot \in [Proc -> Nat]
            /\ seq \in [Proc -> Nat]
            /\ head \in [Proc -> Nat]
            /\ spans \in [Proc -> SUBSET Span]
            /\ due \in [Proc -> BOOLEAN]
            /\ opened \in [Proc -> [first : Nat, prev : Nat, ordinal : Nat]]
            /\ entries \in [Proc -> Seq(Entry)]
            /\ frontier \in [Proc -> Seq(Nat)]
            /\ deferred \in [Proc -> Nat]

LEMMA TypeParts == PalaTypeOK <=> DiskTypes /\ MemTypes
BY DEF PalaTypeOK, DiskTypes, MemTypes

\* The part of the invariant that one step of a writer can touch everywhere.
CoreInv == /\ PalaTypeOK /\ DiskInv /\ LockInv
           /\ \A p \in Proc : MemoryInv(p)

\* At most one process is inside.
LEMMA OneInside ==
    ASSUME PalaTypeOK, LockInv, NEW p \in Proc, NEW q \in Proc, p \in Inside, q \in Inside
    PROVE  p = q
BY DEF LockInv

LEMMA FreeLock ==
    ASSUME PalaTypeOK, LockInv, lock[0] = Null
    PROVE  Inside = {}
<1>1. \A p \in Proc : Null # p
  BY NullAssumption
<1> QED BY <1>1 DEF LockInv, Inside

LEMMA Zero == 0 \in Index
BY BoundsAssumption DEF Index

LEMMA PhaseFacts ==
    \A p \in Proc : /\ p \in Inside <=> pc[p] \notin {"out", "fresh"}
                    /\ p \in Writing <=> pc[p] \in {"ready", "cut", "successor"}
BY DEF Inside, Writing

\* Nothing happens to a process that is not concerned.
LEMMA Undisturbed ==
    ASSUME NEW q \in Proc, PalaTypeOK, DiskInv, MemoryInv(q),
           pc'[q] = pc[q], path'[q] = path[q], must'[q] = must[q],
           seq'[q] = seq[q], head'[q] = head[q], spans'[q] = spans[q],
           opened'[q] = opened[q], entries'[q] = entries[q],
           frontier'[q] = frontier[q], deferred'[q] = deferred[q],
           \/ q \notin Inside
           \/ /\ UNCHANGED <<chain, manifest>> /\ Newest' = Newest
              /\ path[q] \in DOMAIN files'
              /\ files'[path[q]] = files[path[q]]
    PROVE  MemoryInv(q)'
<1>1. (q \in Writing <=> q \in Writing') /\ (Blank(q) => Blank(q)')
  BY DEF Writing, Blank
<1>2. CASE q \notin Inside
  BY <1>1, <1>2 DEF MemoryInv, Inside, Writing
<1>3. CASE /\ UNCHANGED <<chain, manifest>> /\ Newest' = Newest
           /\ path[q] \in DOMAIN files'
           /\ files'[path[q]] = files[path[q]]
  <2>1. Cutting' <=> Cutting
    BY <1>3 DEF Cutting
  <2>2. FrontierInv(q) => FrontierInv(q)'
    BY <1>3 DEF FrontierInv
  <2>3. CASE q \in Writing
    <3>1. path[q] = Newest
      BY <2>3 DEF MemoryInv
    <3>2. Begin(Newest)' = Begin(Newest) /\ HasTorn(Newest)' = HasTorn(Newest)
      BY <1>3, <3>1 DEF Begin, HasTorn
    <3> QED BY <1>1, <1>3, <2>1, <2>2, <2>3, <3>1, <3>2 DEF MemoryInv, Writing
  <2>4. CASE q \notin Writing
    BY <1>1, <1>3, <2>4 DEF MemoryInv, Writing
  <2> QED BY <2>3, <2>4
<1> QED BY <1>2, <1>3

\* A process that has left holds no lock and nothing in memory.
LEMMA Left ==
    ASSUME CoreInv, NEW p \in Proc, Leave(p), DiskTypes', DiskInv', Newest' = Newest,
           UNCHANGED <<chain, manifest>>,
           files' = files \/ p \in Inside
    PROVE  CoreInv'
<1>1. PalaTypeOK /\ MemTypes /\ DiskInv /\ LockInv /\ \A q \in Proc : MemoryInv(q)
  BY TypeParts DEF CoreInv
<1>2. MemTypes'
  <2>1. Nothing \in [first : Nat, prev : Nat, ordinal : Nat]
    BY DEF Nothing, Genesis
  <2>2. \A S : <<>> \in Seq(S)
    BY EmptySeq
  <2>3. pc' = [pc EXCEPT ![p] = "out"]
        /\ lock' = [i \in Index |-> IF lock[i] = p THEN Null ELSE lock[i]]
    BY DEF Leave
  <2>4. lock' \in [Index -> Proc \cup {Null}]
    BY <1>1, <2>3 DEF MemTypes
  <2> QED BY <1>1, <2>1, <2>2, <2>3, <2>4, Zero DEF MemTypes, Leave, Forget, Genesis
<1>3. PalaTypeOK'
  BY <1>2, TypeParts, PTL
<1>4. pc'[p] = "out" /\ \A q \in Proc \ {p} : pc'[q] = pc[q]
  BY <1>1 DEF Leave, MemTypes
<1>5. p \notin Inside' /\ \A q \in Proc \ {p} : q \in Inside' <=> q \in Inside
  BY <1>4 DEF Inside
<1>6. LockInv'
  <2>1. \A i \in Index : lock'[i] = IF lock[i] = p THEN Null ELSE lock[i]
    BY DEF Leave
  <2>2. ASSUME NEW q \in Proc PROVE lock'[0] = q <=> q \in Inside'
    <3>1. lock[0] = q <=> q \in Inside
      BY <1>1 DEF LockInv
    <3>2. Null # q /\ lock'[0] = IF lock[0] = p THEN Null ELSE lock[0]
      BY <2>1, NullAssumption, Zero
    <3>3. CASE q = p
      BY <1>5, <3>2, <3>3
    <3>4. CASE q # p
      BY <1>5, <3>1, <3>2, <3>4
    <3> QED BY <3>3, <3>4
  <2>3. ASSUME NEW i \in Index \ {0} PROVE lock'[i] = Null
    BY <1>1, <2>1 DEF LockInv
  <2> QED BY <2>2, <2>3 DEF LockInv
<1>7. ASSUME NEW q \in Proc PROVE MemoryInv(q)'
  <2>1. CASE q = p
    <3>1. Blank(p)' /\ path'[p] = 0
      BY <1>1 DEF Leave, Forget, Blank, MemTypes
    <3>2. p \notin Writing'
      BY <1>4 DEF Writing
    <3> QED BY <1>4, <2>1, <3>1, <3>2 DEF MemoryInv
  <2>2. CASE q # p
    <3>1. /\ pc'[q] = pc[q] /\ path'[q] = path[q] /\ must'[q] = must[q]
          /\ seq'[q] = seq[q] /\ head'[q] = head[q] /\ spans'[q] = spans[q]
          /\ opened'[q] = opened[q] /\ entries'[q] = entries[q]
          /\ frontier'[q] = frontier[q] /\ deferred'[q] = deferred[q]
      BY <1>1, <2>2 DEF Leave, Forget, MemTypes
    <3>2. q \in Inside => files' = files
      BY <1>1, <2>2, OneInside
    <3>3. q \in Inside => path[q] \in DOMAIN files
      <4>1. q \in Inside => q \in Writing \/ pc[q] = "scan"
        BY <1>1 DEF Inside, Writing, MemTypes
      <4> QED BY <1>1, <4>1 DEF MemoryInv
    <3>4. MemoryInv(q)
      BY <1>1
    <3> QED BY <1>1, <3>1, <3>2, <3>3, <3>4, Undisturbed
  <2> QED BY <2>1, <2>2
<1> QED BY <1>3, <1>6, <1>7 DEF CoreInv

\* PalaWriter(path) looks at the file.
LEMMA CheckFreshCore ==
    ASSUME CoreInv, NEW p \in Proc, CheckFresh(p)
    PROVE  CoreInv'
<1>1. PalaTypeOK /\ MemTypes /\ DiskInv /\ LockInv /\ \A q \in Proc : MemoryInv(q)
  BY TypeParts DEF CoreInv
<1>2. /\ pc[p] = "out" /\ pc' = [pc EXCEPT ![p] = "fresh"]
      /\ boot' = [boot EXCEPT ![p] = counts["opens"] + 1]
      /\ counts' = [counts EXCEPT !["opens"] = @ + 1]
      /\ UNCHANGED <<files, manifest, chain, lock, path, must, seq, head, spans, frontier,
                     deferred, due, opened, entries>>
  BY DEF CheckFresh, diskVars, segVars
<1>3. /\ counts' \in [{"records", "opens"} -> Nat] /\ counts'["records"] = counts["records"]
      /\ UNCHANGED diskVars
  BY <1>1, <1>2 DEF PalaTypeOK, diskVars
<1>4. DiskTypes' /\ DiskInv' /\ Newest' = Newest
  BY <1>1, <1>3, DiskKept
<1>5. MemTypes'
  <2>1. counts["opens"] + 1 \in Nat
    BY <1>1 DEF PalaTypeOK
  <2>2. boot' \in [Proc -> Nat]
    BY <1>1, <1>2, <2>1 DEF MemTypes
  <2>3. pc' \in [Proc -> {"out", "fresh", "scan", "ready", "cut", "successor"}]
    BY <1>1, <1>2 DEF MemTypes
  <2> QED BY <1>1, <1>2, <2>2, <2>3 DEF MemTypes
<1>6. PalaTypeOK'
  BY <1>4, <1>5, TypeParts, PTL
<1>7. /\ pc'[p] = "fresh" /\ \A q \in Proc \ {p} : pc'[q] = pc[q]
  BY <1>1, <1>2 DEF MemTypes
<1>8. LockInv'
  <2>1. \A q \in Proc : q \in Inside' <=> q \in Inside
    BY <1>2, <1>7 DEF Inside
  <2> QED BY <1>1, <1>2, <2>1 DEF LockInv
<1>9. ASSUME NEW q \in Proc PROVE MemoryInv(q)'
  <2>1. MemoryInv(q)
    BY <1>1
  <2>2. CASE q = p
    <3>1. Blank(p) /\ path[p] = 0
      BY <1>2, <2>1, <2>2 DEF MemoryInv, Writing
    <3>2. Blank(p)' /\ path'[p] = 0 /\ p \notin Writing'
      BY <1>2, <1>7, <3>1 DEF Blank, Writing
    <3> QED BY <1>7, <2>2, <3>2 DEF MemoryInv
  <2>3. CASE q # p
    <3>1. q \in Inside => path[q] \in DOMAIN files
      <4>1. q \in Inside => q \in Writing \/ pc[q] = "scan"
        BY <1>1 DEF Inside, Writing, MemTypes
      <4> QED BY <2>1, <4>1 DEF MemoryInv
    <3> QED BY <1>1, <1>2, <1>4, <1>7, <2>1, <2>3, <3>1, Undisturbed
  <2> QED BY <2>2, <2>3
<1> QED BY <1>4, <1>6, <1>8, <1>9 DEF CoreInv

\* The writer of a new chain has the lock.
LEMMA StartCore ==
    ASSUME CoreInv, ~FreshAnyTime, NEW p \in Proc, Start(p)
    PROVE  CoreInv'
<1>1. PalaTypeOK /\ MemTypes /\ DiskInv /\ LockInv /\ \A q \in Proc : MemoryInv(q)
  BY TypeParts DEF CoreInv
<1>2. /\ pc[p] = "fresh" /\ lock[0] = Null /\ NoChain
      /\ lock' = [lock EXCEPT ![0] = p]
      /\ files' = IF 0 \in DOMAIN files THEN files ELSE Created(0, <<>>)
      /\ entries' = [entries EXCEPT ![p] = manifest]
      /\ pc' = [pc EXCEPT ![p] = "ready"]
      /\ UNCHANGED <<manifest, chain, path, must, boot, seq, head, spans, due,
                     opened, frontier, deferred, counts>>
  BY BaseLockName DEF Start
<1>3. /\ chain = <<>> /\ Len(chain) = 0
      /\ manifest = <<>> /\ Newest = 0 /\ DOMAIN files \subseteq {0}
      /\ 0 \in DOMAIN files => files[0] = <<>>
  BY <1>1, <1>2, NothingYet
<1>4. DOMAIN files' = {0} /\ files'[0] = <<>>
  <2>1. CASE 0 \in DOMAIN files
    BY <1>2, <1>3, <2>1
  <2>2. CASE 0 \notin DOMAIN files
    BY <1>2, <1>3, <2>2 DEF Created
  <2> QED BY <2>1, <2>2
<1>5. DiskTypes' /\ DiskInv' /\ Newest' = 0 /\ ~Cutting' /\ ~HasTorn(0)'
  BY <1>1, <1>2, <1>4, DiskStarted
<1>6. MemTypes'
  <2>1. manifest \in Seq(Entry)
    BY <1>1 DEF PalaTypeOK
  <2>2. entries' \in [Proc -> Seq(Entry)]
    BY <1>1, <1>2, <2>1 DEF MemTypes
  <2>3. lock' \in [Index -> Proc \cup {Null}]
    BY <1>1, <1>2 DEF MemTypes
  <2>4. pc' \in [Proc -> {"out", "fresh", "scan", "ready", "cut", "successor"}]
    BY <1>1, <1>2 DEF MemTypes
  <2> QED BY <1>1, <1>2, <2>2, <2>3, <2>4 DEF MemTypes
<1>7. PalaTypeOK'
  BY <1>5, <1>6, TypeParts, PTL
<1>8. /\ pc'[p] = "ready" /\ \A q \in Proc \ {p} : pc'[q] = pc[q]
  BY <1>1, <1>2 DEF MemTypes
<1>9. Inside = {}
  BY <1>1, <1>2, FreeLock
<1>10. LockInv'
  <2>1. \A q \in Proc : q \in Inside' <=> q = p
    BY <1>8, <1>9 DEF Inside
  <2>2. lock'[0] = p /\ \A i \in Index \ {0} : lock'[i] = lock[i]
    BY <1>1, <1>2, Zero DEF MemTypes
  <2> QED BY <1>1, <2>1, <2>2 DEF LockInv
<1>11. ASSUME NEW q \in Proc PROVE MemoryInv(q)'
  <2>1. MemoryInv(q)
    BY <1>1
  <2>2. CASE q = p
    <3>1. Blank(p) /\ path[p] = 0
      BY <1>2, <2>1, <2>2 DEF MemoryInv, Writing
    <3>2. Begin(0)' = 0 /\ Len(<<>>) = 0
      BY DEF Begin
    <3>3. entries'[p] = manifest'
      BY <1>1, <1>2 DEF MemTypes
    <3>4. FrontierInv(p)'
      BY <1>2, <1>3, <3>1, <3>2 DEF FrontierInv, Blank
    <3> QED BY <1>2, <1>3, <1>4, <1>5, <1>8, <2>2, <3>1, <3>2, <3>3, <3>4
            DEF MemoryInv, Writing, Blank, Nothing, Genesis
  <2>3. CASE q # p
    <3>1. entries'[q] = entries[q]
      BY <1>1, <1>2, <2>3 DEF MemTypes
    <3> QED BY <1>1, <1>2, <1>8, <1>9, <2>1, <2>3, <3>1, Undisturbed
  <2> QED BY <2>2, <2>3
<1> QED BY <1>5, <1>7, <1>10, <1>11 DEF CoreInv

\* A resume takes the lock.
LEMMA TakeLockCore ==
    ASSUME CoreInv, ~ResumeAny, NEW p \in Proc, TakeLock(p)
    PROVE  CoreInv'
<1>1. PalaTypeOK /\ MemTypes /\ DiskInv /\ LockInv /\ \A q \in Proc : MemoryInv(q)
  BY TypeParts DEF CoreInv
<1>2. PICK i \in Resumable : /\ lock[LockName(i)] = Null
                             /\ lock' = [lock EXCEPT ![LockName(i)] = p]
                             /\ path' = [path EXCEPT ![p] = i]
  BY DEF TakeLock
<1>3. /\ pc[p] = "out" /\ pc' = [pc EXCEPT ![p] = "scan"]
      /\ boot' = [boot EXCEPT ![p] = counts["opens"] + 1]
      /\ counts' = [counts EXCEPT !["opens"] = @ + 1]
      /\ UNCHANGED <<files, manifest, chain, must, seq, head, spans, frontier,
                     deferred, due, opened, entries>>
  BY DEF TakeLock, diskVars, segVars
<1>4. /\ i \in DOMAIN files /\ files[i] # <<>>
      /\ i = Newest \/ (manifest # <<>> /\ Last(manifest).file = i)
  BY <1>2 DEF Resumable
<1>5. /\ counts' \in [{"records", "opens"} -> Nat] /\ counts'["records"] = counts["records"]
      /\ UNCHANGED diskVars
  BY <1>1, <1>3 DEF PalaTypeOK, diskVars
<1>6. DiskTypes' /\ DiskInv' /\ Newest' = Newest
  BY <1>1, <1>5, DiskKept
<1>7. lock[0] = Null /\ lock' = [lock EXCEPT ![0] = p]
  BY <1>1, <1>2, <1>4, OneLockName
<1>8. MemTypes'
  <2>1. counts["opens"] + 1 \in Nat /\ i \in Index
    BY <1>1, <1>4 DEF PalaTypeOK
  <2>2. boot' \in [Proc -> Nat]
    BY <1>1, <1>3, <2>1 DEF MemTypes
  <2>3. pc' \in [Proc -> {"out", "fresh", "scan", "ready", "cut", "successor"}]
    BY <1>1, <1>3 DEF MemTypes
  <2>4. lock' \in [Index -> Proc \cup {Null}]
    BY <1>1, <1>7 DEF MemTypes
  <2>5. path' \in [Proc -> Index]
    BY <1>1, <1>2, <2>1 DEF MemTypes
  <2> QED BY <1>1, <1>3, <2>2, <2>3, <2>4, <2>5 DEF MemTypes
<1>9. PalaTypeOK'
  BY <1>6, <1>8, TypeParts, PTL
<1>10. /\ pc'[p] = "scan" /\ \A q \in Proc \ {p} : pc'[q] = pc[q]
  BY <1>1, <1>3 DEF MemTypes
<1>11. Inside = {}
  BY <1>1, <1>7, FreeLock
<1>12. LockInv'
  <2>1. \A q \in Proc : q \in Inside' <=> q = p
    BY <1>10, <1>11 DEF Inside
  <2>2. lock'[0] = p /\ \A j \in Index \ {0} : lock'[j] = lock[j]
    BY <1>1, <1>7, Zero DEF MemTypes
  <2> QED BY <1>1, <2>1, <2>2 DEF LockInv
<1>13. ASSUME NEW q \in Proc PROVE MemoryInv(q)'
  <2>1. MemoryInv(q)
    BY <1>1
  <2>2. CASE q = p
    <3>1. Blank(p)
      BY <1>3, <2>1, <2>2 DEF MemoryInv, Writing
    <3>2. Blank(p)' /\ p \notin Writing' /\ path'[p] = i
      BY <1>1, <1>2, <1>3, <1>10, <3>1 DEF Blank, Writing, MemTypes
    <3> QED BY <1>3, <1>4, <1>6, <1>10, <2>2, <3>2 DEF MemoryInv
  <2>3. CASE q # p
    <3>1. path'[q] = path[q]
      BY <1>1, <1>2, <2>3 DEF MemTypes
    <3> QED BY <1>1, <1>3, <1>10, <1>11, <2>1, <2>3, <3>1, Undisturbed
  <2> QED BY <2>2, <2>3
<1> QED BY <1>6, <1>9, <1>12, <1>13 DEF CoreInv


\* A process leaves and nothing on disk changes.
LEMMA LeftKept ==
    ASSUME CoreInv, NEW p \in Proc, Leave(p), UNCHANGED <<diskVars, counts>>
    PROVE  CoreInv'
<1>1. PalaTypeOK /\ DiskInv /\ counts \in [{"records", "opens"} -> Nat]
  BY DEF CoreInv, PalaTypeOK
<1>2. DiskTypes' /\ DiskInv' /\ Newest' = Newest
  BY <1>1, DiskKept
<1> QED BY <1>2, Left DEF diskVars

\* A process dies, at any point.
LEMMA CrashCore ==
    ASSUME CoreInv, NEW p \in Proc, Crash(p)
    PROVE  CoreInv'
<1>1. PalaTypeOK /\ MemTypes /\ DiskInv /\ MemoryInv(p)
  BY TypeParts DEF CoreInv
<1>2. Leave(p) /\ UNCHANGED <<manifest, chain, counts>>
  BY DEF Crash
<1>3. CASE UNCHANGED files
  BY <1>2, <1>3, LeftKept DEF diskVars
<1>4. CASE pc[p] = "ready" /\ files' = [files EXCEPT ![path[p]] = Append(@, Torn)]
  <2>1. /\ p \in Writing /\ p \in Inside
        /\ path[p] = Newest /\ Newest \in DOMAIN files /\ ~HasTorn(Newest) /\ ~Cutting
    BY <1>1, <1>4 DEF MemoryInv, Writing, Inside
  <2>2. PICK m \in DOMAIN files : m = Newest
    BY <2>1
  <2>3. files[m] \in Seq(Item) /\ Torn \in Item
    <3>1. <<>> \in Seq(Nat)
      BY EmptySeq
    <3> QED BY <1>1, <3>1 DEF PalaTypeOK, Torn, Item, Genesis
  <2> DEFINE s == Append(files[m], Torn)
  <2>4. /\ s \in Seq(Item) /\ Len(s) = Len(files[m]) + 1 /\ s[Len(s)] = Torn
        /\ \A k \in 1..Len(files[m]) : s[k] = files[m][k]
    BY <2>3, AppendProperties
  <2>5. files' = [files EXCEPT ![m] = s] /\ Whole(m) = Len(files[m])
    BY <1>4, <2>1, <2>2 DEF Whole
  <2> HIDE DEF s
  <2>6. DiskTypes' /\ DiskInv' /\ Newest' = m
    BY <1>1, <1>2, <2>1, <2>2, <2>4, <2>5, DiskRewritten
  <2> QED BY <1>2, <2>1, <2>2, <2>6, Left
<1> QED BY <1>3, <1>4 DEF Crash

\* A torn tail is cut off.
LEMMA TruncateCore ==
    ASSUME CoreInv, NEW p \in Proc, Truncate(p)
    PROVE  CoreInv'
<1>1. /\ PalaTypeOK /\ MemTypes /\ DiskInv /\ LockInv /\ ChainInv /\ FilesInv
      /\ \A q \in Proc : MemoryInv(q)
  BY TypeParts DEF CoreInv, DiskInv
<1>2. /\ pc[p] = "scan" /\ ~Clean(path[p]) /\ Scanned(path[p]) # <<>>
      /\ files' = [files EXCEPT ![path[p]] = Scanned(path[p])]
      /\ UNCHANGED <<manifest, chain, lock, pc, memVars, counts>>
  BY DEF Truncate
<1>3. PICK m \in DOMAIN files : m = path[p]
  BY <1>1, <1>2 DEF MemoryInv
<1>4. /\ files[m] \in Seq(Item) /\ Len(files[m]) \in Nat
      /\ HasTorn(m) /\ Scanned(m) \in Seq(Item) /\ Len(Scanned(m)) = Whole(m)
      /\ Whole(m) \in 0..Len(files[m])
      /\ \A k \in 1..Whole(m) : Scanned(m)[k] = files[m][k]
  BY <1>1, <1>2, <1>3, FileFacts
<1>5. m = Newest
  BY <1>1, <1>2, <1>3, FirstFacts
<1> DEFINE s == Scanned(m)
<1>6. files' = [files EXCEPT ![m] = s] /\ s # <<>> /\ s \in Seq(Item)
  BY <1>2, <1>3, <1>4
<1>7. PICK w \in Nat : w = Whole(m) /\ Len(s) = w /\ \A k \in 1..w : s[k] = files[m][k]
  BY <1>4
<1> HIDE DEF s
<1>8. DiskTypes' /\ DiskInv' /\ Newest' = m
  <2>1. Len(s) \in {w, w + 1} /\ Len(s) # w + 1
    BY <1>7
  <2> QED BY <1>1, <1>2, <1>5, <1>6, <1>7, <2>1, DiskRewritten
<1>9. MemTypes' /\ LockInv'
  BY <1>1, <1>2 DEF MemTypes, memVars, segVars, LockInv, Inside
<1>10. PalaTypeOK'
  BY <1>8, <1>9, TypeParts, PTL
<1>11. /\ pc' = pc /\ path' = path /\ must' = must /\ seq' = seq /\ head' = head
       /\ spans' = spans /\ opened' = opened /\ entries' = entries
       /\ frontier' = frontier /\ deferred' = deferred
  BY <1>2 DEF memVars, segVars
<1>12. ASSUME NEW q \in Proc PROVE MemoryInv(q)'
  <2>1. CASE q = p
    <3>1. Blank(p) /\ p \notin Writing
      BY <1>1, <1>2 DEF MemoryInv, Writing
    <3>2. Blank(p)' /\ p \notin Writing' /\ pc'[p] = "scan"
      BY <1>2, <1>11, <3>1 DEF Blank, Writing
    <3>3. path'[p] \in DOMAIN files' /\ files'[path'[p]] # <<>> /\ path'[p] = Newest'
      BY <1>3, <1>6, <1>8, <1>11
    <3> QED BY <2>1, <3>2, <3>3 DEF MemoryInv
  <2>2. CASE q # p
    <3>1. q \notin Inside
      BY <1>1, <1>2, <2>2, OneInside DEF Inside
    <3> QED BY <1>1, <1>11, <3>1, Undisturbed
  <2> QED BY <2>1, <2>2
<1> QED BY <1>8, <1>9, <1>10, <1>12 DEF CoreInv

\* The oldest segment is removed.
LEMMA RetireCore ==
    ASSUME CoreInv, Retire
    PROVE  CoreInv'
<1>1. PalaTypeOK /\ MemTypes /\ DiskInv /\ LockInv /\ \A q \in Proc : MemoryInv(q)
  BY TypeParts DEF CoreInv
<1>2. PICK o \in DOMAIN files :
           /\ \A j \in DOMAIN files : o <= j
           /\ o # Newest
           /\ \A p \in Proc : pc[p] # "out" => path[p] # o
           /\ files' = [j \in DOMAIN files \ {o} |-> files[j]]
           /\ UNCHANGED <<manifest, chain, lock, pc, memVars, counts>>
  BY DEF Retire
<1>3. /\ DiskTypes' /\ DiskInv' /\ Newest' = Newest
      /\ \A j \in DOMAIN files \ {o} : files'[j] = files[j]
  BY <1>1, <1>2, DiskRetired
<1>4. MemTypes' /\ LockInv'
  BY <1>1, <1>2 DEF MemTypes, memVars, segVars, LockInv, Inside
<1>5. PalaTypeOK'
  BY <1>3, <1>4, TypeParts, PTL
<1>6. ASSUME NEW q \in Proc PROVE MemoryInv(q)'
  <2>1. MemoryInv(q)
    BY <1>1
  <2>2. q \in Inside => path[q] \in DOMAIN files /\ path[q] # o
    <3>1. q \in Inside => q \in Writing \/ pc[q] = "scan"
      BY <1>1 DEF Inside, Writing, MemTypes
    <3> QED BY <1>2, <2>1, <3>1 DEF MemoryInv, Inside
  <2>3. q \in Inside => path[q] \in DOMAIN files' /\ files'[path[q]] = files[path[q]]
    BY <1>2, <1>3, <2>2
  <2> QED BY <1>1, <1>2, <1>3, <2>1, <2>3, Undisturbed DEF memVars, segVars
<1> QED BY <1>3, <1>4, <1>5, <1>6 DEF CoreInv

-----------------------------------------------------------------------------
(* Adopting the tail of a segment.                                          *)

\* The last record of a file that is not torn.
LEMMA LastOfFile ==
    ASSUME PalaTypeOK, DiskInv, NEW i \in DOMAIN files, files[i] # <<>>, Clean(i)
    PROVE  /\ Whole(i) = Len(files[i]) /\ Whole(i) > 0 /\ ~HasTorn(i)
           /\ Last(files[i]).hash = Begin(i) + Len(files[i])
           /\ Last(files[i]).seq + 1 = Begin(i) + Len(files[i])
<1>1. /\ files[i] \in Seq(Item) /\ Len(files[i]) \in Nat /\ Begin(i) \in Nat
      /\ Len(files[i]) # 0 /\ ~HasTorn(i)
      /\ \A k \in 1..Whole(i) : /\ Begin(i) + k \in 1..Len(chain)
                                /\ files[i][k] = chain[Begin(i) + k]
  BY FileFacts DEF DiskInv
<1>2. Whole(i) = Len(files[i])
  BY <1>1 DEF Whole
<1>3. ChainInv
  BY DEF DiskInv
<1> DEFINE l == Len(files[i])
           b == Begin(i)
<1>4. /\ l \in Nat /\ l > 0 /\ b \in Nat /\ l \in 1..l
      /\ b + l \in 1..Len(chain) /\ files[i][l] = chain[b + l]
  BY <1>1, <1>2
<1>5. Last(files[i]) = chain[b + l]
  BY <1>4 DEF Last
<1> HIDE DEF l, b
<1>6. chain[b + l].hash = b + l /\ chain[b + l].seq = b + l - 1
  BY <1>3, <1>4 DEF ChainInv
<1>7. b + l - 1 + 1 = b + l
  BY <1>4
<1> QED BY <1>1, <1>2, <1>4, <1>5, <1>6, <1>7 DEF l, b

\* The newest of several segments begins where the entry before it ends.
LEMMA EntryBefore ==
    ASSUME PalaTypeOK, DiskInv, NEW m \in DOMAIN files, m = Newest, m # 0
    PROVE  /\ m \in 1..Len(manifest) /\ m \in Nat
           /\ manifest[m].file = m - 1 /\ manifest[m].head = Begin(m)
           /\ manifest[m].covers = Upto(Begin(m))
<1>1. Len(manifest) \in {m, m + 1} /\ m \in Nat
  BY NewestFacts DEF DiskInv, ManifestInv, Cutting, PalaTypeOK
<1>2. m \in 1..Len(manifest)
  BY <1>1
<1>3. /\ manifest[m].file = m - 1
      /\ manifest[m].head = manifest[m].last + 1
      /\ manifest[m].covers = Upto(manifest[m].last + 1)
      /\ Begin(m) = manifest[m].last + 1
  BY <1>2 DEF DiskInv, ManifestInv
<1> QED BY <1>1, <1>2, <1>3

\* A writer is only resumed on the newest segment: the one closed before it is
\* recognised by its successor.
LEMMA ResumedOnNewest ==
    ASSUME PalaTypeOK, DiskInv, NEW i \in DOMAIN files, files[i] # <<>>, Clean(i),
           i = Newest \/ (manifest # <<>> /\ Last(manifest).file = i),
           CutUnfinished(i) => Successors(Last(files[i]).hash) = {}
    PROVE  i = Newest
<1> SUFFICES ASSUME i # Newest PROVE FALSE
  OBVIOUS
<1>1. PICK m \in DOMAIN files : m = Newest /\ m \in Nat /\ i \in Nat /\ i <= m
  BY NewestFacts DEF PalaTypeOK
<1>2. m # 0 /\ m # i
  BY <1>1
<1>3. /\ m \in 1..Len(manifest) /\ manifest[m].file = m - 1
      /\ manifest[m].head = Begin(m)
  BY <1>1, <1>2, EntryBefore
<1>4. manifest # <<>> /\ Last(manifest) = manifest[Len(manifest)]
  BY DEF Last
<1>5. Len(manifest) = m /\ i + 1 = m
  <2>1. Len(manifest) \in {m, m + 1}
    BY <1>1 DEF DiskInv, ManifestInv, Cutting
  <2>2. Len(manifest) \in 1..Len(manifest)
    BY <1>1, <2>1, <1>2
  <2>3. manifest[Len(manifest)].file = Len(manifest) - 1
    BY <2>2 DEF DiskInv, ManifestInv
  <2> QED BY <1>1, <1>2, <1>4, <2>1, <2>3
<1>6. Begin(m) = Begin(i) + Len(files[i])
  BY <1>5 DEF DiskInv, FilesInv
<1>7. Last(files[i]).hash = Begin(m)
  BY <1>6, LastOfFile
<1>8. Last(manifest).file = i /\ Last(manifest).head = Begin(m)
  BY <1>1, <1>3, <1>4, <1>5
<1>9. Loaded(i) = manifest
  BY <1>4, <1>8 DEF Loaded
<1>10. CutUnfinished(i)
  BY <1>4, <1>7, <1>8, <1>9 DEF CutUnfinished
<1>11. m \in Successors(Begin(m))
  <2>1. files[m] # <<>> /\ files[m][1] # Torn /\ files[m][1].prev = Begin(m)
    BY <1>2, FirstFacts, FileFacts DEF DiskInv, FilesInv
  <2> QED BY <1>2, <2>1 DEF Successors
<1> QED BY <1>7, <1>10, <1>11

\* What a writer resumed on the newest segment reads of the manifest.
LEMMA ResumedManifest ==
    ASSUME PalaTypeOK, DiskInv, NEW m \in DOMAIN files, m = Newest,
           files[m] # <<>>, Clean(m)
    PROVE  Loaded(m) = manifest /\ (CutUnfinished(m) <=> Cutting)
<1>1. manifest \in Seq(Entry) /\ m \in Nat /\ Len(manifest) \in {m, m + 1}
  BY NewestFacts DEF PalaTypeOK, DiskInv, ManifestInv, Cutting
<1>2. Last(files[m]).hash = Begin(m) + Len(files[m]) /\ Whole(m) = Len(files[m])
  BY LastOfFile
<1>3. Begin(m) + Whole(m) = Len(chain)
  BY NewestEnds DEF DiskInv
<1>4. manifest # <<>> <=> Len(manifest) # 0
  BY <1>1, EmptySeq
<1>5. CASE Cutting
  <2>1. Len(manifest) = m + 1 /\ manifest # <<>> /\ m + 1 \in 1..Len(manifest)
    BY <1>1, <1>4, <1>5 DEF Cutting
  <2>2. Last(manifest) = manifest[m + 1]
    BY <2>1 DEF Last
  <2>3. /\ manifest[m + 1].file = m + 1 - 1
        /\ manifest[m + 1].head = manifest[m + 1].last + 1
        /\ manifest[m + 1].last + 1 = Len(chain)
    <3>1. manifest[m + 1].last + 1 = Len(chain)
      BY <1>5 DEF DiskInv, ManifestInv
    <3>2. ManifestInv
      BY DEF DiskInv
    <3>3. \A k \in 1..Len(manifest) :
             manifest[k].file = k - 1 /\ manifest[k].head = manifest[k].last + 1
      BY <3>2 DEF ManifestInv
    <3>4. PICK j \in 1..Len(manifest) : j = m + 1
      BY <2>1
    <3>5. manifest[j].file = j - 1 /\ manifest[j].head = manifest[j].last + 1
      BY <3>3
    <3> QED BY <3>1, <3>4, <3>5
  <2>4. Last(manifest).file = m /\ Last(manifest).head = Last(files[m]).hash
    BY <1>1, <1>2, <1>3, <2>2, <2>3
  <2>5. Loaded(m) = manifest
    BY <2>1, <2>4 DEF Loaded
  <2> QED BY <1>5, <2>1, <2>4, <2>5 DEF CutUnfinished
<1>6. CASE ~Cutting
  <2>1. Len(manifest) = m
    BY <1>6 DEF DiskInv, ManifestInv
  <2>2. CASE m = 0
    <3>1. manifest = <<>> /\ Loaded(m) = manifest
      BY <1>4, <2>1, <2>2 DEF Loaded
    <3> QED BY <1>6, <3>1 DEF CutUnfinished
  <2>3. CASE m # 0
    <3>1. manifest[m].file = m - 1 /\ manifest[m].head = Begin(m) /\ manifest # <<>>
      BY <1>4, <2>1, <2>3, EntryBefore
    <3>2. files[m][1].prev = Begin(m)
      BY <2>3, FirstFacts DEF DiskInv
    <3>3. Last(manifest) = manifest[m] /\ Last(manifest).file # m
      BY <1>1, <2>1, <3>1 DEF Last
    <3>4. Loaded(m) = manifest
      BY <3>1, <3>2, <3>3 DEF Loaded
    <3> QED BY <1>6, <3>3, <3>4 DEF CutUnfinished
  <2> QED BY <2>2, <2>3
<1> QED BY <1>5, <1>6

\* The root of what came before the newest segment is in the manifest.
LEMMA ResumedRoot ==
    ASSUME PalaTypeOK, DiskInv, NEW m \in DOMAIN files, m = Newest, m # 0,
           NEW first, first = files[m][1]
    PROVE  StartingFrontier(first) = Upto(Begin(m))
<1>1. /\ m \in 1..Len(manifest) /\ manifest[m].head = Begin(m)
      /\ manifest[m].covers = Upto(Begin(m))
  BY EntryBefore
<1>2. first.seq = Begin(m) /\ first.prev = Begin(m) /\ Begin(m) \in Nat
  BY FirstFacts, FileFacts DEF DiskInv
<1>3. manifest \in Seq(Entry) /\ DOMAIN manifest = 1..Len(manifest)
  BY LenProperties DEF PalaTypeOK
<1>4. manifest[m] \in Range(manifest) /\ Len(manifest[m].covers) = Begin(m)
  <2>1. Len(Upto(Begin(m))) = Begin(m)
    BY <1>2 DEF Upto
  <2> QED BY <1>1, <1>3, <2>1 DEF Range
<1> DEFINE Fits(e) == e.head = first.prev /\ Len(e.covers) = first.seq
           e == CHOOSE e \in Range(manifest) : Fits(e)
<1>5. e \in Range(manifest) /\ Fits(e)
  <2>1. Fits(manifest[m])
    BY <1>1, <1>2, <1>4
  <2> QED BY <1>4, <2>1
<1>6. StartingFrontier(first) = e.covers
  BY DEF StartingFrontier
<1> HIDE DEF e
<1>7. PICK k \in 1..Len(manifest) : e = manifest[k]
  BY <1>3, <1>5 DEF Range
<1>8. manifest[k].head = manifest[k].last + 1 /\ manifest[k].covers = Upto(manifest[k].last + 1)
  BY DEF DiskInv, ManifestInv
<1> QED BY <1>2, <1>5, <1>6, <1>7, <1>8

\* A writer adopts the tail it found.
LEMMA AdoptCore ==
    ASSUME CoreInv, NEW p \in Proc, Adopt(p)
    PROVE  CoreInv'
<1>1. /\ PalaTypeOK /\ MemTypes /\ DiskInv /\ LockInv /\ ChainInv /\ FilesInv
      /\ \A q \in Proc : MemoryInv(q)
  BY TypeParts DEF CoreInv, DiskInv
<1>2. /\ pc[p] = "scan" /\ Clean(path[p])
      /\ CutUnfinished(path[p]) => Successors(Last(files[path[p]]).hash) = {}
      /\ UNCHANGED <<files, chain, lock, path, boot, spans, due, counts>>
      /\ pc' = [pc EXCEPT ![p] = "ready"]
      /\ must' = [must EXCEPT ![p] = "BOOT"]
  BY DEF Adopt
<1>3. Blank(p) /\ p \notin Writing /\ p \in Inside
  BY <1>1, <1>2 DEF MemoryInv, Writing, Inside
<1>4. PICK m \in DOMAIN files :
           /\ m = path[p] /\ files[m] # <<>>
           /\ m = Newest \/ (manifest # <<>> /\ Last(manifest).file = m)
  BY <1>1, <1>2 DEF MemoryInv
<1>5. m = Newest
  BY <1>1, <1>2, <1>4, ResumedOnNewest
<1>6. Loaded(m) = manifest /\ (CutUnfinished(m) <=> Cutting)
  BY <1>1, <1>2, <1>4, <1>5, ResumedManifest
<1> DEFINE first == files[m][1]
           n == Len(chain)
<1>7. /\ manifest' = IF Cutting THEN Front(manifest) ELSE manifest
      /\ entries' = [entries EXCEPT ![p] = manifest']
  BY <1>4, <1>6 DEF Adopt, FoldedBack
<1>8. /\ Whole(m) = Len(files[m]) /\ Whole(m) > 0 /\ ~HasTorn(m)
      /\ Last(files[m]).hash = n /\ Last(files[m]).seq + 1 = n
      /\ Begin(m) + Len(files[m]) = n
  <2>1. Begin(m) + Whole(m) = n
    BY <1>1, <1>5, NewestEnds
  <2> QED BY <1>1, <1>2, <1>4, <2>1, LastOfFile
<1>9. /\ first.seq = Begin(m) /\ first.prev = Begin(m) /\ SegmentOrdinal(first) = m
      /\ m \in Nat /\ Begin(m) \in Nat /\ n \in Nat /\ m <= Begin(m)
      /\ files[m] \in Seq(Item) /\ Len(files[m]) \in Nat
  BY <1>1, <1>5, <1>8, FirstFacts, FileFacts, NewestEnds, ChainFacts
<1>10. /\ seq' = [seq EXCEPT ![p] = n]
       /\ head' = [head EXCEPT ![p] = n]
       /\ opened' = [opened EXCEPT ![p] = [first |-> Begin(m), prev |-> Begin(m),
                                           ordinal |-> m]]
  BY <1>4, <1>8, <1>9 DEF Adopt
<1>11. /\ Begin(m) = 0 => deferred' = [deferred EXCEPT ![p] = Len(files[m])]
                          /\ UNCHANGED frontier
       /\ Begin(m) # 0 => frontier' = [frontier EXCEPT ![p] =
                                         StartingFrontier(first) \o HashesOf(files[m])]
                          /\ UNCHANGED deferred
  BY <1>4, <1>9 DEF Adopt
<1>12. /\ DiskTypes' /\ DiskInv' /\ Newest' = m /\ ~Cutting'
  <2>1. CASE Cutting
    BY <1>1, <1>2, <1>5, <1>7, <2>1, DiskFolded
  <2>2. CASE ~Cutting
    <3>1. UNCHANGED diskVars /\ counts'["records"] = counts["records"]
          /\ counts' \in [{"records", "opens"} -> Nat]
      BY <1>1, <1>2, <1>7, <2>2 DEF diskVars, PalaTypeOK
    <3> QED BY <1>1, <1>5, <2>2, <3>1, DiskKept
  <2> QED BY <2>1, <2>2
<1>13. n # 0 /\ chain # <<>>
  BY <1>1, <1>8, <1>9, ChainFacts
<1> HIDE DEF n
<1>14. FrontierInv(p)' /\ frontier' \in [Proc -> Seq(Nat)] /\ deferred' \in [Proc -> Nat]
  <2>1. frontier[p] = <<>> /\ deferred[p] = 0 /\ chain' = chain /\ path'[p] = m
    BY <1>2, <1>3, <1>4 DEF Blank
  <2>2. CASE Begin(m) = 0
    <3>1. m = 0
      BY <1>9, <2>2
    <3>2. deferred'[p] = n /\ frontier'[p] = <<>> /\ Len(<<>>) = 0
      BY <1>1, <1>8, <1>9, <1>11, <2>1, <2>2 DEF MemTypes
    <3>3. FrontierInv(p)'
      BY <1>9, <2>1, <3>1, <3>2 DEF FrontierInv, n
    <3>4. frontier' \in [Proc -> Seq(Nat)]
      BY <1>1, <1>11, <2>2 DEF MemTypes
    <3>5. deferred' \in [Proc -> Nat]
      BY <1>1, <1>9, <1>11, <2>2 DEF MemTypes
    <3> QED BY <3>3, <3>4, <3>5
  <2>3. CASE Begin(m) # 0
    <3>1. m # 0
      BY <2>3 DEF Begin
    <3>2. StartingFrontier(first) = Upto(Begin(m))
      BY <1>1, <1>5, <3>1, ResumedRoot
    <3> DEFINE b == Begin(m)
               l == Len(files[m])
               s == Upto(b)
               t == HashesOf(files[m])
    <3>3. s \in Seq(Nat) /\ Len(s) = b /\ \A k \in 1..b : s[k] = k
      BY <1>9 DEF Upto
    <3>4. \A k \in 1..l : files[m][k].hash = b + k
      <4>1. ASSUME NEW k \in 1..l PROVE files[m][k].hash = b + k
        <5>1. b + k \in 1..Len(chain) /\ files[m][k] = chain[b + k]
          BY <1>1, <1>8, FileFacts
        <5> QED BY <1>1, <5>1 DEF ChainInv
      <4> QED BY <4>1
    <3> HIDE DEF b
    <3>5. b \in Nat /\ l \in Nat /\ b + l = n
      BY <1>8, <1>9 DEF b
    <3>6. t = [k \in 1..l |-> files[m][k].hash]
      BY DEF HashesOf
    <3> HIDE DEF l, s, t
    <3>7. t \in Seq(Nat) /\ Len(t) = l /\ \A k \in 1..l : t[k] = b + k
      BY <3>4, <3>5, <3>6
    <3>8. /\ s \o t \in Seq(Nat) /\ Len(s \o t) = n
          /\ \A k \in 1..n : (s \o t)[k] = k
      <4>1. /\ s \o t \in Seq(Nat) /\ Len(s \o t) = b + l
            /\ \A k \in 1..(b + l) : (s \o t)[k] = IF k <= b THEN s[k] ELSE t[k - b]
        BY <3>3, <3>7, ConcatProperties
      <4>2. ASSUME NEW k \in 1..(b + l)
            PROVE  (IF k <= b THEN s[k] ELSE t[k - b]) = k
        <5>1. CASE k <= b
          BY <3>3, <3>5, <5>1
        <5>2. CASE ~(k <= b)
          <6>1. k - b \in 1..l /\ b + (k - b) = k
            BY <3>5, <5>2
          <6> QED BY <3>7, <5>2, <6>1
        <5> QED BY <5>1, <5>2
      <4> QED BY <3>5, <4>1, <4>2
    <3>9. frontier' = [frontier EXCEPT ![p] = s \o t]
      BY <1>11, <2>3, <3>2 DEF s, t, b
    <3>10. frontier'[p] = s \o t /\ deferred'[p] = 0
      BY <1>1, <1>11, <2>1, <2>3, <3>9 DEF MemTypes
    <3>11. FrontierInv(p)'
      <4>1. 0 + n = n /\ \A k \in 1..n : 0 + k = k
        BY <1>9 DEF n
      <4> QED BY <2>1, <3>8, <3>10, <4>1 DEF FrontierInv, n
    <3> QED BY <1>1, <1>11, <2>3, <3>8, <3>9, <3>11 DEF MemTypes
  <2> QED BY <2>2, <2>3
<1>15. MemTypes'
  <2>1. manifest' \in Seq(Entry) /\ n \in Nat
    BY <1>9, <1>12 DEF DiskTypes, n
  <2>2. entries' \in [Proc -> Seq(Entry)] /\ pc' \in [Proc -> {"out", "fresh", "scan", "ready", "cut", "successor"}]
    BY <1>1, <1>2, <1>7, <2>1 DEF MemTypes
  <2>3. must' \in [Proc -> {"GENESIS", "BOOT", "any"}]
    BY <1>1, <1>2 DEF MemTypes
  <2>4. seq' \in [Proc -> Nat] /\ head' \in [Proc -> Nat]
    BY <1>1, <1>10, <2>1 DEF MemTypes
  <2>5. opened' \in [Proc -> [first : Nat, prev : Nat, ordinal : Nat]]
    BY <1>1, <1>9, <1>10 DEF MemTypes
  <2> QED BY <1>1, <1>2, <1>14, <2>2, <2>3, <2>4, <2>5 DEF MemTypes
<1>16. PalaTypeOK'
  BY <1>12, <1>15, TypeParts, PTL
<1>17. /\ pc'[p] = "ready" /\ must'[p] = "BOOT" /\ seq'[p] = n /\ head'[p] = n
       /\ entries'[p] = manifest'
       /\ opened'[p] = [first |-> Begin(m), prev |-> Begin(m), ordinal |-> m]
  BY <1>1, <1>2, <1>7, <1>10 DEF MemTypes
<1>18. \A q \in Proc \ {p} :
         /\ pc'[q] = pc[q] /\ must'[q] = must[q] /\ seq'[q] = seq[q] /\ head'[q] = head[q]
         /\ entries'[q] = entries[q] /\ opened'[q] = opened[q]
         /\ frontier'[q] = frontier[q] /\ deferred'[q] = deferred[q]
  BY <1>1, <1>2, <1>7, <1>10, <1>11 DEF MemTypes
<1>19. LockInv'
  <2>1. \A q \in Proc : q \in Inside' <=> q \in Inside
    BY <1>2, <1>17, <1>18 DEF Inside
  <2> QED BY <1>1, <1>2, <2>1 DEF LockInv
<1>20. ASSUME NEW q \in Proc PROVE MemoryInv(q)'
  <2>1. CASE q = p
    <3>1. Begin(m)' = Begin(m) /\ HasTorn(m)' = HasTorn(m) /\ Begin(Newest)' = Begin(m)
          /\ HasTorn(Newest)' = HasTorn(m)
      BY <1>2, <1>12 DEF Begin, HasTorn
    <3>2. /\ path'[p] = m /\ chain' = chain /\ m \in DOMAIN files'
      BY <1>2, <1>4
    <3> QED BY <1>8, <1>12, <1>13, <1>14, <1>17, <2>1, <3>1, <3>2 DEF MemoryInv, Writing, n
  <2>2. CASE q # p
    <3>1. q \notin Inside
      BY <1>1, <1>3, <2>2, OneInside
    <3> QED BY <1>1, <1>2, <1>18, <2>2, <3>1, Undisturbed
  <2> QED BY <2>1, <2>2
<1> QED BY <1>12, <1>16, <1>19, <1>20 DEF CoreInv

-----------------------------------------------------------------------------
(* Writing.                                                                 *)

\* One sequence of hashes after another.
LEMMA JoinedHashes ==
    ASSUME NEW a \in Nat, NEW b \in Nat, NEW s \in Seq(Nat), NEW t \in Seq(Nat),
           Len(s) = a, Len(t) = b,
           \A k \in 1..a : s[k] = k, \A k \in 1..b : t[k] = a + k
    PROVE  /\ s \o t \in Seq(Nat) /\ Len(s \o t) = a + b
           /\ \A k \in 1..(a + b) : (s \o t)[k] = k
<1>1. /\ s \o t \in Seq(Nat) /\ Len(s \o t) = a + b
      /\ \A k \in 1..(a + b) : (s \o t)[k] = IF k <= a THEN s[k] ELSE t[k - a]
  BY ConcatProperties
<1>2. ASSUME NEW k \in 1..(a + b)
      PROVE  (IF k <= a THEN s[k] ELSE t[k - a]) = k
  <2>1. CASE k <= a
    BY <2>1
  <2>2. CASE ~(k <= a)
    <3>1. k - a \in 1..b /\ a + (k - a) = k
      BY <2>2
    <3> QED BY <2>2, <3>1
  <2> QED BY <2>1, <2>2
<1> QED BY <1>1, <1>2

\* What the root of a writer covers: every record, each by its place.
LEMMA CoveredFacts ==
    ASSUME PalaTypeOK, DiskInv, NEW p \in Writing, MemoryInv(p)
    PROVE  /\ Covered(p) \in Seq(Nat) /\ Len(Covered(p)) = Len(chain)
           /\ \A k \in 1..Len(chain) : Covered(p)[k] = k
<1>1. /\ path[p] = Newest /\ Newest \in DOMAIN files /\ ~HasTorn(Newest)
      /\ deferred[p] + Len(frontier[p]) = Len(chain)
      /\ \A k \in 1..Len(frontier[p]) : frontier[p][k] = deferred[p] + k
      /\ deferred[p] # 0 => path[p] = 0
  BY DEF MemoryInv, FrontierInv
<1>2. frontier[p] \in Seq(Nat) /\ deferred[p] \in Nat /\ Len(frontier[p]) \in Nat
  BY DEF PalaTypeOK, Writing
<1>3. CASE deferred[p] = 0
  <2>1. Covered(p) = frontier[p]
    BY <1>3 DEF Covered
  <2>2. \A k \in Nat : 0 + k = k
    OBVIOUS
  <2> QED BY <1>1, <1>2, <1>3, <2>1, <2>2
<1>4. CASE deferred[p] # 0
  <2>1. Newest = 0 /\ 0 \in DOMAIN files /\ path[p] = 0 /\ ~HasTorn(0)
    BY <1>1, <1>4
  <2>2. /\ files[0] \in Seq(Item) /\ Len(files[0]) \in Nat
        /\ \A k \in 1..Whole(0) : /\ Begin(0) + k \in 1..Len(chain)
                                  /\ files[0][k] = chain[Begin(0) + k]
    BY <2>1, FileFacts DEF DiskInv
  <2>3. Begin(0) = 0 /\ Whole(0) = Len(files[0]) /\ Begin(0) + Whole(0) = Len(chain)
    BY <2>1, NewestEnds DEF Begin, Whole, DiskInv
  <2> DEFINE d == deferred[p]
             s == SubSeq(files[0], 1, d)
             t == HashesOf(s)
  <2>4. d \in Nat /\ d \in 0..Len(files[0])
    BY <1>1, <1>2, <2>2, <2>3
  <2>5. s \in Seq(Item) /\ Len(s) = d /\ \A k \in 1..d : s[k] = files[0][k]
    BY <2>2, <2>4, PrefixFacts
  <2>6. \A k \in 1..d : s[k].hash = k
    <3>1. ASSUME NEW k \in 1..d PROVE s[k].hash = k
      <4>1. k \in 1..Whole(0) /\ 0 + k = k
        BY <2>2, <2>3, <2>4
      <4>2. files[0][k] = chain[k] /\ k \in 1..Len(chain)
        BY <2>2, <2>3, <4>1
      <4> QED BY <2>5, <4>2 DEF DiskInv, ChainInv
    <3> QED BY <3>1
  <2>7. t = [k \in 1..d |-> s[k].hash]
    BY <2>5 DEF HashesOf
  <2>8. Covered(p) = t \o frontier[p]
    BY <1>4, <2>1 DEF Covered
  <2>9. d + Len(frontier[p]) = Len(chain) /\ \A k \in 1..Len(frontier[p]) : frontier[p][k] = d + k
    BY <1>1
  <2> DEFINE f == frontier[p]
             l == Len(f)
  <2>10. f \in Seq(Nat) /\ l \in Nat /\ Len(f) = l /\ \A k \in 1..l : f[k] = d + k
    BY <1>2, <2>9
  <2>11. Covered(p) = t \o f /\ d + l = Len(chain)
    BY <2>8, <2>9
  <2> HIDE DEF d, s, t, f, l
  <2>12. t \in Seq(Nat) /\ Len(t) = d /\ \A k \in 1..d : t[k] = k
    BY <2>4, <2>6, <2>7
  <2>13. /\ t \o f \in Seq(Nat) /\ Len(t \o f) = d + l
         /\ \A k \in 1..(d + l) : (t \o f)[k] = k
    BY <2>4, <2>10, <2>12, JoinedHashes
  <2> QED BY <2>11, <2>13
<1> QED BY <1>3, <1>4

\* The record that comes next is covered too.
LEMMA CoverStep ==
    ASSUME PalaTypeOK, DiskInv, NEW p \in Writing, MemoryInv(p),
           NEW r, r.hash = Len(chain) + 1, Cover(p, r)
    PROVE  /\ frontier' \in [Proc -> Seq(Nat)] /\ deferred' \in [Proc -> Nat]
           /\ deferred'[p] + Len(frontier'[p]) = Len(chain) + 1
           /\ \A k \in 1..Len(frontier'[p]) : frontier'[p][k] = deferred'[p] + k
           /\ deferred'[p] # 0 => deferred[p] # 0
           /\ \A q \in Proc \ {p} : frontier'[q] = frontier[q] /\ deferred'[q] = deferred[q]
<1> DEFINE n == Len(chain)
           Built == deferred[p] # 0 /\ Len(frontier[p]) + 1 >= PendingLimit
<1>1. p \in Proc /\ n \in Nat /\ n + 1 \in Nat
  BY ChainFacts DEF Writing, DiskInv
<1>2. frontier \in [Proc -> Seq(Nat)] /\ deferred \in [Proc -> Nat]
  BY DEF PalaTypeOK
<1>3. CASE Built
  <2> DEFINE s == Append(Covered(p), n + 1)
  <2>1. frontier' = [frontier EXCEPT ![p] = s] /\ deferred' = [deferred EXCEPT ![p] = 0]
    BY <1>3 DEF Cover
  <2>2. /\ s \in Seq(Nat) /\ Len(s) = n + 1 /\ s[n + 1] = n + 1
        /\ \A k \in 1..n : s[k] = k
    <3>1. /\ Covered(p) \in Seq(Nat) /\ Len(Covered(p)) = n
          /\ \A k \in 1..n : Covered(p)[k] = k
      BY CoveredFacts
    <3> QED BY <1>1, <3>1, AppendProperties
  <2> HIDE DEF n, s
  <2>3. frontier'[p] = s /\ deferred'[p] = 0
    BY <1>1, <1>2, <2>1
  <2>4. \A k \in 1..(n + 1) : s[k] = 0 + k
    <3>1. \A k \in 1..(n + 1) : (k \in 1..n \/ k = n + 1) /\ 0 + k = k
      BY <1>1
    <3> QED BY <2>2, <3>1
  <2>5. 0 + (n + 1) = n + 1
    BY <1>1
  <2>6. frontier' \in [Proc -> Seq(Nat)] /\ deferred' \in [Proc -> Nat]
    BY <1>2, <2>1, <2>2
  <2>7. \A q \in Proc \ {p} : frontier'[q] = frontier[q] /\ deferred'[q] = deferred[q]
    BY <1>2, <2>1
  <2> QED BY <2>2, <2>3, <2>4, <2>5, <2>6, <2>7 DEF n
<1>4. CASE ~Built
  <2> DEFINE f == frontier[p]
             d == deferred[p]
             l == Len(f)
             s == Append(f, n + 1)
  <2>1. frontier' = [frontier EXCEPT ![p] = s] /\ deferred' = deferred
    BY <1>4 DEF Cover
  <2>2. f \in Seq(Nat) /\ l \in Nat /\ d \in Nat /\ d + l = n /\ \A k \in 1..l : f[k] = d + k
    BY <1>1, <1>2 DEF MemoryInv, FrontierInv
  <2>3. /\ s \in Seq(Nat) /\ Len(s) = l + 1 /\ s[l + 1] = n + 1
        /\ \A k \in 1..l : s[k] = f[k]
    BY <1>1, <2>2, AppendProperties
  <2>4. frontier'[p] = s /\ deferred'[p] = d
    BY <1>1, <1>2, <2>1
  <2> HIDE DEF n, f, l, s, d
  <2>5. \A k \in 1..(l + 1) : s[k] = d + k
    <3>1. \A k \in 1..(l + 1) : k \in 1..l \/ k = l + 1
      BY <2>2
    <3>2. d + (l + 1) = n + 1
      BY <2>2
    <3> QED BY <2>2, <2>3, <3>1, <3>2
  <2>6. d + (l + 1) = n + 1
    BY <2>2
  <2>7. frontier' \in [Proc -> Seq(Nat)] /\ deferred' \in [Proc -> Nat]
    BY <1>2, <2>1, <2>3
  <2>8. \A q \in Proc \ {p} : frontier'[q] = frontier[q] /\ deferred'[q] = deferred[q]
    BY <1>2, <2>1
  <2> QED BY <2>3, <2>4, <2>5, <2>6, <2>7, <2>8 DEF n, d
<1> QED BY <1>3, <1>4

\* The first thing a cut does.
LEMMA CutManifestCore ==
    ASSUME CoreInv, NEW p \in Proc, CutManifest(p)
    PROVE  CoreInv'
<1>1. PalaTypeOK /\ MemTypes /\ DiskInv /\ LockInv /\ \A q \in Proc : MemoryInv(q)
  BY TypeParts DEF CoreInv
<1>2. /\ pc[p] = "cut" /\ pc' = [pc EXCEPT ![p] = "successor"]
      /\ frontier' = [frontier EXCEPT ![p] = Covered(p)]
      /\ deferred' = [deferred EXCEPT ![p] = 0]
      /\ UNCHANGED <<files, chain, lock, path, must, boot, seq, head, spans, due,
                     opened, counts>>
  BY DEF CutManifest
<1>3. p \in Writing /\ p \in Inside
  BY <1>2 DEF Writing, Inside
<1>4. PICK m \in DOMAIN files : m = Newest
  BY <1>1, <1>3 DEF MemoryInv
<1> DEFINE n == Len(chain)
           b == Begin(m)
           e == [file |-> m, first |-> b, last |-> n - 1, head |-> n, prev |-> b,
                 covers |-> Upto(n)]
<1>5. /\ path[p] = m /\ ~HasTorn(m) /\ ~Cutting
      /\ seq[p] = n /\ head[p] = n /\ entries[p] = manifest
      /\ opened[p] = [first |-> b, prev |-> b, ordinal |-> m]
      /\ must[p] = "any" /\ spans[p] = {} /\ chain # <<>>
  BY <1>1, <1>2, <1>3, <1>4 DEF MemoryInv
<1>6. n \in Nat /\ n # 0 /\ b \in Nat /\ m \in Index
  BY <1>1, <1>5, ChainFacts, FileFacts DEF DiskInv, PalaTypeOK
<1>7. /\ Covered(p) \in Seq(Nat) /\ Len(Covered(p)) = n
      /\ \A k \in 1..n : Covered(p)[k] = k
  BY <1>1, <1>3, CoveredFacts
<1>8. Covered(p) = Upto(n)
  BY <1>6, <1>7 DEF Upto
<1>9. manifest' = Append(manifest, e) /\ entries' = [entries EXCEPT ![p] = Append(@, e)]
  BY <1>5, <1>8 DEF CutManifest
<1>10. e \in Entry
  <2>1. Upto(n) \in Seq(Nat) /\ n - 1 \in Nat
    BY <1>6, <1>7, <1>8
  <2> QED BY <1>6, <2>1 DEF Entry
<1>11. DiskTypes' /\ DiskInv' /\ Newest' = m /\ Cutting'
  BY <1>1, <1>2, <1>4, <1>5, <1>9, <1>10, DiskClosed
<1> HIDE DEF n, b, e
<1>12. Append(manifest, e) \in Seq(Entry)
  BY <1>1, <1>10, AppendProperties DEF PalaTypeOK
<1>13. MemTypes'
  <2>1. entries' \in [Proc -> Seq(Entry)] /\ entries'[p] = manifest'
    BY <1>1, <1>5, <1>9, <1>12 DEF MemTypes
  <2>2. pc' \in [Proc -> {"out", "fresh", "scan", "ready", "cut", "successor"}]
    BY <1>1, <1>2 DEF MemTypes
  <2>3. frontier' \in [Proc -> Seq(Nat)] /\ deferred' \in [Proc -> Nat]
    BY <1>1, <1>2, <1>7 DEF MemTypes
  <2> QED BY <1>1, <1>2, <2>1, <2>2, <2>3 DEF MemTypes
<1>14. PalaTypeOK'
  BY <1>11, <1>13, TypeParts, PTL
<1>15. /\ pc'[p] = "successor" /\ entries'[p] = manifest'
       /\ frontier'[p] = Covered(p) /\ deferred'[p] = 0
  BY <1>1, <1>2, <1>5, <1>9 DEF MemTypes
<1>16. \A q \in Proc \ {p} :
         /\ pc'[q] = pc[q] /\ entries'[q] = entries[q]
         /\ frontier'[q] = frontier[q] /\ deferred'[q] = deferred[q]
  BY <1>1, <1>2, <1>9 DEF MemTypes
<1>17. LockInv'
  <2>1. \A q \in Proc : q \in Inside' <=> q \in Inside
    BY <1>2, <1>15, <1>16 DEF Inside
  <2> QED BY <1>1, <1>2, <2>1 DEF LockInv
<1>18. ASSUME NEW q \in Proc PROVE MemoryInv(q)'
  <2>1. CASE q = p
    <3>1. Begin(Newest)' = b /\ HasTorn(Newest)' = HasTorn(m)
      BY <1>2, <1>11 DEF Begin, HasTorn, b
    <3>2. FrontierInv(p)'
      <4>1. 0 + n = n /\ \A k \in 1..n : 0 + k = k
        BY <1>6
      <4> QED BY <1>2, <1>7, <1>15, <4>1 DEF FrontierInv, n
    <3> QED BY <1>2, <1>4, <1>5, <1>11, <1>15, <2>1, <3>1, <3>2 DEF MemoryInv, Writing, n
  <2>2. CASE q # p
    <3>1. q \notin Inside
      BY <1>1, <1>3, <2>2, OneInside
    <3> QED BY <1>1, <1>2, <1>16, <2>2, <3>1, Undisturbed
  <2> QED BY <2>1, <2>2
<1> QED BY <1>11, <1>14, <1>17, <1>18 DEF CoreInv

\* What a writer emits comes next.
LEMMA EmittedNext ==
    ASSUME CoreInv, BootInv, NEW p \in Proc, pc[p] = "ready", NEW kind \in Allowed(p),
           NEW span \in IF kind \in {"START", "END"} THEN Span ELSE {Null},
           NEW r, r = Record(p, kind, span)
    PROVE  /\ NextRecord(r) /\ r.kind = kind /\ r.boot = boot[p] /\ r.span = span
           /\ r.hash = Len(chain) + 1
           /\ kind # "CONT" /\ (kind = "START" => span \in Span)
<1> DEFINE n == Len(chain)
<1>1. PalaTypeOK /\ MemTypes /\ DiskInv /\ ChainInv /\ MemoryInv(p) /\ p \in Writing
  BY TypeParts DEF CoreInv, DiskInv, Writing
<1>2. seq[p] = n /\ head[p] = n /\ (must[p] = "GENESIS" <=> chain = <<>>)
  BY <1>1 DEF MemoryInv
<1>3. n \in Nat /\ (chain = <<>> <=> n = 0) /\ counts["records"] = n
  BY <1>1, ChainFacts DEF ChainInv
<1>4. /\ kind \in {"GENESIS", "BOOT", "START", "END", "EVENT"}
      /\ kind = "GENESIS" <=> chain = <<>>
      /\ must[p] = "BOOT" => kind = "BOOT"
      /\ must[p] \in {"GENESIS", "BOOT", "any"}
      /\ span \in Span \cup {Null}
      /\ span \in Span \/ kind \notin {"START", "END"}
  BY <1>1, <1>2 DEF Allowed, MemTypes
<1>5. /\ r.kind = kind /\ r.seq = n /\ r.prev = n /\ r.hash = n + 1
      /\ r.boot = boot[p] /\ r.span = span
  BY <1>2, <1>3 DEF Record
<1>6. r \in Item
  <2>1. boot[p] \in Nat /\ <<>> \in Seq(Nat) /\ n + 1 \in Nat
    BY <1>1, <1>3, EmptySeq DEF MemTypes
  <2> QED BY <1>2, <1>3, <1>4, <2>1 DEF Record, Item
<1>7. ASSUME chain # <<>>, r.boot # chain[n].boot PROVE r.kind = "BOOT"
  <2>1. must[p] # "any"
    BY <1>5, <1>7 DEF BootInv
  <2> QED BY <1>2, <1>4, <1>5, <1>7, <2>1
<1> QED BY <1>4, <1>5, <1>6, <1>7 DEF NextRecord

\* Another record.
LEMMA EmitCore ==
    ASSUME CoreInv, BootInv, NEW p \in Proc, Emit(p)
    PROVE  CoreInv'
<1>1. /\ PalaTypeOK /\ MemTypes /\ DiskInv /\ LockInv /\ ChainInv
      /\ \A q \in Proc : MemoryInv(q)
  BY TypeParts DEF CoreInv, DiskInv
<1>2. pc[p] = "ready" /\ p \in Writing /\ p \in Inside
  BY DEF Emit, Writing, Inside
<1>3. PICK kind \in Allowed(p) :
         \E span \in IF kind \in {"START", "END"} THEN Span ELSE {Null} :
         \E crossed \in BOOLEAN :
           LET r == Record(p, kind, span) IN
           /\ files' = [files EXCEPT ![path[p]] = Append(@, r)]
           /\ chain' = Append(chain, r)
           /\ spans' = [spans EXCEPT ![p] = SpansAfter(p, r)]
           /\ head' = [head EXCEPT ![p] = r.hash]
           /\ Cover(p, r)
           /\ due' = [due EXCEPT ![p] = (@ \/ crossed) /\ ~CutNow(p, r, crossed)]
           /\ pc' = IF CutNow(p, r, crossed) THEN [pc EXCEPT ![p] = "cut"] ELSE pc
  BY DEF Emit
<1>4. PICK span \in IF kind \in {"START", "END"} THEN Span ELSE {Null} :
         \E crossed \in BOOLEAN :
           LET r == Record(p, kind, span) IN
           /\ files' = [files EXCEPT ![path[p]] = Append(@, r)]
           /\ chain' = Append(chain, r)
           /\ spans' = [spans EXCEPT ![p] = SpansAfter(p, r)]
           /\ head' = [head EXCEPT ![p] = r.hash]
           /\ Cover(p, r)
           /\ due' = [due EXCEPT ![p] = (@ \/ crossed) /\ ~CutNow(p, r, crossed)]
           /\ pc' = IF CutNow(p, r, crossed) THEN [pc EXCEPT ![p] = "cut"] ELSE pc
  BY <1>3
<1> DEFINE r == Record(p, kind, span)
           n == Len(chain)
<1>5. PICK crossed \in BOOLEAN :
           /\ files' = [files EXCEPT ![path[p]] = Append(@, r)]
           /\ chain' = Append(chain, r)
           /\ spans' = [spans EXCEPT ![p] = SpansAfter(p, r)]
           /\ head' = [head EXCEPT ![p] = r.hash]
           /\ Cover(p, r)
           /\ due' = [due EXCEPT ![p] = (@ \/ crossed) /\ ~CutNow(p, r, crossed)]
           /\ pc' = IF CutNow(p, r, crossed) THEN [pc EXCEPT ![p] = "cut"] ELSE pc
  BY <1>4
<1>6. /\ must' = [must EXCEPT ![p] = "any"]
      /\ seq' = [seq EXCEPT ![p] = @ + 1]
      /\ counts' = [counts EXCEPT !["records"] = @ + 1]
      /\ UNCHANGED <<manifest, lock, path, boot, opened, entries>>
  BY DEF Emit
<1>7. PICK m \in DOMAIN files : m = Newest
  BY <1>1, <1>2 DEF MemoryInv
<1>8. /\ path[p] = m /\ ~HasTorn(m) /\ ~Cutting
      /\ seq[p] = n /\ head[p] = n /\ entries[p] = manifest
      /\ opened[p] = [first |-> Begin(m), prev |-> Begin(m), ordinal |-> m]
      /\ must[p] = "GENESIS" <=> chain = <<>>
      /\ deferred[p] # 0 => path[p] = 0
  BY <1>1, <1>2, <1>7 DEF MemoryInv, FrontierInv
<1>9. n \in Nat /\ (chain = <<>> <=> n = 0) /\ counts["records"] = n
  BY <1>1, ChainFacts DEF ChainInv
<1>10. /\ NextRecord(r) /\ r.hash = n + 1
       /\ r.kind = "START" => r.span \in Span
  BY <1>2, EmittedNext
<1>11. files' = [files EXCEPT ![m] = Append(@, r)]
  BY <1>5, <1>8
<1> HIDE DEF r
<1>12. /\ DiskTypes' /\ DiskInv' /\ Newest' = m /\ ~Cutting'
       /\ ~HasTorn(m)' /\ Begin(m)' = Begin(m)
  BY <1>1, <1>5, <1>6, <1>7, <1>8, <1>10, <1>11, DiskEmitted
<1>13. Len(chain') = n + 1 /\ chain' # <<>>
  BY <1>1, <1>5, <1>6, <1>10, ChainExtended
<1>14. /\ frontier' \in [Proc -> Seq(Nat)] /\ deferred' \in [Proc -> Nat]
       /\ deferred'[p] + Len(frontier'[p]) = n + 1
       /\ \A k \in 1..Len(frontier'[p]) : frontier'[p][k] = deferred'[p] + k
       /\ deferred'[p] # 0 => deferred[p] # 0
       /\ \A q \in Proc \ {p} : frontier'[q] = frontier[q] /\ deferred'[q] = deferred[q]
  BY <1>1, <1>2, <1>5, <1>10, CoverStep
<1>15. SpansAfter(p, r) \in SUBSET Span
  <2>1. spans[p] \in SUBSET Span
    BY <1>1 DEF MemTypes
  <2> QED BY <1>10, <2>1 DEF SpansAfter
<1>16. MemTypes'
  <2>1. /\ seq' \in [Proc -> Nat] /\ head' \in [Proc -> Nat]
        /\ must' \in [Proc -> {"GENESIS", "BOOT", "any"}]
    <3>1. r.hash \in Nat
      BY <1>9, <1>10
    <3>2. seq' \in [Proc -> Nat]
      BY <1>1, <1>6 DEF MemTypes
    <3>3. head' \in [Proc -> Nat]
      BY <1>1, <1>5, <3>1 DEF MemTypes
    <3>4. must' \in [Proc -> {"GENESIS", "BOOT", "any"}]
      BY <1>1, <1>6 DEF MemTypes
    <3> QED BY <3>2, <3>3, <3>4
  <2>2. spans' \in [Proc -> SUBSET Span]
    BY <1>1, <1>5, <1>15 DEF MemTypes
  <2>3. due' \in [Proc -> BOOLEAN]
    BY <1>1, <1>5 DEF MemTypes, CutNow
  <2>4. pc' \in [Proc -> {"out", "fresh", "scan", "ready", "cut", "successor"}]
    BY <1>1, <1>5 DEF MemTypes
  <2> QED BY <1>1, <1>6, <1>14, <2>1, <2>2, <2>3, <2>4 DEF MemTypes
<1>17. PalaTypeOK'
  BY <1>12, <1>16, TypeParts, PTL
<1>18. /\ pc'[p] \in {"ready", "cut"} /\ must'[p] = "any"
       /\ seq'[p] = n + 1 /\ head'[p] = n + 1
       /\ pc'[p] = "cut" => spans'[p] = {}
  <2>1. must'[p] = "any" /\ seq'[p] = n + 1 /\ head'[p] = n + 1
    BY <1>1, <1>5, <1>6, <1>8, <1>10 DEF MemTypes
  <2>2. spans'[p] = SpansAfter(p, r)
    BY <1>1, <1>5 DEF MemTypes
  <2>3. pc'[p] = IF CutNow(p, r, crossed) THEN "cut" ELSE "ready"
    BY <1>1, <1>2, <1>5 DEF MemTypes
  <2> QED BY <2>1, <2>2, <2>3 DEF CutNow
<1>19. \A q \in Proc \ {p} :
         /\ pc'[q] = pc[q] /\ must'[q] = must[q] /\ seq'[q] = seq[q] /\ head'[q] = head[q]
         /\ spans'[q] = spans[q]
  BY <1>1, <1>5, <1>6 DEF MemTypes
<1>20. LockInv'
  <2>1. \A q \in Proc : q \in Inside' <=> q \in Inside
    BY <1>2, <1>18, <1>19 DEF Inside
  <2> QED BY <1>1, <1>6, <2>1 DEF LockInv
<1>21. ASSUME NEW q \in Proc PROVE MemoryInv(q)'
  <2>1. CASE q = p
    <3>1. /\ path'[p] = m /\ m \in DOMAIN files' /\ entries'[p] = manifest'
          /\ opened'[p] = [first |-> Begin(m), prev |-> Begin(m), ordinal |-> m]
      BY <1>6, <1>7, <1>8, <1>11
    <3>2. FrontierInv(p)'
      BY <1>6, <1>8, <1>13, <1>14 DEF FrontierInv
    <3>3. Newest' = m /\ ~HasTorn(Newest)' /\ Begin(Newest)' = Begin(m)
      BY <1>12 DEF HasTorn, Begin
    <3> QED BY <1>12, <1>13, <1>18, <2>1, <3>1, <3>2, <3>3 DEF MemoryInv, Writing
  <2>2. CASE q # p
    <3>1. q \notin Inside
      BY <1>1, <1>2, <2>2, OneInside
    <3> QED BY <1>1, <1>6, <1>14, <1>19, <2>2, <3>1, Undisturbed
  <2> QED BY <2>1, <2>2
<1> QED BY <1>12, <1>17, <1>20, <1>21 DEF CoreInv

\* The name of the segment after the newest one.
LEMMA NextName ==
    ASSUME PalaTypeOK, DiskInv, NEW p \in Writing, NEW m, m = Newest, path[p] = m,
           opened[p].ordinal = m, entries[p] = manifest, Cutting
    PROVE  NextSegment(p) = m + 1 /\ m + 1 \notin DOMAIN files
<1>1. m \in Nat /\ \A i \in DOMAIN files : i \in Nat /\ i <= m
  BY NewestFacts DEF PalaTypeOK
<1>2. manifest \in Seq(Entry) /\ DOMAIN manifest = 1..Len(manifest) /\ Len(manifest) = m + 1
  BY LenProperties DEF PalaTypeOK, Cutting
<1> DEFINE S == {opened[p].ordinal, path[p]} \cup {e.file : e \in Range(entries[p])}
<1>3. S \subseteq 0..m /\ m \in S
  <2>1. ASSUME NEW e \in Range(entries[p]) PROVE e.file \in 0..m
    <3>1. PICK k \in 1..Len(manifest) : e = manifest[k]
      BY <1>2 DEF Range
    <3>2. e.file = k - 1 /\ k \in 1..(m + 1)
      BY <1>2, <3>1 DEF DiskInv, ManifestInv
    <3> QED BY <1>1, <3>2
  <2>2. m \in 0..m
    BY <1>1
  <2> QED BY <2>1, <2>2
<1> HIDE DEF S
<1>4. \A y \in S : y <= m
  BY <1>1, <1>3
<1>5. Max(S) = m
  BY <1>1, <1>3, <1>4, MaxFacts
<1>6. NextSegment(p) = FirstFree(1 + m)
  BY <1>5 DEF NextSegment, S
<1>7. m + 1 \notin DOMAIN files /\ 1 + m = m + 1
  BY <1>1
<1> DEFINE T == ((m + 1)..(m + 1 + Cardinality(DOMAIN files))) \ DOMAIN files
<1>8. Cardinality(DOMAIN files) \in Nat
  <2>1. DOMAIN files \subseteq 0..MaxRecords /\ 0 \in Int /\ MaxRecords \in Int
    BY BoundsAssumption DEF PalaTypeOK, Index
  <2>2. IsFiniteSet(0..MaxRecords)
    BY <2>1, FS_Interval
  <2>3. IsFiniteSet(DOMAIN files)
    BY <2>1, <2>2, FS_Subset
  <2> QED BY <2>3, FS_CardinalityType
<1>9. T \subseteq Nat /\ m + 1 \in T /\ \A y \in T : m + 1 <= y
  BY <1>1, <1>7, <1>8
<1>10. FirstFree(1 + m) = Min(T)
  BY <1>7 DEF FirstFree
<1> HIDE DEF T
<1>11. T # {}
  BY <1>9
<1>12. m + 1 = Min(T)
  BY <1>9, <1>11, MinFacts
<1> QED BY <1>6, <1>7, <1>10, <1>12

\* The record that a new segment begins with.
Continuing(p) == [Record(p, "CONT", Null) EXCEPT !.ordinal = opened[p].ordinal + 1,
                                                 !.root = frontier[p]]

\* It comes next, and it is true.
LEMMA Continuation ==
    ASSUME CoreInv, BootInv, NEW p \in Proc, pc[p] = "successor",
           counts["records"] < MaxRecords, NEW m, m = Newest,
           NEW r, r = Continuing(p)
    PROVE  /\ NextRecord(r) /\ r.ordinal = m + 1 /\ m < MaxRecords
           /\ r.kind = "CONT" /\ r.hash = Len(chain) + 1 /\ r.boot = boot[p]
           /\ r.seq = Len(chain) /\ r.prev = Len(chain) /\ r.root = Upto(Len(chain))
<1> DEFINE n == Len(chain)
<1>1. PalaTypeOK /\ MemTypes /\ DiskInv /\ ChainInv /\ MemoryInv(p) /\ p \in Writing
  BY TypeParts DEF CoreInv, DiskInv, Writing
<1>2. /\ seq[p] = n /\ head[p] = n /\ opened[p].ordinal = m /\ m \in DOMAIN files
      /\ must[p] = "any" /\ chain # <<>> /\ deferred[p] = 0
  BY <1>1 DEF MemoryInv
<1>3. n \in Nat /\ n # 0 /\ counts["records"] = n /\ m \in Nat
  BY <1>1, <1>2, ChainFacts, FileFacts DEF ChainInv, DiskInv
<1>4. frontier[p] = Upto(n) /\ frontier[p] \in Seq(Nat)
  <2>1. /\ Covered(p) \in Seq(Nat) /\ Len(Covered(p)) = n
        /\ \A k \in 1..n : Covered(p)[k] = k
    BY <1>1, CoveredFacts
  <2>2. Covered(p) = frontier[p]
    BY <1>2 DEF Covered
  <2> QED BY <1>3, <2>1, <2>2 DEF Upto
<1>5. /\ r.kind = "CONT" /\ r.seq = n /\ r.prev = n /\ r.hash = n + 1 /\ r.boot = boot[p]
      /\ r.span = Null /\ r.ordinal = m + 1 /\ r.root = frontier[p]
  BY <1>2, <1>3 DEF Record, Continuing
<1>6. r \in Item
  <2>1. boot[p] \in Nat /\ n + 1 \in Nat /\ m + 1 \in Nat
    BY <1>1, <1>3 DEF MemTypes
  <2> QED BY <1>2, <1>3, <1>4, <2>1 DEF Record, Continuing, Item
<1>7. chain[n].boot = boot[p]
  BY <1>2 DEF BootInv
<1>8. m < MaxRecords
  <2>1. m <= Begin(m) /\ Begin(m) + Whole(m) = n
    BY <1>1, <1>2, NewestEnds DEF DiskInv
  <2>2. Begin(m) \in Nat /\ Whole(m) \in Nat
    BY <1>1, <1>2, FileFacts DEF DiskInv
  <2>3. MaxRecords \in Nat
    BY BoundsAssumption
  <2> QED BY <1>3, <2>1, <2>2, <2>3
<1> QED BY <1>2, <1>4, <1>5, <1>6, <1>7, <1>8 DEF NextRecord

\* The second thing a cut does.
LEMMA CutSuccessorCore ==
    ASSUME CoreInv, BootInv, NEW p \in Proc, CutSuccessor(p)
    PROVE  CoreInv'
<1>1. PalaTypeOK /\ MemTypes /\ DiskInv /\ LockInv /\ \A q \in Proc : MemoryInv(q)
  BY TypeParts DEF CoreInv
<1> DEFINE r == Continuing(p)
           n == Len(chain)
<1>2. /\ pc[p] = "successor" /\ counts["records"] < MaxRecords
      /\ files' = Created(NextSegment(p), <<r>>)
      /\ chain' = Append(chain, r)
      /\ path' = [path EXCEPT ![p] = NextSegment(p)]
      /\ opened' = [opened EXCEPT ![p] =
                       [first |-> r.seq, prev |-> r.prev, ordinal |-> r.ordinal]]
      /\ head' = [head EXCEPT ![p] = r.hash]
      /\ seq' = [seq EXCEPT ![p] = @ + 1]
      /\ Cover(p, r)
      /\ pc' = [pc EXCEPT ![p] = "ready"]
      /\ counts' = [counts EXCEPT !["records"] = @ + 1]
      /\ UNCHANGED <<manifest, lock, must, boot, spans, due, entries>>
  BY DEF CutSuccessor, Continuing
<1>3. p \in Writing /\ p \in Inside
  BY <1>2 DEF Writing, Inside
<1>4. PICK m \in DOMAIN files : m = Newest
  BY <1>1, <1>3 DEF MemoryInv
<1>5. /\ path[p] = m /\ Cutting /\ seq[p] = n /\ head[p] = n /\ entries[p] = manifest
      /\ opened[p].ordinal = m /\ must[p] = "any" /\ deferred[p] = 0
  BY <1>1, <1>2, <1>3, <1>4 DEF MemoryInv
<1>6. n \in Nat /\ m \in Nat
  BY <1>1, ChainFacts, FileFacts DEF DiskInv
<1>7. PICK rr : rr = r
  OBVIOUS
<1>8. /\ NextRecord(rr) /\ rr.ordinal = m + 1 /\ m < MaxRecords
      /\ rr.hash = n + 1 /\ rr.seq = n /\ rr.prev = n
  BY <1>2, <1>4, <1>7, Continuation
<1>9. NextSegment(p) = m + 1 /\ m + 1 \notin DOMAIN files
  BY <1>1, <1>3, <1>4, <1>5, NextName
<1>10. /\ files' = Created(m + 1, <<rr>>) /\ chain' = Append(chain, rr)
       /\ path' = [path EXCEPT ![p] = m + 1]
       /\ opened' = [opened EXCEPT ![p] =
                        [first |-> n, prev |-> n, ordinal |-> m + 1]]
       /\ head' = [head EXCEPT ![p] = n + 1]
       /\ seq' = [seq EXCEPT ![p] = @ + 1]
       /\ Cover(p, rr)
  BY <1>2, <1>7, <1>8, <1>9
<1>11. /\ DOMAIN files' = DOMAIN files \cup {m + 1} /\ files'[m + 1] = <<rr>>
       /\ \A j \in DOMAIN files : files'[j] = files[j]
  BY <1>9, <1>10 DEF Created
<1> HIDE DEF r
<1>12. /\ DiskTypes' /\ DiskInv' /\ Newest' = m + 1 /\ ~Cutting'
       /\ ~HasTorn(m + 1)' /\ Begin(m + 1)' = n
  BY <1>1, <1>2, <1>4, <1>5, <1>8, <1>10, <1>11, DiskContinued
<1>13. Len(chain') = n + 1 /\ chain' # <<>>
  BY <1>1, <1>2, <1>8, <1>10, ChainExtended DEF DiskInv
<1>14. /\ frontier' \in [Proc -> Seq(Nat)] /\ deferred' \in [Proc -> Nat]
       /\ deferred'[p] + Len(frontier'[p]) = n + 1
       /\ \A k \in 1..Len(frontier'[p]) : frontier'[p][k] = deferred'[p] + k
       /\ deferred'[p] # 0 => deferred[p] # 0
       /\ \A q \in Proc \ {p} : frontier'[q] = frontier[q] /\ deferred'[q] = deferred[q]
  BY <1>1, <1>3, <1>8, <1>10, CoverStep
<1> HIDE DEF n
<1>15. n + 1 \in Nat /\ m + 1 \in Nat /\ m + 1 \in Index
  BY <1>6, <1>8, BoundsAssumption DEF Index
<1>16. MemTypes'
  <2>1. head' \in [Proc -> Nat]
    BY <1>1, <1>10, <1>15 DEF MemTypes
  <2>2. seq' \in [Proc -> Nat]
    BY <1>1, <1>10 DEF MemTypes
  <2>3. path' \in [Proc -> Index]
    BY <1>1, <1>10, <1>15 DEF MemTypes
  <2>4. opened' \in [Proc -> [first : Nat, prev : Nat, ordinal : Nat]]
    BY <1>1, <1>6, <1>10, <1>15 DEF MemTypes
  <2>5. pc' \in [Proc -> {"out", "fresh", "scan", "ready", "cut", "successor"}]
    BY <1>1, <1>2 DEF MemTypes
  <2> QED BY <1>1, <1>2, <1>14, <2>1, <2>2, <2>3, <2>4, <2>5 DEF MemTypes
<1>17. PalaTypeOK'
  BY <1>12, <1>16, TypeParts, PTL
<1>18. /\ pc'[p] = "ready" /\ path'[p] = m + 1 /\ seq'[p] = n + 1 /\ head'[p] = n + 1
       /\ opened'[p] = [first |-> n, prev |-> n, ordinal |-> m + 1]
  BY <1>1, <1>2, <1>5, <1>10 DEF MemTypes
<1>19. \A q \in Proc \ {p} :
         /\ pc'[q] = pc[q] /\ path'[q] = path[q] /\ seq'[q] = seq[q] /\ head'[q] = head[q]
         /\ opened'[q] = opened[q]
  BY <1>1, <1>2, <1>10 DEF MemTypes
<1>20. LockInv'
  <2>1. \A q \in Proc : q \in Inside' <=> q \in Inside
    BY <1>3, <1>18, <1>19 DEF Inside
  <2> QED BY <1>1, <1>2, <2>1 DEF LockInv
<1>21. ASSUME NEW q \in Proc PROVE MemoryInv(q)'
  <2>1. CASE q = p
    <3>1. FrontierInv(p)'
      BY <1>5, <1>13, <1>14 DEF FrontierInv
    <3>2. Newest' = m + 1 /\ ~HasTorn(Newest)' /\ Begin(Newest)' = n /\ m + 1 \in DOMAIN files'
      BY <1>11, <1>12 DEF HasTorn, Begin
    <3>3. must'[p] = "any" /\ entries'[p] = manifest'
      BY <1>2, <1>5
    <3> QED BY <1>12, <1>13, <1>18, <2>1, <3>1, <3>2, <3>3 DEF MemoryInv, Writing
  <2>2. CASE q # p
    <3>1. q \notin Inside
      BY <1>1, <1>3, <2>2, OneInside
    <3> QED BY <1>1, <1>2, <1>14, <1>19, <2>2, <3>1, Undisturbed
  <2> QED BY <2>1, <2>2
<1> QED BY <1>12, <1>17, <1>20, <1>21 DEF CoreInv

\* Every step keeps what is on disk, who is inside and what is in memory.
LEMMA CoreStep ==
    ASSUME CoreInv, BootInv, ~ResumeAny, ~FreshAnyTime, [PalaNext]_palaVars
    PROVE  CoreInv'
<1>1. CASE UNCHANGED palaVars
  <2>1. PalaTypeOK /\ MemTypes /\ DiskInv /\ LockInv /\ \A q \in Proc : MemoryInv(q)
    BY TypeParts DEF CoreInv
  <2>2. UNCHANGED <<files, manifest, chain, lock, pc, path, must, boot, seq, head, spans,
                    frontier, deferred, due, opened, entries, counts>>
    BY <1>1 DEF palaVars, diskVars, memVars, segVars
  <2>3. /\ UNCHANGED diskVars /\ counts'["records"] = counts["records"]
        /\ counts' \in [{"records", "opens"} -> Nat]
    BY <2>1, <2>2 DEF diskVars, PalaTypeOK
  <2>4. DiskTypes' /\ DiskInv' /\ Newest' = Newest
    BY <2>1, <2>3, DiskKept
  <2>5. MemTypes' /\ LockInv'
    BY <2>1, <2>2 DEF MemTypes, LockInv, Inside
  <2>6. PalaTypeOK'
    BY <2>4, <2>5, TypeParts, PTL
  <2>7. ASSUME NEW q \in Proc PROVE MemoryInv(q)'
    <3>1. q \in Inside => path[q] \in DOMAIN files
      <4>1. q \in Inside => q \in Writing \/ pc[q] = "scan"
        BY <2>1 DEF Inside, Writing, MemTypes
      <4> QED BY <2>1, <4>1 DEF MemoryInv
    <3> QED BY <2>1, <2>2, <2>4, <3>1, Undisturbed
  <2> QED BY <2>4, <2>5, <2>6, <2>7 DEF CoreInv
<1>2. CASE Retire
  BY <1>2, RetireCore
<1>3. ASSUME NEW p \in Proc,
             \/ CheckFresh(p) \/ Start(p) \/ StartRefused(p)
             \/ TakeLock(p) \/ Truncate(p) \/ ResumeRefused(p)
             \/ ClosedRefused(p) \/ Adopt(p)
             \/ Emit(p) \/ CutManifest(p) \/ CutSuccessor(p)
             \/ Close(p) \/ Crash(p)
      PROVE  CoreInv'
  <2>1. CASE CheckFresh(p)
    BY <2>1, CheckFreshCore
  <2>2. CASE Start(p)
    BY <2>2, StartCore
  <2>3. CASE TakeLock(p)
    BY <2>3, TakeLockCore
  <2>4. CASE Truncate(p)
    BY <2>4, TruncateCore
  <2>5. CASE StartRefused(p) \/ ResumeRefused(p) \/ ClosedRefused(p) \/ Close(p)
    <3>1. Leave(p) /\ UNCHANGED <<diskVars, counts>>
      BY <2>5 DEF StartRefused, ResumeRefused, ClosedRefused, Close
    <3> QED BY <3>1, LeftKept
  <2>6. CASE Adopt(p)
    BY <2>6, AdoptCore
  <2>7. CASE Emit(p)
    BY <2>7, EmitCore
  <2>8. CASE CutManifest(p)
    BY <2>8, CutManifestCore
  <2>9. CASE CutSuccessor(p)
    BY <2>9, CutSuccessorCore
  <2>10. CASE Crash(p)
    BY <2>10, CrashCore
  <2> QED BY <1>3, <2>1, <2>2, <2>3, <2>4, <2>5, <2>6, <2>7, <2>8, <2>9, <2>10
<1> QED BY <1>1, <1>2, <1>3 DEF PalaNext

-----------------------------------------------------------------------------
(* What a step does to the chain and to the boots.                          *)

\* No record is added, and no writer opened.
Quiet ==
    /\ UNCHANGED chain /\ Newest' = Newest /\ counts'["opens"] = counts["opens"]
    /\ \A q \in Proc : pc'[q] # "out" =>
          /\ pc[q] # "out" /\ boot'[q] = boot[q]
          /\ must'[q] = "any" <=> must[q] = "any"
          /\ q \in Writing' => IF q \in Writing THEN spans'[q] = spans[q]
                               ELSE must[q] # "any"

\* A process opens a writer.
Opens(p) ==
    /\ UNCHANGED chain /\ Newest' = Newest
    /\ counts'["opens"] = counts["opens"] + 1 /\ boot'[p] = counts["opens"] + 1
    /\ must'[p] # "any" /\ p \notin Writing'
    /\ \A q \in Proc \ {p} : /\ pc'[q] = pc[q] /\ boot'[q] = boot[q]
                             /\ must'[q] = must[q] /\ spans'[q] = spans[q]

\* A writer adds a record, with it or without it to a new segment.
Writes(p, r) ==
    /\ p \in Writing /\ p \in Writing'
    /\ NextRecord(r) /\ r.boot = boot[p] /\ chain' = Append(chain, r)
    /\ counts' = [counts EXCEPT !["records"] = @ + 1]
    /\ boot' = boot /\ must'[p] = "any"
    /\ \A q \in Proc \ {p} : /\ pc'[q] = pc[q] /\ must'[q] = must[q]
                             /\ spans'[q] = spans[q]
    /\ \/ /\ r.kind # "CONT" /\ Newest' = Newest /\ spans'[p] = SpansAfter(p, r)
       \/ /\ r.kind = "CONT" /\ Newest' = Newest + 1 /\ must[p] = "any"
          /\ spans[p] = {} /\ spans'[p] = {}
          /\ r.root = Upto(Len(chain)) /\ r.ordinal = Newest + 1

\* Leaving is quiet.
LEMMA LeaveQuiet ==
    ASSUME CoreInv, NEW p \in Proc, Leave(p), UNCHANGED <<chain, counts>>,
           Newest' = Newest
    PROVE  Quiet
<1>1. MemTypes
  BY TypeParts DEF CoreInv
<1>2. /\ pc' = [pc EXCEPT ![p] = "out"] /\ boot' = [boot EXCEPT ![p] = 0]
      /\ must' = [must EXCEPT ![p] = "GENESIS"] /\ spans' = [spans EXCEPT ![p] = {}]
  BY DEF Leave, Forget
<1>3. /\ pc'[p] = "out"
      /\ \A q \in Proc \ {p} : /\ pc'[q] = pc[q] /\ boot'[q] = boot[q]
                               /\ must'[q] = must[q] /\ spans'[q] = spans[q]
  BY <1>1, <1>2 DEF MemTypes
<1> QED BY <1>3 DEF Quiet, Writing

\* A step is one of the three.
LEMMA EmitWrites ==
    ASSUME CoreInv, BootInv, NEW p \in Proc, Emit(p)
    PROVE  \E r : Writes(p, r)
<1>1. /\ PalaTypeOK /\ MemTypes /\ DiskInv /\ ChainInv /\ MemoryInv(p)
  BY TypeParts DEF CoreInv, DiskInv
<1>2. pc[p] = "ready" /\ p \in Writing
  BY DEF Emit, Writing
<1>3. PICK kind \in Allowed(p) :
         \E span \in IF kind \in {"START", "END"} THEN Span ELSE {Null} :
         \E crossed \in BOOLEAN :
           LET r == Record(p, kind, span) IN
           /\ files' = [files EXCEPT ![path[p]] = Append(@, r)]
           /\ chain' = Append(chain, r)
           /\ spans' = [spans EXCEPT ![p] = SpansAfter(p, r)]
           /\ pc' = IF CutNow(p, r, crossed) THEN [pc EXCEPT ![p] = "cut"] ELSE pc
  BY DEF Emit
<1>4. PICK span \in IF kind \in {"START", "END"} THEN Span ELSE {Null} :
         \E crossed \in BOOLEAN :
           LET r == Record(p, kind, span) IN
           /\ files' = [files EXCEPT ![path[p]] = Append(@, r)]
           /\ chain' = Append(chain, r)
           /\ spans' = [spans EXCEPT ![p] = SpansAfter(p, r)]
           /\ pc' = IF CutNow(p, r, crossed) THEN [pc EXCEPT ![p] = "cut"] ELSE pc
  BY <1>3
<1> DEFINE r == Record(p, kind, span)
<1>5. PICK crossed \in BOOLEAN :
           /\ files' = [files EXCEPT ![path[p]] = Append(@, r)]
           /\ chain' = Append(chain, r)
           /\ spans' = [spans EXCEPT ![p] = SpansAfter(p, r)]
           /\ pc' = IF CutNow(p, r, crossed) THEN [pc EXCEPT ![p] = "cut"] ELSE pc
  BY <1>4
<1>6. /\ must' = [must EXCEPT ![p] = "any"]
      /\ counts' = [counts EXCEPT !["records"] = @ + 1]
      /\ boot' = boot
  BY DEF Emit
<1>7. NextRecord(r) /\ r.kind = kind /\ r.boot = boot[p] /\ kind # "CONT"
  BY <1>2, EmittedNext
<1>8. Newest' = Newest
  BY <1>5 DEF Newest
<1> HIDE DEF r
<1>9. /\ must'[p] = "any" /\ spans'[p] = SpansAfter(p, r) /\ p \in Writing'
  <2>1. pc'[p] \in {"ready", "cut"}
    BY <1>1, <1>2, <1>5 DEF MemTypes
  <2> QED BY <1>1, <1>5, <1>6, <2>1 DEF MemTypes, Writing
<1>10. \A q \in Proc \ {p} : /\ pc'[q] = pc[q] /\ must'[q] = must[q]
                             /\ spans'[q] = spans[q]
  BY <1>1, <1>5, <1>6 DEF MemTypes
<1> QED BY <1>2, <1>5, <1>6, <1>7, <1>8, <1>9, <1>10 DEF Writes

LEMMA CutWrites ==
    ASSUME CoreInv, BootInv, NEW p \in Proc, CutSuccessor(p)
    PROVE  Writes(p, Continuing(p))
<1>1. /\ PalaTypeOK /\ MemTypes /\ DiskInv /\ MemoryInv(p)
  BY TypeParts DEF CoreInv
<1> DEFINE r == Continuing(p)
<1>2. /\ pc[p] = "successor" /\ counts["records"] < MaxRecords
      /\ files' = Created(NextSegment(p), <<r>>)
      /\ chain' = Append(chain, r)
      /\ pc' = [pc EXCEPT ![p] = "ready"]
      /\ counts' = [counts EXCEPT !["records"] = @ + 1]
      /\ UNCHANGED <<must, boot, spans>>
  BY DEF CutSuccessor, Continuing
<1>3. p \in Writing
  BY <1>2 DEF Writing
<1>4. PICK m \in DOMAIN files : m = Newest
  BY <1>1, <1>3 DEF MemoryInv
<1>5. /\ path[p] = m /\ Cutting /\ entries[p] = manifest
      /\ opened[p].ordinal = m /\ must[p] = "any" /\ spans[p] = {}
  BY <1>1, <1>2, <1>3, <1>4 DEF MemoryInv
<1>6. NextSegment(p) = m + 1 /\ m + 1 \notin DOMAIN files
  BY <1>1, <1>3, <1>4, <1>5, NextName
<1>7. PICK rr : rr = r
  OBVIOUS
<1>8. /\ NextRecord(rr) /\ rr.ordinal = m + 1 /\ m < MaxRecords
      /\ rr.kind = "CONT" /\ rr.boot = boot[p] /\ rr.root = Upto(Len(chain))
  BY <1>2, <1>4, <1>7, Continuation
<1>9. Newest' = m + 1
  <2>1. DOMAIN files' = DOMAIN files \cup {m + 1}
    BY <1>2, <1>6 DEF Created
  <2>2. m \in Nat /\ \A i \in DOMAIN files : i \in Nat /\ i <= m
    BY <1>1, <1>4, NewestFacts DEF PalaTypeOK
  <2>3. m + 1 \in Index
    BY <1>8, <2>2, BoundsAssumption DEF Index
  <2>4. (DOMAIN files \subseteq Index)'
    BY <1>1, <2>1, <2>3 DEF PalaTypeOK
  <2>5. \A j \in DOMAIN files' : j <= m + 1
    BY <2>1, <2>2
  <2> QED BY <2>1, <2>4, <2>5, NewestLater
<1>10. /\ pc'[p] = "ready" /\ \A q \in Proc \ {p} : pc'[q] = pc[q]
  BY <1>1, <1>2 DEF MemTypes
<1> QED BY <1>2, <1>3, <1>4, <1>5, <1>7, <1>8, <1>9, <1>10 DEF Writes, Writing

\* Every step is one of the three.
LEMMA StepKinds ==
    ASSUME CoreInv, BootInv, ~FreshAnyTime, [PalaNext]_palaVars
    PROVE  \/ Quiet
           \/ \E p \in Proc : Opens(p) \/ \E r : Writes(p, r)
<1>1. /\ PalaTypeOK /\ MemTypes /\ DiskInv /\ \A q \in Proc : MemoryInv(q)
  BY TypeParts DEF CoreInv
<1>2. DOMAIN files' = DOMAIN files => Newest' = Newest
  BY DEF Newest
<1>3. ASSUME UNCHANGED <<chain, pc, boot, must, spans, counts>>, Newest' = Newest
      PROVE  Quiet
  BY <1>3 DEF Quiet, Writing
<1>4. CASE UNCHANGED palaVars
  BY <1>2, <1>3, <1>4 DEF palaVars, diskVars, memVars, segVars
<1>5. CASE Retire
  <2>1. PICK o \in DOMAIN files :
             /\ \A j \in DOMAIN files : o <= j
             /\ o # Newest
             /\ files' = [j \in DOMAIN files \ {o} |-> files[j]]
             /\ UNCHANGED <<manifest, chain, lock, pc, memVars, counts>>
    BY <1>5 DEF Retire
  <2>2. Newest' = Newest
    BY <1>1, <2>1, DiskRetired
  <2> QED BY <1>3, <2>1, <2>2 DEF memVars
<1>6. ASSUME NEW p \in Proc, CheckFresh(p) \/ TakeLock(p) PROVE Opens(p)
  <2>1. /\ pc[p] = "out"
        /\ \/ pc' = [pc EXCEPT ![p] = "fresh"]
           \/ pc' = [pc EXCEPT ![p] = "scan"]
        /\ boot' = [boot EXCEPT ![p] = counts["opens"] + 1]
        /\ counts' = [counts EXCEPT !["opens"] = @ + 1]
        /\ UNCHANGED <<files, chain, must, spans>>
    BY <1>6 DEF CheckFresh, TakeLock, diskVars
  <2>2. must[p] = "GENESIS"
    BY <1>1, <2>1 DEF MemoryInv, Blank, Writing
  <2>3. /\ boot'[p] = counts["opens"] + 1 /\ pc'[p] \in {"fresh", "scan"}
        /\ counts'["opens"] = counts["opens"] + 1
        /\ \A q \in Proc \ {p} : pc'[q] = pc[q] /\ boot'[q] = boot[q]
    BY <1>1, <2>1 DEF MemTypes, PalaTypeOK
  <2> QED BY <1>2, <2>1, <2>2, <2>3 DEF Opens, Writing
<1>7. ASSUME NEW p \in Proc, Start(p) PROVE Quiet
  <2>1. /\ pc[p] = "fresh" /\ NoChain /\ pc' = [pc EXCEPT ![p] = "ready"]
        /\ files' = IF 0 \in DOMAIN files THEN files ELSE Created(0, <<>>)
        /\ UNCHANGED <<chain, must, boot, spans, counts>>
    BY <1>7 DEF Start
  <2>2. must[p] = "GENESIS"
    BY <1>1, <2>1 DEF MemoryInv, Blank, Writing
  <2>3. pc'[p] = "ready" /\ \A q \in Proc \ {p} : pc'[q] = pc[q]
    BY <1>1, <2>1 DEF MemTypes
  <2>4. Newest = 0 /\ DOMAIN files \subseteq {0}
    BY <1>1, <2>1, NothingYet
  <2>5. DOMAIN files' \subseteq {0}
    BY <2>1, <2>4 DEF Created
  <2>6. Newest' = 0
    BY <2>5, NewestLater, Zero
  <2> QED BY <2>1, <2>2, <2>3, <2>4, <2>6 DEF Quiet, Writing
<1>8. ASSUME NEW p \in Proc, Truncate(p) PROVE Quiet
  <2>1. /\ DOMAIN files' = DOMAIN files
        /\ UNCHANGED <<chain, pc, boot, must, spans, counts>>
    BY <1>8 DEF Truncate, memVars
  <2> QED BY <1>2, <1>3, <2>1
<1>9. ASSUME NEW p \in Proc, Adopt(p) PROVE Quiet
  <2>1. /\ pc[p] = "scan" /\ pc' = [pc EXCEPT ![p] = "ready"]
        /\ must' = [must EXCEPT ![p] = "BOOT"]
        /\ UNCHANGED <<files, chain, boot, spans, counts>>
    BY <1>9 DEF Adopt
  <2>2. must[p] = "GENESIS"
    BY <1>1, <2>1 DEF MemoryInv, Blank, Writing
  <2>3. /\ pc'[p] = "ready" /\ must'[p] = "BOOT"
        /\ \A q \in Proc \ {p} : pc'[q] = pc[q] /\ must'[q] = must[q]
    BY <1>1, <2>1 DEF MemTypes
  <2> QED BY <1>2, <2>1, <2>2, <2>3 DEF Quiet, Writing
<1>10. ASSUME NEW p \in Proc, CutManifest(p) PROVE Quiet
  <2>1. /\ pc[p] = "cut" /\ pc' = [pc EXCEPT ![p] = "successor"]
        /\ UNCHANGED <<files, chain, must, boot, spans, counts>>
    BY <1>10 DEF CutManifest
  <2>2. pc'[p] = "successor" /\ \A q \in Proc \ {p} : pc'[q] = pc[q]
    BY <1>1, <2>1 DEF MemTypes
  <2> QED BY <1>2, <2>1, <2>2 DEF Quiet, Writing
<1>11. ASSUME NEW p \in Proc,
              StartRefused(p) \/ ResumeRefused(p) \/ ClosedRefused(p) \/ Close(p) \/ Crash(p)
       PROVE  Quiet
  <2>1. Leave(p) /\ UNCHANGED <<chain, counts>> /\ DOMAIN files' = DOMAIN files
    BY <1>11 DEF StartRefused, ResumeRefused, ClosedRefused, Close, Crash, diskVars
  <2> QED BY <1>2, <2>1, LeaveQuiet
<1> QED BY <1>4, <1>5, <1>6, <1>7, <1>8, <1>9, <1>10, <1>11, EmitWrites, CutWrites DEF PalaNext

\* Boots stay apart, and spans and continuation records are what they were,
\* where no record is added.
LEMMA QuietKeeps ==
    ASSUME CoreInv, BootInv, SpanInv, ContInv, Quiet
    PROVE  BootInv' /\ SpanInv' /\ ContInv'
<1>1. /\ chain' = chain /\ Newest' = Newest /\ counts'["opens"] = counts["opens"]
      /\ \A q \in Proc : pc'[q] # "out" =>
            /\ pc[q] # "out" /\ boot'[q] = boot[q]
            /\ must'[q] = "any" <=> must[q] = "any"
            /\ q \in Writing' => IF q \in Writing THEN spans'[q] = spans[q]
                                 ELSE must[q] # "any"
  BY DEF Quiet
<1>2. BootInv'
  BY <1>1 DEF BootInv
<1>3. ContInv'
  BY <1>1 DEF ContInv, Conts
<1>4. NoSpanSevered'
  BY <1>1 DEF SpanInv, NoSpanSevered
<1>5. ASSUME NEW p \in Writing', NEW s \in 1..Len(chain),
             chain[s].kind = "START", chain[s].boot = boot'[p]
      PROVE  \/ chain[s].span \in spans'[p]
             \/ \E e \in s..Len(chain) : chain[e].kind = "END" /\ chain[e].span = chain[s].span
  <2>1. p \in Proc /\ pc'[p] # "out"
    BY DEF Writing
  <2>2. boot'[p] = boot[p] /\ pc[p] # "out"
    BY <1>1, <2>1
  <2>3. CASE p \in Writing
    BY <1>1, <1>5, <2>1, <2>2, <2>3 DEF SpanInv
  <2>4. CASE p \notin Writing
    BY <1>1, <1>5, <2>1, <2>2, <2>4 DEF BootInv
  <2> QED BY <2>3, <2>4
<1>6. SpanInv'
  BY <1>1, <1>4, <1>5 DEF SpanInv
<1> QED BY <1>2, <1>3, <1>6

\* A new boot is none of those on record or in memory.
LEMMA OpensKeeps ==
    ASSUME CoreInv, BootInv, SpanInv, ContInv, NEW p \in Proc, Opens(p)
    PROVE  BootInv' /\ SpanInv' /\ ContInv'
<1> DEFINE o == counts["opens"]
<1>1. /\ chain' = chain /\ Newest' = Newest
      /\ counts'["opens"] = o + 1 /\ boot'[p] = o + 1
      /\ must'[p] # "any" /\ p \notin Writing'
      /\ \A q \in Proc \ {p} : /\ pc'[q] = pc[q] /\ boot'[q] = boot[q]
                               /\ must'[q] = must[q] /\ spans'[q] = spans[q]
  BY DEF Opens
<1>2. o \in Nat /\ (\A q \in Proc : boot[q] \in Nat) /\ \A k \in 1..Len(chain) : chain[k].boot \in Nat
  <2>1. chain \in Seq(Item)
    BY DEF CoreInv, PalaTypeOK
  <2>2. \A k \in 1..Len(chain) : chain[k] \in Item
    BY <2>1, ElementOfSeq
  <2>3. \A k \in 1..Len(chain) : chain[k].boot \in Nat
    BY <2>2 DEF Item
  <2> QED BY <2>3 DEF CoreInv, PalaTypeOK
<1>3. ContInv'
  BY <1>1 DEF ContInv, Conts
<1>4. NoSpanSevered'
  BY <1>1 DEF SpanInv, NoSpanSevered
<1>5. SpanInv'
  <2>1. \A q \in Writing' : q \in Writing /\ boot'[q] = boot[q] /\ spans'[q] = spans[q]
    BY <1>1 DEF Writing
  <2> QED BY <1>1, <1>4, <2>1 DEF SpanInv
<1>6. BootInv'
  <2>1. \A k \in 1..Len(chain') : chain'[k].boot <= counts'["opens"] /\ chain'[k].boot # o + 1
    <3>1. \A k \in 1..Len(chain) : chain[k].boot <= o
      BY DEF BootInv
    <3> HIDE DEF o
    <3>2. \A k \in 1..Len(chain) : chain[k].boot <= o + 1 /\ chain[k].boot # o + 1
      BY <1>2, <3>1
    <3> QED BY <1>1, <3>2
  <2>2. ASSUME NEW q \in Proc, pc'[q] # "out"
        PROVE  /\ boot'[q] <= counts'["opens"]
               /\ \A t \in Proc \ {q} : pc'[t] # "out" => boot'[q] # boot'[t]
               /\ IF must'[q] = "any" THEN chain' # <<>> /\ chain'[Len(chain')].boot = boot'[q]
                  ELSE \A k \in 1..Len(chain') : chain'[k].boot # boot'[q]
    <3>1. \A t \in Proc \ {p} : pc'[t] # "out" => boot[t] <= o /\ boot'[t] = boot[t]
      BY <1>1 DEF BootInv
    <3> HIDE DEF o
    <3>2. \A t \in Proc \ {p} : pc'[t] # "out" => boot[t] <= o + 1 /\ boot[t] # o + 1
      BY <1>2, <3>1
    <3>3. CASE q = p
      BY <1>1, <1>2, <2>1, <3>1, <3>2, <3>3
    <3>4. CASE q # p
      <4>1. boot'[q] <= counts'["opens"]
        BY <1>1, <2>2, <3>1, <3>2, <3>4
      <4>2. ASSUME NEW t \in Proc \ {q}, pc'[t] # "out" PROVE boot'[q] # boot'[t]
        <5>1. CASE t = p
          BY <1>1, <2>2, <3>1, <3>2, <3>4, <5>1
        <5>2. CASE t # p
          BY <1>1, <2>2, <3>4, <4>2, <5>2 DEF BootInv
        <5> QED BY <5>1, <5>2
      <4>3. IF must'[q] = "any" THEN chain' # <<>> /\ chain'[Len(chain')].boot = boot'[q]
            ELSE \A k \in 1..Len(chain') : chain'[k].boot # boot'[q]
        BY <1>1, <2>2, <3>4 DEF BootInv
      <4> QED BY <4>1, <4>2, <4>3
    <3> QED BY <3>3, <3>4
  <2> QED BY <2>1, <2>2 DEF BootInv
<1> QED BY <1>3, <1>5, <1>6

\* A record is its writer's, closes or opens its spans, and is counted.
LEMMA WritesKeeps ==
    ASSUME CoreInv, BootInv, SpanInv, ContInv, NEW p \in Proc, NEW r, Writes(p, r)
    PROVE  BootInv' /\ SpanInv' /\ ContInv'
<1> DEFINE n == Len(chain)
<1>1. /\ p \in Writing /\ p \in Writing'
      /\ NextRecord(r) /\ r.boot = boot[p] /\ chain' = Append(chain, r)
      /\ counts' = [counts EXCEPT !["records"] = @ + 1]
      /\ boot' = boot /\ must'[p] = "any"
      /\ \A q \in Proc \ {p} : /\ pc'[q] = pc[q] /\ must'[q] = must[q]
                               /\ spans'[q] = spans[q]
  BY DEF Writes
<1>2. /\ PalaTypeOK /\ MemTypes /\ ChainInv /\ LockInv /\ \A q \in Proc : MemoryInv(q)
  BY TypeParts DEF CoreInv, DiskInv
<1>3. /\ n \in Nat /\ Len(chain') = n + 1 /\ chain'[n + 1] = r /\ chain' # <<>>
      /\ \A k \in 1..n : chain'[k] = chain[k]
  BY <1>1, <1>2, ChainExtended, ChainFacts
<1>4. counts'["opens"] = counts["opens"]
  BY <1>1, <1>2 DEF PalaTypeOK
<1>5. \A q \in Proc \ {p} : q \notin Writing /\ q \notin Writing' /\ must'[q] # "any"
  <2>1. ASSUME NEW q \in Proc \ {p} PROVE q \notin Writing
    <3>1. q \in Writing => q \in Inside
      BY DEF Writing, Inside
    <3>2. p \in Inside
      BY <1>1 DEF Writing, Inside
    <3> QED BY <1>2, <3>1, <3>2, OneInside
  <2>2. \A q \in Proc \ {p} : q \notin Writing'
    BY <1>1, <2>1 DEF Writing
  <2>3. \A q \in Proc \ {p} : must'[q] = "GENESIS"
    BY <1>1, <1>2, <2>1 DEF MemoryInv, Blank
  <2> QED BY <2>1, <2>2, <2>3
<1> HIDE DEF n
<1>6. \A k \in 1..(n + 1) : k \in 1..n \/ k = n + 1
  BY <1>3
<1>7. pc[p] # "out"
  BY <1>1 DEF Writing
<1>8. BootInv'
  <2>1. /\ \A k \in 1..n : chain[k].boot <= counts["opens"]
        /\ boot[p] <= counts["opens"]
    BY <1>7 DEF BootInv, n
  <2>2. \A k \in 1..Len(chain') : chain'[k].boot <= counts'["opens"]
    BY <1>1, <1>3, <1>4, <1>6, <2>1
  <2>3. ASSUME NEW q \in Proc, pc'[q] # "out"
        PROVE  /\ boot'[q] <= counts'["opens"]
               /\ \A t \in Proc \ {q} : pc'[t] # "out" => boot'[q] # boot'[t]
               /\ IF must'[q] = "any" THEN chain' # <<>> /\ chain'[Len(chain')].boot = boot'[q]
                  ELSE \A k \in 1..Len(chain') : chain'[k].boot # boot'[q]
    <3>1. \A t \in Proc : pc'[t] # "out" => pc[t] # "out"
      BY <1>1, <1>7
    <3>2. /\ boot'[q] <= counts'["opens"]
          /\ \A t \in Proc \ {q} : pc'[t] # "out" => boot'[q] # boot'[t]
      BY <1>1, <1>4, <2>3, <3>1 DEF BootInv
    <3>3. CASE q = p
      <4>1. chain'[Len(chain')].boot = boot'[q]
        BY <1>1, <1>3, <3>3
      <4> QED BY <1>1, <1>3, <3>2, <3>3, <4>1
    <3>4. CASE q # p
      <4>1. \A k \in 1..n : chain[k].boot # boot[q]
        BY <1>1, <1>5, <2>3, <3>1, <3>4 DEF BootInv, n
      <4>2. boot[p] # boot[q]
        BY <1>7, <2>3, <3>1, <3>4 DEF BootInv
      <4>3. \A k \in 1..Len(chain') : chain'[k].boot # boot'[q]
        BY <1>1, <1>3, <1>6, <4>1, <4>2
      <4> QED BY <1>5, <3>2, <3>4, <4>3
    <3> QED BY <3>3, <3>4
  <2> QED BY <2>2, <2>3 DEF BootInv
<1>9. ASSUME NEW s \in 1..n, chain[s].kind = "START", chain[s].boot = boot[p]
      PROVE  \/ chain[s].span \in spans[p]
             \/ \E e \in s..n : chain[e].kind = "END" /\ chain[e].span = chain[s].span
  BY <1>1, <1>9 DEF SpanInv, n
<1>10. ASSUME NEW s \in 1..n
       PROVE  (\E e \in s..n : chain[e].kind = "END" /\ chain[e].span = chain[s].span)
              => \E e \in s..(n + 1) : chain'[e].kind = "END" /\ chain'[e].span = chain'[s].span
  <2>1. \A e \in s..n : e \in s..(n + 1) /\ chain'[e] = chain[e]
    BY <1>3
  <2> QED BY <1>3, <2>1
<1>11. ASSUME NEW s \in 1..(n + 1), chain'[s].kind = "START", chain'[s].boot = boot[p]
       PROVE  \/ chain'[s].span \in spans'[p]
              \/ \E e \in s..(n + 1) : chain'[e].kind = "END" /\ chain'[e].span = chain'[s].span
  <2>1. CASE s = n + 1
    <3>1. r.kind = "START"
      BY <1>3, <1>11, <2>1
    <3>2. spans'[p] = SpansAfter(p, r)
      BY <3>1 DEF Writes
    <3>3. r.span \in SpansAfter(p, r)
      BY <3>1 DEF SpansAfter
    <3> QED BY <1>3, <2>1, <3>2, <3>3
  <2>2. CASE s \in 1..n
    <3>1. chain'[s] = chain[s]
      BY <1>3, <2>2
    <3>2. \/ chain[s].span \in spans[p]
          \/ \E e \in s..n : chain[e].kind = "END" /\ chain[e].span = chain[s].span
      BY <1>9, <1>11, <2>2, <3>1
    <3>3. CASE chain[s].span \in spans[p]
      <4>1. r.kind # "CONT" /\ spans'[p] = SpansAfter(p, r)
        BY <3>3 DEF Writes
      <4>2. CASE r.kind = "END" /\ r.span = chain[s].span
        <5>1. n + 1 \in s..(n + 1)
          BY <1>3, <2>2
        <5> QED BY <1>3, <3>1, <4>2, <5>1
      <4>3. CASE ~(r.kind = "END" /\ r.span = chain[s].span)
        BY <3>1, <3>3, <4>1, <4>3 DEF SpansAfter
      <4> QED BY <4>2, <4>3
    <3> QED BY <1>10, <2>2, <3>2, <3>3
  <2> QED BY <1>6, <2>1, <2>2
<1>12. NoSpanSevered'
  <2>1. ASSUME NEW s \in 1..(n + 1), NEW c \in 1..(n + 1),
               s < c, chain'[s].kind = "START", chain'[c].kind = "CONT",
               chain'[s].boot = chain'[c].boot
        PROVE  \E e \in s..c : chain'[e].kind = "END" /\ chain'[e].span = chain'[s].span
    <3>1. s \in 1..n /\ chain'[s] = chain[s]
      BY <1>3, <2>1
    <3>2. CASE c = n + 1
      <4>1. r.kind = "CONT" /\ chain[s].boot = boot[p]
        BY <1>1, <1>3, <2>1, <3>1, <3>2
      <4>2. spans[p] = {}
        BY <4>1 DEF Writes
      <4>3. \E e \in s..n : chain[e].kind = "END" /\ chain[e].span = chain[s].span
        BY <1>9, <2>1, <3>1, <4>1, <4>2
      <4> QED BY <1>10, <3>1, <3>2, <4>3
    <3>3. CASE c \in 1..n
      <4>1. chain'[c] = chain[c]
        BY <1>3, <3>3
      <4>2. PICK e \in s..c : chain[e].kind = "END" /\ chain[e].span = chain[s].span
        BY <2>1, <3>1, <3>3, <4>1 DEF SpanInv, NoSpanSevered, n
      <4>3. chain'[e] = chain[e]
        BY <1>3, <3>1, <3>3
      <4> QED BY <3>1, <4>2, <4>3
    <3> QED BY <1>6, <3>2, <3>3
  <2> QED BY <1>3, <2>1 DEF NoSpanSevered
<1>13. SpanInv'
  <2>1. \A q \in Writing' : q = p
    BY <1>5 DEF Writing
  <2> QED BY <1>1, <1>3, <1>11, <1>12, <2>1 DEF SpanInv
<1>14. ContInv'
  <2>1. PICK l \in Nat : l = n
    BY <1>3
  <2>2. /\ Len(chain') = l + 1 /\ chain'[l + 1] = r
        /\ \A k \in 1..l : chain'[k] = chain[k]
        /\ \A k \in 1..(l + 1) : k \in 1..l \/ k = l + 1
    BY <1>3, <1>6, <2>1
  <2>3. ASSUME NEW k \in 0..l PROVE Conts(k)' = Conts(k)
    <3>1. \A j \in 1..k : chain'[j] = chain[j]
      BY <2>2
    <3> QED BY <3>1 DEF Conts
  <2>4. /\ Cardinality(Conts(l)) = Newest
        /\ \A k \in 1..l : chain[k].kind = "CONT" =>
              /\ chain[k].root = Upto(k - 1)
              /\ chain[k].ordinal = Cardinality(Conts(k))
    BY <2>1 DEF ContInv, n
  <2>5. /\ r.kind # "CONT" => Cardinality(Conts(l + 1)') = Newest'
        /\ r.kind = "CONT" => /\ Cardinality(Conts(l + 1)') = Newest'
                              /\ r.ordinal = Newest' /\ r.root = Upto(l)
    <3>1. Conts(l + 1)' = IF r.kind = "CONT" THEN Conts(l) \cup {l + 1} ELSE Conts(l)
      <4>1. Conts(l + 1)' = {j \in 1..(l + 1) : chain'[j].kind = "CONT"}
        BY <2>2 DEF Conts
      <4>2. Conts(l) = {j \in 1..l : chain[j].kind = "CONT"}
        BY DEF Conts
      <4>3. \A j \in 1..l : j \in 1..(l + 1)
        BY <2>2
      <4>4. l + 1 \in 1..(l + 1)
        BY <2>2
      <4> QED BY <2>2, <4>1, <4>2, <4>3, <4>4
    <3>2. IsFiniteSet(Conts(l)) /\ l + 1 \notin Conts(l)
      <4>1. IsFiniteSet(1..l)
        BY <2>2, FS_Interval
      <4>2. Conts(l) \subseteq 1..l /\ l + 1 \notin 1..l
        BY <2>2 DEF Conts
      <4> QED BY <4>1, <4>2, FS_Subset
    <3>3. Cardinality(Conts(l) \cup {l + 1}) = Cardinality(Conts(l)) + 1
      BY <3>2, FS_AddElement
    <3>4. CASE r.kind = "CONT"
      <4>1. Newest' = Newest + 1 /\ r.root = Upto(l) /\ r.ordinal = Newest + 1
        BY <2>1, <3>4 DEF Writes, n
      <4> QED BY <2>4, <3>1, <3>3, <3>4, <4>1
    <3>5. CASE r.kind # "CONT"
      <4>1. Newest' = Newest
        BY <3>5 DEF Writes
      <4> QED BY <2>4, <3>1, <3>5, <4>1
    <3> QED BY <3>4, <3>5
  <2>6. ASSUME NEW k \in 1..(l + 1), chain'[k].kind = "CONT"
        PROVE  chain'[k].root = Upto(k - 1) /\ chain'[k].ordinal = Cardinality(Conts(k)')
    <3>1. CASE k \in 1..l
      <4>1. Conts(k)' = Conts(k)
        BY <2>3, <3>1
      <4> QED BY <2>2, <2>4, <2>6, <3>1, <4>1
    <3>2. CASE k = l + 1
      <4>1. k - 1 = l /\ r.kind = "CONT"
        BY <2>2, <2>6, <3>2
      <4> QED BY <2>2, <2>5, <3>2, <4>1
    <3> QED BY <2>2, <3>1, <3>2
  <2>7. Cardinality(Conts(l + 1)') = Newest'
    BY <2>5
  <2> QED BY <2>2, <2>6, <2>7 DEF ContInv
<1> QED BY <1>8, <1>13, <1>14

-----------------------------------------------------------------------------
(* The theorems.                                                            *)

LEMMA InitIInv == PalaInit => IInv
<1> SUFFICES ASSUME PalaInit PROVE IInv
  OBVIOUS
<1>1. \A S : <<>> \in Seq(S) /\ Len(<<>>) = 0
  BY EmptySeq
<1>2. Nothing \in [first : Nat, prev : Nat, ordinal : Nat]
  BY DEF Nothing, Genesis
<1>3. PalaTypeOK
  BY <1>1, <1>2, Zero DEF PalaInit, PalaTypeOK, Genesis
<1>4. DOMAIN files = {} /\ chain = <<>> /\ manifest = <<>> /\ counts["records"] = 0
  BY DEF PalaInit
<1>5. Newest = 0
  BY <1>3, <1>4, NewestFacts DEF PalaTypeOK
<1>6. Len(chain) = 0 /\ Len(manifest) = 0 /\ \A k \in 1..0 : FALSE
  BY <1>1, <1>4
<1>7. ChainInv /\ FilesInv /\ ManifestInv
  <2>1. ~Cutting
    BY <1>5, <1>6 DEF Cutting
  <2> QED BY <1>4, <1>5, <1>6, <2>1 DEF ChainInv, FilesInv, ManifestInv
<1>8. \A p \in Proc : p \notin Inside /\ p \notin Writing /\ Null # p
  BY NullAssumption DEF PalaInit, Inside, Writing
<1>9. LockInv
  BY <1>8, Zero DEF PalaInit, LockInv
<1>10. \A p \in Proc : MemoryInv(p)
  BY <1>8 DEF PalaInit, MemoryInv, Blank
<1>11. BootInv
  BY <1>6 DEF PalaInit, BootInv
<1>12. SpanInv
  BY <1>6, <1>8 DEF SpanInv, NoSpanSevered, Writing
<1>13. ContInv
  <2>1. Conts(0) = {}
    BY <1>6 DEF Conts
  <2> QED BY <1>5, <1>6, <2>1, FS_EmptySet DEF ContInv
<1> QED BY <1>3, <1>7, <1>9, <1>10, <1>11, <1>12, <1>13 DEF IInv, DiskInv

LEMMA StepIInv ==
    ASSUME ~ResumeAny, ~FreshAnyTime, IInv, [PalaNext]_palaVars
    PROVE  IInv'
<1>1. CoreInv /\ BootInv /\ SpanInv /\ ContInv
  BY DEF IInv, CoreInv
<1>2. CoreInv'
  BY <1>1, CoreStep
<1>3. BootInv' /\ SpanInv' /\ ContInv'
  <2>1. CASE Quiet
    BY <1>1, <2>1, QuietKeeps
  <2>2. ASSUME NEW p \in Proc, Opens(p)
        PROVE  BootInv' /\ SpanInv' /\ ContInv'
    BY <1>1, <2>2, OpensKeeps
  <2>3. ASSUME NEW p \in Proc, NEW r, Writes(p, r)
        PROVE  BootInv' /\ SpanInv' /\ ContInv'
    BY <1>1, <2>3, WritesKeeps
  <2> QED BY <1>1, <2>1, <2>2, <2>3, StepKinds
<1> QED BY <1>2, <1>3 DEF IInv, CoreInv

\* The inductive invariant of the writer: with the two doors shut, what is on
\* disk, what the manifest says and what every writer has in memory agree at
\* every step of starting, resuming, writing, cutting, dying and retiring.
THEOREM InductiveInvariant ==
    ASSUME ~ResumeAny, ~FreshAnyTime
    PROVE  PalaSpec => []IInv
<1>1. IInv /\ [PalaNext]_palaVars => IInv'
  BY StepIInv
<1> QED BY <1>1, InitIInv, PTL DEF PalaSpec

\* The roots of the beginnings of the chain.
LEMMA PrefixRoot ==
    ASSUME PalaTypeOK, ChainInv, NEW m \in 0..Len(chain)
    PROVE  HashesOf(SubSeq(chain, 1, m)) = Upto(m)
<1>1. chain \in Seq(Item) /\ Len(chain) \in Nat
  BY ChainFacts DEF PalaTypeOK
<1> DEFINE s == SubSeq(chain, 1, m)
<1>2. Len(s) = m /\ \A k \in 1..m : s[k] = chain[k]
  BY <1>1, PrefixFacts
<1>3. \A k \in 1..m : k \in 1..Len(chain) /\ chain[k].hash = k
  BY <1>1 DEF ChainInv
<1> HIDE DEF s
<1>4. HashesOf(s) = Upto(m)
  BY <1>2, <1>3 DEF HashesOf, Upto
<1> QED BY <1>4 DEF s

\* Every record names the one before it.
LEMMA ChainIsLinear == PalaTypeOK /\ ChainInv => Linear(chain)
<1> SUFFICES ASSUME PalaTypeOK, ChainInv PROVE Linear(chain)
  OBVIOUS
<1>1. ASSUME NEW k \in 1..Len(chain) PROVE chain[k].prev = HashBefore(chain, k)
  <2>1. Len(chain) \in Nat
    BY ChainFacts
  <2>2. chain[k].prev = k - 1
    BY DEF ChainInv
  <2>3. CASE k = 1
    BY <2>2, <2>3 DEF HashBefore, Genesis
  <2>4. CASE k # 1
    <3>1. k - 1 \in 1..Len(chain)
      BY <2>1, <2>4
    <3>2. chain[k - 1].hash = k - 1
      BY <3>1 DEF ChainInv
    <3> QED BY <2>2, <2>4, <3>2 DEF HashBefore
  <2> QED BY <2>3, <2>4
<1> QED BY <1>1 DEF Linear

\* A segment is the piece of the chain that its first record says.
LEMMA SegmentHolds ==
    ASSUME PalaTypeOK, DiskInv, NEW i \in DOMAIN files
    PROVE  /\ Scanned(i) = SubSeq(chain, Begin(i) + 1, End(i))
           /\ End(i) = Begin(i) + Whole(i)
           /\ i = Newest => End(i) = Len(chain)
           /\ i # Newest => i + 1 \in DOMAIN files /\ Begin(i + 1) = End(i)
<1>1. /\ Scanned(i) \in Seq(Item) /\ Len(Scanned(i)) = Whole(i)
      /\ Whole(i) \in 0..Len(files[i]) /\ Len(files[i]) \in Nat
      /\ \A k \in 1..Whole(i) : /\ Scanned(i)[k] = files[i][k]
                                /\ Begin(i) + k \in 1..Len(chain)
                                /\ files[i][k] = chain[Begin(i) + k]
      /\ i \in Nat /\ Begin(i) \in Nat
  BY FileFacts DEF DiskInv
<1>2. End(i) = Begin(i) + Whole(i)
  BY <1>1 DEF End
<1> DEFINE b == Begin(i)
           l == Whole(i)
           s == SubSeq(chain, b + 1, b + l)
           t == Scanned(i)
<1>3. b \in Nat /\ l \in Nat
  BY <1>1
<1>4. t \in Seq(Item) /\ Len(t) = l /\ \A k \in 1..l : b + k \in 1..Len(chain) /\ t[k] = chain[b + k]
  BY <1>1
<1>5. \A k \in 1..Len(chain) : chain[k] \in Item
  BY ChainFacts DEF DiskInv
<1> HIDE DEF b, l, t
<1>6. \A k \in (b + 1)..(b + l) : chain[k] \in Item
  <2>1. ASSUME NEW k \in (b + 1)..(b + l) PROVE chain[k] \in Item
    <3>1. k - b \in 1..l /\ b + (k - b) = k
      BY <1>3
    <3>2. k \in 1..Len(chain)
      BY <1>4, <3>1
    <3> QED BY <1>5, <3>2
  <2> QED BY <2>1
<1>7. /\ s \in Seq(Item) /\ Len(s) = l
      /\ \A k \in 1..l : s[k] = chain[b + k]
  <2>1. /\ s \in Seq(Item)
        /\ Len(s) = IF b + 1 <= b + l THEN (b + l) - (b + 1) + 1 ELSE 0
        /\ \A k \in 1..((b + l) - (b + 1) + 1) : s[k] = chain[(b + 1) + k - 1]
    <3>1. b + 1 \in Int /\ b + l \in Int
      BY <1>3
    <3> QED BY <1>6, <3>1, SubSeqProperties
  <2>2. (b + l) - (b + 1) + 1 = l /\ (b + 1 <= b + l \/ l = 0)
    BY <1>3
  <2>3. \A k \in 1..l : (b + 1) + k - 1 = b + k
    BY <1>3
  <2> HIDE DEF s
  <2>4. Len(s) = l
    BY <1>3, <2>1, <2>2
  <2>5. \A k \in 1..l : s[k] = chain[b + k]
    BY <2>1, <2>2, <2>3
  <2> QED BY <2>1, <2>4, <2>5
<1> HIDE DEF s
<1>8. t = s
  BY <1>3, <1>4, <1>7, SeqEqual
<1>9. Scanned(i) = SubSeq(chain, Begin(i) + 1, End(i))
  BY <1>2, <1>8 DEF s, t, b, l
<1>10. i = Newest => End(i) = Len(chain)
  BY <1>2, NewestEnds DEF DiskInv
<1>11. ASSUME i # Newest
       PROVE  i + 1 \in DOMAIN files /\ Begin(i + 1) = End(i)
  <2>1. Newest \in DOMAIN files /\ i <= Newest /\ Newest \in Nat
    BY NewestFacts DEF PalaTypeOK
  <2>2. i + 1 \in i..Newest
    BY <1>1, <1>11, <2>1
  <2>3. i + 1 \in DOMAIN files
    BY <2>1, <2>2 DEF DiskInv, FilesInv
  <2>4. Begin(i + 1) = Begin(i) + Len(files[i])
    BY <1>11 DEF DiskInv, FilesInv
  <2>5. Whole(i) = Len(files[i])
    BY <1>11, FirstFacts DEF DiskInv
  <2> QED BY <1>2, <2>3, <2>4, <2>5
<1> QED BY <1>2, <1>9, <1>10, <1>11

LEMMA OneChainHolds == IInv => OneChain
<1> SUFFICES ASSUME IInv PROVE OneChain
  OBVIOUS
<1>1. /\ PalaTypeOK /\ DiskInv /\ ChainInv /\ FilesInv /\ LockInv
      /\ \A p \in Proc : MemoryInv(p)
  BY DEF IInv, DiskInv
<1>2. \A i \in DOMAIN files :
          /\ Scanned(i) = SubSeq(chain, Begin(i) + 1, End(i))
          /\ i = Newest => End(i) = Len(chain)
          /\ i # Newest => i + 1 \in DOMAIN files /\ Begin(i + 1) = End(i)
  BY <1>1, SegmentHolds
<1>3. \A i \in DOMAIN files :
          /\ ~Damaged(i)
          /\ ~Clean(i) => i = Newest
          /\ i # 0 => Scanned(i) # <<>>
  <2>1. ASSUME NEW i \in DOMAIN files PROVE ~Damaged(i) /\ (~Clean(i) => i = Newest)
    BY <1>1, FileFacts, FirstFacts
  <2>2. ASSUME NEW i \in DOMAIN files, i # 0 PROVE Scanned(i) # <<>>
    <3>1. Len(Scanned(i)) = Whole(i) /\ Whole(i) > 0 /\ Whole(i) \in Nat
      BY <1>1, <2>2, FileFacts, FirstFacts
    <3> QED BY <3>1, EmptySeq
  <2> QED BY <2>1, <2>2
<1>4. SegmentsHoldTheChain
  BY <1>1, <1>2, <1>3 DEF SegmentsHoldTheChain, FilesInv
<1>5. Linear(chain)
  BY <1>1, ChainIsLinear
<1>6. \A k \in 1..Len(chain) : /\ chain[k].seq = k - 1
                               /\ chain[k].kind = "GENESIS" <=> k = 1
  BY <1>1 DEF ChainInv
<1>7. \A k \in 2..Len(chain) :
         chain[k].boot # chain[k - 1].boot => chain[k].kind = "BOOT"
  <2>1. \A k \in 2..Len(chain) : k \in 1..Len(chain) /\ k # 1
    BY <1>1, ChainFacts
  <2> QED BY <1>1, <2>1 DEF ChainInv
<1>8. \A p, q \in Proc \ {r \in Proc : pc[r] \in {"out", "fresh"}} : p = q
  BY <1>1, OneInside DEF Inside
<1>9. ASSUME NEW p \in Proc
      PROVE  (\E i \in Index : lock[i] = p) <=> pc[p] \notin {"out", "fresh"}
  <2>1. Null # p
    BY NullAssumption
  <2> QED BY <1>1, <2>1, Zero DEF LockInv, Inside
<1>10. ASSUME NEW p \in Writing
       PROVE  /\ path[p] = Newest /\ Clean(path[p])
              /\ seq[p] = Len(chain) /\ head[p] = HeadOf(chain)
              /\ entries[p] = manifest
              /\ must[p] = "GENESIS" <=> chain = <<>>
              /\ files[path[p]] # <<>> => /\ opened[p].first = files[path[p]][1].seq
                                         /\ opened[p].prev = files[path[p]][1].prev
  <2>1. MemoryInv(p)
    BY <1>1 DEF Writing
  <2>2. PICK m \in DOMAIN files : m = Newest
    BY <2>1 DEF MemoryInv
  <2>3. /\ path[p] = m /\ ~HasTorn(m) /\ seq[p] = Len(chain) /\ head[p] = Len(chain)
        /\ entries[p] = manifest /\ (must[p] = "GENESIS" <=> chain = <<>>)
        /\ opened[p].first = Begin(m) /\ opened[p].prev = Begin(m)
    BY <2>1, <2>2 DEF MemoryInv
  <2>4. Clean(m) /\ Whole(m) = Len(files[m])
    BY <1>1, <2>3, FileFacts DEF Whole
  <2>5. HeadOf(chain) = Len(chain)
    <3>1. Len(chain) \in Nat /\ (chain = <<>> <=> Len(chain) = 0)
      BY <1>1, ChainFacts
    <3>2. chain # <<>> => Len(chain) \in 1..Len(chain)
      BY <3>1
    <3>3. chain # <<>> => chain[Len(chain)].hash = Len(chain)
      BY <1>1, <3>2 DEF ChainInv
    <3> QED BY <3>1, <3>3 DEF HeadOf, Genesis
  <2>6. files[m] # <<>> => files[m][1].seq = Begin(m) /\ files[m][1].prev = Begin(m)
    <3>1. files[m] # <<>> => Whole(m) > 0
      BY <1>1, <2>4, FileFacts
    <3> QED BY <1>1, <3>1, FirstFacts
  <2> QED BY <2>2, <2>3, <2>4, <2>5, <2>6
<1>11. WriterInv
  BY <1>8, <1>9, <1>10 DEF WriterInv
<1> QED BY <1>1, <1>4, <1>5, <1>6, <1>7, <1>11 DEF OneChain

\* However often writers start, die and resume, and wherever the chain is cut,
\* there is one chain, and memory and disk agree with it.
THEOREM ChainIsOne ==
    ASSUME ~ResumeAny, ~FreshAnyTime
    PROVE  PalaSpec => []OneChain
BY InductiveInvariant, OneChainHolds, PTL

LEMMA ManifestHolds == IInv => ManifestIsTrue
<1> SUFFICES ASSUME IInv PROVE ManifestIsTrue
  OBVIOUS
<1>1. PalaTypeOK /\ DiskInv /\ ChainInv /\ FilesInv /\ ManifestInv
  BY DEF IInv, DiskInv
<1>2. /\ Newest \in Nat /\ \A i \in DOMAIN files : i \in Nat /\ i <= Newest
      /\ Len(manifest) \in {Newest, Newest + 1} /\ Len(manifest) \in Nat
  BY <1>1, NewestFacts DEF PalaTypeOK, ManifestInv, Cutting
<1>3. \A k \in 1..Len(manifest) :
          /\ manifest[k].file = k - 1
          /\ manifest[k].first = (IF k = 1 THEN 0 ELSE manifest[k - 1].last + 1)
          /\ manifest[k].prev = manifest[k].first
          /\ manifest[k].head = manifest[k].last + 1
          /\ manifest[k].last + 1 \in 1..Len(chain)
          /\ manifest[k].covers = Upto(manifest[k].last + 1)
          /\ k \in DOMAIN files => Begin(k) = manifest[k].last + 1
  BY <1>1 DEF ManifestInv
<1>4. ASSUME NEW k \in 1..Len(manifest), NEW e, e = manifest[k]
      PROVE  /\ e.first = (IF k = 1 THEN 0 ELSE manifest[k - 1].last + 1)
             /\ e.prev = (IF k = 1 THEN Genesis ELSE manifest[k - 1].head)
             /\ e.head = chain[e.last + 1].hash
             /\ e.covers = HashesOf(SubSeq(chain, 1, e.last + 1))
             /\ e.file \in DOMAIN files =>
                  Scanned(e.file) = SubSeq(chain, e.first + 1, e.last + 1)
  <2>1. k # 1 => k - 1 \in 1..Len(manifest)
    BY <1>2
  <2>2. e.prev = (IF k = 1 THEN Genesis ELSE manifest[k - 1].head)
    BY <1>3, <1>4, <2>1 DEF Genesis
  <2>3. e.head = chain[e.last + 1].hash
    BY <1>1, <1>3, <1>4 DEF ChainInv
  <2>4. e.covers = HashesOf(SubSeq(chain, 1, e.last + 1))
    <3>1. e.last + 1 \in 0..Len(chain)
      BY <1>3, <1>4
    <3> QED BY <1>1, <1>3, <1>4, <3>1, PrefixRoot
  <2>5. ASSUME e.file \in DOMAIN files
        PROVE  Scanned(e.file) = SubSeq(chain, e.first + 1, e.last + 1)
    <3>1. PICK i \in DOMAIN files : i = e.file /\ i + 1 = k /\ i \in Nat
      BY <1>2, <1>3, <1>4, <2>5
    <3>2. Begin(i) = e.first
      <4>1. CASE k = 1
        BY <1>3, <1>4, <3>1, <4>1 DEF Begin
      <4>2. CASE k # 1
        <5>1. i \in 1..Len(manifest) /\ k - 1 = i
          BY <2>1, <3>1, <4>2
        <5>2. Begin(i) = manifest[i].last + 1
          BY <1>3, <3>1, <5>1
        <5> QED BY <1>3, <1>4, <4>2, <5>1, <5>2
      <4> QED BY <4>1, <4>2
    <3>3. End(i) = e.last + 1
      <4>1. CASE i # Newest
        <5>1. k \in DOMAIN files /\ Begin(k) = End(i)
          BY <1>1, <3>1, <4>1, SegmentHolds
        <5> QED BY <1>3, <1>4, <5>1
      <4>2. CASE i = Newest
        <5>1. Cutting /\ k = Newest + 1
          BY <1>1, <1>2, <3>1, <4>2 DEF ManifestInv
        <5>2. e.last + 1 = Len(chain)
          BY <1>1, <1>4, <5>1 DEF ManifestInv
        <5>3. End(i) = Len(chain)
          BY <1>1, <4>2, SegmentHolds
        <5> QED BY <5>2, <5>3
      <4> QED BY <4>1, <4>2
    <3>4. Scanned(i) = SubSeq(chain, Begin(i) + 1, End(i))
      BY <1>1, SegmentHolds
    <3> QED BY <3>1, <3>2, <3>3, <3>4
  <2> QED BY <1>3, <1>4, <2>2, <2>3, <2>4, <2>5
<1>5. DOMAIN manifest = 1..Len(manifest)
  BY <1>1, LenProperties DEF PalaTypeOK
<1>6. ASSUME NEW i \in DOMAIN files \ {Newest}
      PROVE  \E e \in Range(manifest) : e.file = i
  <2>1. i + 1 \in 1..Len(manifest) /\ i \in Nat
    BY <1>2
  <2>2. manifest[i + 1].file = i + 1 - 1 /\ i + 1 - 1 = i
    BY <1>3, <2>1
  <2>3. manifest[i + 1] \in Range(manifest)
    BY <1>5, <2>1 DEF Range
  <2> QED BY <2>2, <2>3
<1>7. ASSUME NEW k \in 2..Len(manifest)
      PROVE  manifest[k - 1].file < manifest[k].file
  <2>1. k \in 1..Len(manifest) /\ k - 1 \in 1..Len(manifest) /\ k - 1 - 1 < k - 1
    BY <1>2
  <2>2. manifest[k].file = k - 1 /\ manifest[k - 1].file = k - 1 - 1
    BY <1>3, <2>1
  <2> QED BY <2>1, <2>2
<1>8. ASSUME manifest # <<>> PROVE Last(manifest).file <= Newest
  <2>1. Len(manifest) \in 1..Len(manifest)
    <3>1. Len(manifest) # 0
      BY <1>1, <1>8, EmptySeq DEF PalaTypeOK
    <3> QED BY <1>2, <3>1
  <2>2. Last(manifest).file = Len(manifest) - 1
    BY <1>3, <2>1 DEF Last
  <2> QED BY <1>2, <2>2
<1> QED BY <1>4, <1>6, <1>7, <1>8 DEF ManifestIsTrue

\* The manifest is true at every moment, also between the steps of a cut.
THEOREM ManifestStaysTrue ==
    ASSUME ~ResumeAny, ~FreshAnyTime
    PROVE  PalaSpec => []ManifestIsTrue
BY InductiveInvariant, ManifestHolds, PTL

LEMMA RootsHold == IInv => RootCoversChain
<1> SUFFICES ASSUME IInv PROVE RootCoversChain
  OBVIOUS
<1>1. /\ PalaTypeOK /\ DiskInv /\ ChainInv /\ SpanInv /\ ContInv
      /\ \A p \in Proc : MemoryInv(p)
  BY DEF IInv, DiskInv
<1>2. chain \in Seq(Item) /\ Len(chain) \in Nat
  BY <1>1, ChainFacts DEF PalaTypeOK
<1>3. ASSUME NEW p \in Writing PROVE Covered(p) = HashesOf(chain)
  <2>1. /\ Covered(p) \in Seq(Nat) /\ Len(Covered(p)) = Len(chain)
        /\ \A k \in 1..Len(chain) : Covered(p)[k] = k
    BY <1>1, CoveredFacts DEF Writing
  <2>2. Covered(p) = Upto(Len(chain))
    BY <1>2, <2>1 DEF Upto
  <2>3. HashesOf(chain) = Upto(Len(chain))
    BY <1>1 DEF HashesOf, Upto, ChainInv
  <2> QED BY <2>2, <2>3
<1>4. ASSUME NEW k \in 1..Len(chain), chain[k].kind = "CONT"
      PROVE  /\ chain[k].root = HashesOf(SubSeq(chain, 1, k - 1))
             /\ chain[k].ordinal = Cardinality({j \in 1..k : chain[j].kind = "CONT"})
  <2>1. k - 1 \in 0..Len(chain)
    BY <1>2
  <2>2. HashesOf(SubSeq(chain, 1, k - 1)) = Upto(k - 1)
    BY <1>1, <2>1, PrefixRoot
  <2> QED BY <1>1, <1>4, <2>2 DEF ContInv, Conts
<1> QED BY <1>1, <1>3, <1>4 DEF RootCoversChain, SpanInv

\* A root covers every record from seq 0, whoever states it, and every
\* continuation record declares the root and the place that are its own.
THEOREM RootsCover ==
    ASSUME ~ResumeAny, ~FreshAnyTime
    PROVE  PalaSpec => []RootCoversChain
BY InductiveInvariant, RootsHold, PTL

-----------------------------------------------------------------------------
(* The set that someone finds (SegmentSet).                                 *)

\* Records that are a piece of the chain: its a-th to its b-th.
IsPiece(rows, a, b) ==
    /\ a \in Nat /\ b \in Nat /\ 1 <= a /\ a <= b /\ b <= Len(chain)
    /\ rows \in Seq(Item) /\ Len(rows) = b - a + 1
    /\ \A k \in 1..Len(rows) : rows[k] = chain[a + k - 1]

\* What such a piece says of itself.
LEMMA PieceRows ==
    ASSUME PalaTypeOK, ChainInv, NEW rows, NEW a, NEW b, IsPiece(rows, a, b)
    PROVE  /\ rows # <<>> /\ Len(rows) \in Nat /\ Len(rows) >= 1
           /\ \A k \in 1..Len(rows) : /\ rows[k].seq = a + k - 2 /\ rows[k].prev = a + k - 2
                                      /\ rows[k].hash = a + k - 1
                                      /\ rows[k].kind = "GENESIS" <=> a + k - 1 = 1
<1>1. /\ a \in Nat /\ b \in Nat /\ 1 <= a /\ a <= b /\ b <= Len(chain) /\ Len(chain) \in Nat
      /\ Len(rows) = b - a + 1 /\ rows \in Seq(Item)
      /\ \A k \in 1..Len(rows) : rows[k] = chain[a + k - 1]
  BY ChainFacts DEF IsPiece
<1>2. rows # <<>> /\ Len(rows) \in Nat /\ Len(rows) >= 1
  BY <1>1
<1>3. ASSUME NEW k \in 1..Len(rows)
      PROVE  /\ rows[k].seq = a + k - 2 /\ rows[k].prev = a + k - 2
             /\ rows[k].hash = a + k - 1
             /\ rows[k].kind = "GENESIS" <=> a + k - 1 = 1
  <2>1. PICK m \in 1..Len(chain) : m = a + k - 1
    BY <1>1
  <2>2. rows[k] = chain[m] /\ m - 1 = a + k - 2
    BY <1>1, <2>1
  <2>3. /\ chain[m].seq = m - 1 /\ chain[m].prev = m - 1 /\ chain[m].hash = m
        /\ chain[m].kind = "GENESIS" <=> m = 1
    BY DEF ChainInv
  <2> QED BY <2>1, <2>2, <2>3
<1> QED BY <1>2, <1>3

\* It verifies from the hash before it, and matches an entry that tells of it.
LEMMA PieceVerifies ==
    ASSUME PalaTypeOK, ChainInv, NEW rows, NEW a, NEW b, IsPiece(rows, a, b)
    PROVE  /\ ChainOk(rows, a - 1)
           /\ \A e : e.prev = a - 1 /\ e.first = a - 1 /\ e.last = b - 1 /\ e.head = b
                        => CheckFile(rows, e)
<1>1. /\ rows # <<>> /\ Len(rows) \in Nat /\ Len(rows) >= 1
      /\ \A k \in 1..Len(rows) : /\ rows[k].seq = a + k - 2 /\ rows[k].prev = a + k - 2
                                 /\ rows[k].hash = a + k - 1
                                 /\ rows[k].kind = "GENESIS" <=> a + k - 1 = 1
  BY PieceRows
<1>2. a \in Nat /\ b \in Nat /\ 1 <= a /\ Len(rows) = b - a + 1
  BY DEF IsPiece
<1>3. 1 \in 1..Len(rows) /\ Len(rows) \in 1..Len(rows)
  BY <1>1
<1>4. rows[1].prev = a - 1 /\ rows[1].seq = a - 1 /\ (rows[1].kind = "GENESIS" <=> a = 1)
  BY <1>1, <1>2, <1>3
<1>5. Last(rows).seq = b - 1 /\ Last(rows).hash = b
  BY <1>1, <1>2, <1>3 DEF Last
<1>6. ASSUME NEW k \in 2..Len(rows)
      PROVE  rows[k].prev = rows[k - 1].hash /\ rows[k].seq = rows[k - 1].seq + 1
  <2>1. k \in 1..Len(rows) /\ k - 1 \in 1..Len(rows)
    BY <1>1
  <2>2. rows[k].prev = a + k - 2 /\ rows[k].seq = a + k - 2
    BY <1>1, <2>1
  <2>3. rows[k - 1].hash = a + (k - 1) - 1 /\ rows[k - 1].seq = a + (k - 1) - 2
    BY <1>1, <2>1
  <2> QED BY <1>2, <2>1, <2>2, <2>3
<1>7. ChainOk(rows, a - 1)
  BY <1>2, <1>4, <1>6 DEF ChainOk, Genesis
<1>8. ASSUME NEW e, e.prev = a - 1, e.first = a - 1, e.last = b - 1, e.head = b
      PROVE  CheckFile(rows, e)
  <2>1. Len(rows) = e.last - e.first + 1
    BY <1>2, <1>8
  <2> QED BY <1>1, <1>4, <1>5, <1>7, <1>8, <2>1 DEF CheckFile, Matches
<1> QED BY <1>7, <1>8

\* What its ends are.
LEMMA PieceTells ==
    ASSUME PalaTypeOK, ChainInv, NEW rows, NEW a, NEW b, IsPiece(rows, a, b)
    PROVE  rows[1].seq = a - 1 /\ Last(rows).seq = b - 1 /\ Last(rows).hash = b
<1>1. /\ Len(rows) \in Nat /\ Len(rows) >= 1
      /\ \A k \in 1..Len(rows) : rows[k].seq = a + k - 2 /\ rows[k].hash = a + k - 1
  BY PieceRows
<1>2. a \in Nat /\ b \in Nat /\ Len(rows) = b - a + 1
  BY DEF IsPiece
<1>3. 1 \in 1..Len(rows) /\ Len(rows) \in 1..Len(rows)
  BY <1>1
<1> QED BY <1>1, <1>2, <1>3 DEF Last

\* Where the segment begins and ends that an entry lists.
LEMMA ListedSegment ==
    ASSUME PalaTypeOK, DiskInv, NEW k \in 1..Len(manifest), NEW i \in DOMAIN files, k = i + 1
    PROVE  Begin(i) = manifest[k].first /\ End(i) = manifest[k].last + 1
<1>1. /\ i \in Nat /\ i <= Newest /\ Newest \in Nat
      /\ Len(manifest) \in Nat /\ (Len(manifest) = Newest \/ Cutting)
  BY NewestFacts DEF PalaTypeOK, DiskInv, ManifestInv
<1>2. \A l \in 1..Len(manifest) :
          /\ manifest[l].first = (IF l = 1 THEN 0 ELSE manifest[l - 1].last + 1)
          /\ l \in DOMAIN files => Begin(l) = manifest[l].last + 1
  BY DEF DiskInv, ManifestInv
<1>3. Begin(i) = manifest[k].first
  <2>1. CASE i = 0
    BY <1>2, <2>1 DEF Begin
  <2>2. CASE i # 0
    <3>1. i \in 1..Len(manifest) /\ k - 1 = i /\ k # 1
      BY <1>1, <2>2
    <3>2. Begin(i) = manifest[i].last + 1
      BY <1>2, <3>1
    <3> QED BY <1>2, <3>1, <3>2
  <2> QED BY <2>1, <2>2
<1>4. End(i) = manifest[k].last + 1
  <2>1. CASE i # Newest
    <3>1. k \in DOMAIN files /\ Begin(k) = End(i)
      BY <2>1, SegmentHolds
    <3> QED BY <1>2, <3>1
  <2>2. CASE i = Newest
    <3>1. Cutting /\ k = Newest + 1
      BY <1>1, <2>2 DEF Cutting
    <3>2. manifest[k].last + 1 = Len(chain)
      BY <3>1 DEF DiskInv, ManifestInv
    <3> QED BY <2>2, <3>2, SegmentHolds
  <2> QED BY <2>1, <2>2
<1> QED BY <1>3, <1>4

\* A file that is whole and not empty is a piece of the chain.
LEMMA FileIsPiece ==
    ASSUME PalaTypeOK, DiskInv, NEW i \in DOMAIN files, Clean(i), files[i] # <<>>
    PROVE  IsPiece(files[i], Begin(i) + 1, End(i))
<1>1. /\ files[i] \in Seq(Item) /\ Len(files[i]) \in Nat /\ Len(files[i]) # 0
      /\ ~HasTorn(i) /\ Begin(i) \in Nat
      /\ \A k \in 1..Whole(i) : /\ Begin(i) + k \in 1..Len(chain)
                                /\ files[i][k] = chain[Begin(i) + k]
      /\ End(i) = Begin(i) + Whole(i)
  BY FileFacts, SegmentHolds DEF DiskInv
<1>2. Whole(i) = Len(files[i])
  BY <1>1 DEF Whole
<1>3. PICK b \in Nat : b = Begin(i)
  BY <1>1
<1>4. PICK m \in Nat : m = Len(files[i]) /\ m >= 1 /\ Len(files[i]) = m
  BY <1>1
<1>5. \A k \in 1..m : b + k \in 1..Len(chain) /\ files[i][k] = chain[b + k]
  BY <1>1, <1>2, <1>3, <1>4
<1>6. b + m \in 1..Len(chain)
  BY <1>4, <1>5
<1>7. \A k \in 1..m : files[i][k] = chain[(b + 1) + k - 1]
  <2> TAKE k \in 1..m
  <2>1. (b + 1) + k - 1 = b + k
    OBVIOUS
  <2> QED BY <1>5, <2>1
<1>8. End(i) = b + m /\ (b + m) - (b + 1) + 1 = m
  BY <1>1, <1>2, <1>3, <1>4
<1>9. Len(chain) \in Nat
  BY ChainFacts DEF DiskInv
<1>10. IsPiece(files[i], b + 1, b + m)
  BY <1>1, <1>4, <1>6, <1>7, <1>8, <1>9 DEF IsPiece
<1> QED BY <1>3, <1>8, <1>10

\* The set on disk, while there is a manifest and no file is torn.
Findable == manifest # <<>> /\ \A i \in DOMAIN files : Clean(i)

\* What there is then, entry by entry and file by file.
LEMMA SetFacts ==
    ASSUME PalaTypeOK, DiskInv, Findable
    PROVE  /\ Len(manifest) \in Nat /\ Len(manifest) >= 1 /\ DOMAIN manifest = 1..Len(manifest)
           /\ Last(manifest) = manifest[Len(manifest)]
           /\ chain # <<>> /\ Newest \in DOMAIN files /\ Newest \in Nat
           /\ \A i \in DOMAIN files :
                 /\ i \in Nat /\ i <= Newest
                 /\ IsPiece(files[i], Begin(i) + 1, End(i))
                 /\ Begin(i) = 0 <=> i = 0
           /\ \A k \in 1..Len(manifest) :
                 /\ manifest[k].file = k - 1
                 /\ manifest[k].first = (IF k = 1 THEN 0 ELSE manifest[k - 1].last + 1)
                 /\ manifest[k].prev = manifest[k].first
                 /\ manifest[k].head = manifest[k].last + 1
                 /\ manifest[k].last \in Nat
                 /\ k \in DOMAIN files => Begin(k) = manifest[k].last + 1
<1>1. /\ manifest \in Seq(Entry) /\ Len(manifest) \in Nat /\ Len(manifest) >= 1
      /\ DOMAIN manifest = 1..Len(manifest)
  <2>1. manifest \in Seq(Entry) /\ manifest # <<>>
    BY DEF PalaTypeOK, Findable
  <2>2. Len(manifest) \in Nat /\ DOMAIN manifest = 1..Len(manifest)
    BY <2>1, LenProperties
  <2>3. Len(manifest) # 0
    BY <2>1, EmptySeq
  <2> QED BY <2>1, <2>2, <2>3
<1>2. \A k \in 1..Len(manifest) :
         /\ manifest[k].file = k - 1
         /\ manifest[k].first = (IF k = 1 THEN 0 ELSE manifest[k - 1].last + 1)
         /\ manifest[k].prev = manifest[k].first
         /\ manifest[k].head = manifest[k].last + 1
         /\ manifest[k].last + 1 \in 1..Len(chain)
         /\ k \in DOMAIN files => Begin(k) = manifest[k].last + 1
  BY DEF DiskInv, ManifestInv
<1>3. \A k \in 1..Len(manifest) : manifest[k].last \in Nat
  <2> TAKE k \in 1..Len(manifest)
  <2>1. manifest[k] \in Entry
    BY <1>1, ElementOfSeq
  <2> QED BY <2>1 DEF Entry
<1>4. 1 \in 1..Len(manifest)
  BY <1>1
<1>5. chain # <<>>
  <2>1. manifest[1].last + 1 \in 1..Len(chain)
    BY <1>2, <1>4
  <2>2. Len(chain) # 0
    BY <2>1
  <2> QED BY <2>2, ChainFacts DEF DiskInv
<1>6. DOMAIN files # {}
  BY <1>5 DEF DiskInv, FilesInv
<1>7. Newest \in DOMAIN files /\ Newest \in Nat /\ \A i \in DOMAIN files : i \in Nat /\ i <= Newest
  BY <1>6, NewestFacts DEF PalaTypeOK
<1>8. ASSUME NEW i \in DOMAIN files PROVE IsPiece(files[i], Begin(i) + 1, End(i))
  <2>1. files[i] # <<>>
    <3>1. CASE i = Newest
      BY <1>5, <1>6, <3>1, NewestEnds DEF DiskInv
    <3>2. CASE i # Newest
      BY <3>2 DEF DiskInv, FilesInv
    <3> QED BY <3>1, <3>2
  <2> QED BY <2>1, FileIsPiece DEF Findable
<1>9. ASSUME NEW i \in DOMAIN files PROVE Begin(i) = 0 <=> i = 0
  <2>1. i <= Begin(i) /\ i \in Nat
    BY <1>7 DEF DiskInv, FilesInv
  <2>2. i = 0 => Begin(i) = 0
    BY DEF Begin
  <2>3. Begin(i) \in Nat
    BY FileFacts DEF DiskInv
  <2> QED BY <2>1, <2>2, <2>3
<1> QED BY <1>1, <1>2, <1>3, <1>5, <1>7, <1>8, <1>9 DEF Last

\* What is listed and there is as it is listed, and what is behind it verifies.
LEMMA SetIsConsistent ==
    ASSUME PalaTypeOK, DiskInv, Findable
    PROVE  Consistent(files, manifest)
<1>0. ChainInv
  BY DEF DiskInv
<1>1. /\ Len(manifest) \in Nat /\ Len(manifest) >= 1
      /\ Last(manifest) = manifest[Len(manifest)]
      /\ \A i \in DOMAIN files : i \in Nat /\ IsPiece(files[i], Begin(i) + 1, End(i))
      /\ \A k \in 1..Len(manifest) :
            /\ manifest[k].file = k - 1
            /\ manifest[k].first = (IF k = 1 THEN 0 ELSE manifest[k - 1].last + 1)
            /\ manifest[k].prev = manifest[k].first
            /\ manifest[k].head = manifest[k].last + 1
            /\ manifest[k].last \in Nat
  BY SetFacts
<1>2. ASSUME NEW k \in 1..Len(manifest) PROVE SeamOk(manifest, k)
  <2>1. k # 1 => k - 1 \in 1..Len(manifest)
    BY <1>1
  <2> QED BY <1>1, <2>1 DEF SeamOk
<1>3. ASSUME NEW k \in 1..Len(manifest), manifest[k].file \in DOMAIN files
      PROVE  CheckFile(files[manifest[k].file], manifest[k])
  <2>1. PICK i \in DOMAIN files : i = manifest[k].file
    BY <1>3
  <2>2. i \in Nat /\ k = i + 1
    BY <1>1, <2>1
  <2>3. PICK a, b : a = Begin(i) + 1 /\ b = End(i) /\ IsPiece(files[i], a, b)
    BY <1>1
  <2>4. Begin(i) = manifest[k].first /\ End(i) = manifest[k].last + 1
    BY <2>2, ListedSegment
  <2>5. manifest[k].first \in Nat
    <3>1. k # 1 => k - 1 \in 1..Len(manifest)
      BY <1>1
    <3> QED BY <1>1, <3>1
  <2>6. PICK e : e = manifest[k]
    OBVIOUS
  <2>7. e.prev = a - 1 /\ e.first = a - 1 /\ e.last = b - 1 /\ e.head = b
    BY <1>1, <2>3, <2>4, <2>5, <2>6
  <2>8. CheckFile(files[i], e)
    BY <1>0, <2>3, <2>7, PieceVerifies
  <2> QED BY <2>1, <2>6, <2>8
<1>4. ASSUME NEW i \in LiveTail(files, manifest) PROVE ChainOk(files[i], Last(manifest).head)
  <2>1. i \in DOMAIN files /\ files[i][1].prev = Last(manifest).head
    BY DEF LiveTail
  <2>2. PICK a, b : IsPiece(files[i], a, b)
    BY <1>1, <2>1
  <2>3. files[i][1].prev = a - 1
    <3>1. PICK rows : rows = files[i]
      OBVIOUS
    <3>2. IsPiece(rows, a, b)
      BY <2>2, <3>1
    <3>3. Len(rows) \in Nat /\ Len(rows) >= 1 /\ \A k \in 1..Len(rows) : rows[k].prev = a + k - 2
      BY <1>0, <3>2, PieceRows
    <3>4. a \in Nat
      BY <3>2 DEF IsPiece
    <3>5. 1 \in 1..Len(rows) /\ a + 1 - 2 = a - 1
      BY <3>3, <3>4
    <3> QED BY <3>1, <3>3, <3>5
  <2>4. ChainOk(files[i], a - 1)
    BY <1>0, <2>2, PieceVerifies
  <2> QED BY <2>1, <2>3, <2>4
<1> QED BY <1>2, <1>3, <1>4 DEF Consistent

\* Nothing listed is missing exactly if no segment was removed.
LEMMA SetIsComplete ==
    ASSUME PalaTypeOK, DiskInv, Findable
    PROVE  Complete(files, manifest) <=> Retired = 0
<1>1. /\ Len(manifest) \in Nat /\ Len(manifest) >= 1 /\ DOMAIN manifest = 1..Len(manifest)
      /\ Newest \in DOMAIN files /\ Newest \in Nat
      /\ \A i \in DOMAIN files : i \in Nat /\ (Begin(i) = 0 <=> i = 0)
      /\ \A k \in 1..Len(manifest) :
            /\ manifest[k].file = k - 1
            /\ manifest[k].first = (IF k = 1 THEN 0 ELSE manifest[k - 1].last + 1)
            /\ manifest[k].prev = manifest[k].first
  BY SetFacts
<1>2. PICK m \in DOMAIN files : m = Min(DOMAIN files) /\ \A i \in DOMAIN files : m <= i
  <2>1. DOMAIN files \subseteq Nat /\ DOMAIN files # {}
    BY <1>1
  <2> QED BY <2>1, MinFacts
<1>3. Retired = 0 <=> m = 0
  BY <1>1, <1>2 DEF Retired
<1>4. m = 0 <=> 0 \in DOMAIN files
  BY <1>1, <1>2
<1>5. 1 \in 1..Len(manifest) /\ manifest[1].file = 0 /\ manifest[1].first = 0 /\ manifest[1].prev = 0
  BY <1>1
<1>6. ASSUME Complete(files, manifest) PROVE 0 \in DOMAIN files
  <2>1. manifest[1] \in Range(manifest)
    BY <1>1, <1>5 DEF Range
  <2> QED BY <1>5, <1>6, <2>1 DEF Complete
<1>7. ASSUME 0 \in DOMAIN files PROVE Complete(files, manifest)
  <2>1. ASSUME NEW e \in Range(manifest) PROVE e.file \in DOMAIN files
    <3>1. PICK k \in 1..Len(manifest) : e = manifest[k]
      BY <1>1 DEF Range
    <3>2. Len(manifest) = Newest \/ Len(manifest) = Newest + 1
      BY DEF DiskInv, ManifestInv, Cutting
    <3>3. e.file \in 0..Newest
      BY <1>1, <3>1, <3>2
    <3> QED BY <1>1, <1>7, <3>3 DEF DiskInv, FilesInv
  <2>2. Consistent(files, manifest)
    BY SetIsConsistent
  <2> QED BY <1>5, <2>1, <2>2 DEF Complete, Genesis, Findable
<1> QED BY <1>3, <1>4, <1>6, <1>7

\* A sequence without its k-th member.
LEMMA RemovedOne ==
    ASSUME NEW T, NEW s \in Seq(T), NEW k \in 1..Len(s)
    PROVE  /\ Len(RemoveAt(s, k)) = Len(s) - 1
           /\ \A j \in 1..(Len(s) - 1) : RemoveAt(s, k)[j] = IF j < k THEN s[j] ELSE s[j + 1]
<1>1. Len(s) \in Nat /\ k \in Nat /\ k >= 1 /\ k <= Len(s) /\ \A j \in 1..Len(s) : s[j] \in T
  BY ElementOfSeq
<1> DEFINE l == Len(s)
           f == SubSeq(s, 1, k - 1)
           g == SubSeq(s, k + 1, l)
<1>2. f \in Seq(T) /\ Len(f) = k - 1 /\ \A j \in 1..(k - 1) : f[j] = s[j]
  <2>1. k - 1 \in 0..Len(s)
    BY <1>1
  <2>2. PICK m \in 0..Len(s) : m = k - 1
    BY <2>1
  <2>3. /\ SubSeq(s, 1, m) \in Seq(T) /\ Len(SubSeq(s, 1, m)) = m
        /\ \A j \in 1..m : SubSeq(s, 1, m)[j] = s[j]
    BY PrefixFacts
  <2> QED BY <2>2, <2>3
<1>3. g \in Seq(T) /\ Len(g) = l - k /\ \A j \in 1..(l - k) : g[j] = s[k + j]
  <2>1. \A j \in (k + 1)..l : s[j] \in T
    BY <1>1
  <2>2. k + 1 \in Int /\ l \in Int
    BY <1>1
  <2>3. /\ SubSeq(s, k + 1, l) \in Seq(T)
        /\ Len(SubSeq(s, k + 1, l)) = IF k + 1 <= l THEN l - (k + 1) + 1 ELSE 0
        /\ \A j \in 1..(l - (k + 1) + 1) : SubSeq(s, k + 1, l)[j] = s[(k + 1) + j - 1]
    BY <2>1, <2>2, SubSeqProperties
  <2>4. l - (k + 1) + 1 = l - k /\ (k + 1 <= l \/ l - k = 0)
    BY <1>1
  <2>5. \A j \in 1..(l - k) : (k + 1) + j - 1 = k + j
    BY <1>1
  <2> HIDE DEF g
  <2>6. Len(g) = l - k
    BY <2>3, <2>4 DEF g
  <2>7. \A j \in 1..(l - k) : g[j] = s[k + j]
    BY <2>3, <2>4, <2>5 DEF g
  <2> QED BY <2>3, <2>6, <2>7 DEF g
<1> HIDE DEF f, g
<1>4. /\ Len(f \o g) = Len(f) + Len(g)
      /\ \A j \in 1..(Len(f) + Len(g)) : (f \o g)[j] = IF j <= Len(f) THEN f[j] ELSE g[j - Len(f)]
  BY <1>2, <1>3, ConcatProperties
<1>5. Len(f) + Len(g) = l - 1
  BY <1>1, <1>2, <1>3
<1>6. ASSUME NEW j \in 1..(l - 1) PROVE (f \o g)[j] = IF j < k THEN s[j] ELSE s[j + 1]
  <2>1. (f \o g)[j] = IF j <= k - 1 THEN f[j] ELSE g[j - (k - 1)]
    BY <1>2, <1>4, <1>5
  <2>2. CASE j < k
    <3>1. j \in 1..(k - 1) /\ j <= k - 1
      BY <1>1, <2>2
    <3> QED BY <1>2, <2>1, <2>2, <3>1
  <2>3. CASE ~(j < k)
    <3>1. j - (k - 1) \in 1..(l - k) /\ ~(j <= k - 1) /\ k + (j - (k - 1)) = j + 1
      BY <1>1, <2>3
    <3>2. g[j - (k - 1)] = s[j + 1]
      BY <1>3, <3>1
    <3> QED BY <2>1, <2>3, <3>1, <3>2
  <2> QED BY <2>2, <2>3
<1>7. RemoveAt(s, k) = f \o g
  BY DEF RemoveAt, f, g
<1> QED BY <1>4, <1>5, <1>6, <1>7

\* A record that is missing shows, but for the first and the last of the segment
\* that is being written.
LEMMA RemovalShows ==
    ASSUME PalaTypeOK, DiskInv, Findable, NEW i \in DOMAIN files, NEW k \in 1..Len(files[i]),
           Consistent(Without(i, k), manifest)
    PROVE  i \in LiveTail(files, manifest) /\ k \in {1, Len(files[i])}
<1>0. ChainInv
  BY DEF DiskInv
<1>1. /\ Len(manifest) \in Nat /\ Len(manifest) >= 1 /\ DOMAIN manifest = 1..Len(manifest)
      /\ Last(manifest) = manifest[Len(manifest)]
      /\ Newest \in DOMAIN files /\ Newest \in Nat
      /\ \A j \in DOMAIN files : j \in Nat /\ j <= Newest
      /\ \A l \in 1..Len(manifest) :
            /\ manifest[l].file = l - 1
            /\ manifest[l].head = manifest[l].last + 1
            /\ manifest[l].last \in Nat
            /\ l \in DOMAIN files => Begin(l) = manifest[l].last + 1
  BY SetFacts
<1>2. PICK a, b : a = Begin(i) + 1 /\ b = End(i) /\ IsPiece(files[i], a, b)
  BY SetFacts
<1>3. PICK rows \in Seq(Item) : rows = files[i]
  BY <1>2 DEF IsPiece
<1>4. /\ Len(rows) \in Nat /\ Len(rows) >= 1 /\ k \in 1..Len(rows) /\ rows # <<>>
      /\ a \in Nat /\ b \in Nat /\ Len(rows) = b - a + 1
      /\ \A j \in 1..Len(rows) : rows[j].seq = a + j - 2 /\ rows[j].prev = a + j - 2
  <2>1. IsPiece(rows, a, b)
    BY <1>2, <1>3
  <2>2. a \in Nat /\ b \in Nat /\ Len(rows) = b - a + 1
    BY <2>1 DEF IsPiece
  <2>3. /\ rows # <<>> /\ Len(rows) \in Nat /\ Len(rows) >= 1
        /\ \A j \in 1..Len(rows) : rows[j].seq = a + j - 2 /\ rows[j].prev = a + j - 2
    BY <1>0, <2>1, PieceRows
  <2> QED BY <1>3, <2>2, <2>3
<1>5. PICK less : less = RemoveAt(rows, k)
  OBVIOUS
<1>6. /\ Len(less) = Len(rows) - 1
      /\ \A j \in 1..(Len(rows) - 1) : less[j] = IF j < k THEN rows[j] ELSE rows[j + 1]
  BY <1>4, <1>5, RemovedOne
<1>7. DOMAIN Without(i, k) = DOMAIN files /\ Without(i, k)[i] = less
  BY <1>3, <1>5 DEF Without
<1>8. ~ \E l \in 1..Len(manifest) : manifest[l].file = i
  <2> SUFFICES ASSUME NEW l \in 1..Len(manifest), manifest[l].file = i PROVE FALSE
    OBVIOUS
  <2>1. l = i + 1 /\ i \in Nat
    BY <1>1
  <2>2. Begin(i) = manifest[l].first /\ End(i) = manifest[l].last + 1
    BY <2>1, ListedSegment
  <2>3. Len(rows) = manifest[l].last - manifest[l].first + 1
    <3>1. PICK x \in Nat : x = Begin(i)
      BY FileFacts DEF DiskInv
    <3>2. b = manifest[l].last + 1 /\ a = x + 1 /\ x = manifest[l].first /\ manifest[l].last \in Nat
      BY <1>1, <1>2, <2>2, <3>1
    <3>3. PICK y \in Nat : y = manifest[l].last
      BY <3>2
    <3>4. Len(rows) = b - a + 1 /\ b = y + 1 /\ a = x + 1
      BY <1>4, <3>2, <3>3, Zenon
    <3>5. (y + 1) - (x + 1) + 1 = y - x + 1
      OBVIOUS
    <3>6. Len(rows) = y - x + 1
      BY <3>4, <3>5
    <3> QED BY <3>2, <3>3, <3>6
  <2>4. CheckFile(less, manifest[l])
    BY <1>7 DEF Consistent
  <2>5. Len(less) = manifest[l].last - manifest[l].first + 1
    BY <2>4 DEF CheckFile, Matches
  <2> QED BY <1>4, <1>6, <2>3, <2>5
<1>9. \A e \in Range(manifest) : e.file # i
  BY <1>1, <1>8 DEF Range
<1>10. i = Newest /\ Len(manifest) = Newest
  <2>1. Len(manifest) = Newest \/ Len(manifest) = Newest + 1
    BY DEF DiskInv, ManifestInv, Cutting
  <2>2. i \in Nat /\ i <= Newest /\ (i + 1 \in 1..Len(manifest) => manifest[i + 1].file = i)
    BY <1>1
  <2>3. ~(i + 1 \in 1..Len(manifest))
    BY <1>8, <2>2
  <2> QED BY <1>1, <2>1, <2>2, <2>3
<1>11. Begin(i) = Last(manifest).head /\ Begin(i) \in Nat
  <2>1. i \in 1..Len(manifest)
    BY <1>1, <1>10
  <2> QED BY <1>1, <1>10, <2>1
<1>12. rows[1].prev = Last(manifest).head
  <2>1. 1 \in 1..Len(rows) /\ rows[1].prev = a + 1 - 2
    BY <1>4
  <2>2. PICK x \in Nat : x = Begin(i)
    BY <1>11
  <2>3. a = x + 1 /\ (x + 1) + 1 - 2 = x
    BY <1>2, <2>2
  <2> QED BY <1>11, <2>1, <2>2, <2>3
<1>13. i \in LiveTail(files, manifest)
  BY <1>3, <1>4, <1>9, <1>12 DEF LiveTail
<1>14. k \in {1, Len(rows)}
  <2> SUFFICES ASSUME 1 < k, k < Len(rows) PROVE FALSE
    BY <1>4
  <2>1. k \in Nat /\ Len(less) >= k /\ Len(less) >= 2 /\ less # <<>> /\ k \in 2..Len(less)
    <3>1. Len(less) >= k /\ Len(less) >= 2 /\ k \in 2..Len(less) /\ k \in Nat
      BY <1>4, <1>6
    <3>2. less # <<>>
      BY <3>1
    <3> QED BY <3>1, <3>2
  <2>2. less[1] = rows[1] /\ less[k - 1] = rows[k - 1] /\ less[k] = rows[k + 1]
    <3>1. 1 \in 1..(Len(rows) - 1) /\ k - 1 \in 1..(Len(rows) - 1) /\ k \in 1..(Len(rows) - 1)
      BY <1>4, <2>1
    <3> QED BY <1>6, <2>1, <3>1
  <2>3. i \in LiveTail(Without(i, k), manifest)
    BY <1>7, <1>9, <1>12, <2>1, <2>2 DEF LiveTail
  <2>4. ChainOk(less, Last(manifest).head)
    BY <1>7, <2>3 DEF Consistent
  <2>5. less[k].seq = less[k - 1].seq + 1
    BY <2>1, <2>4 DEF ChainOk
  <2>6. k - 1 \in 1..Len(rows) /\ k + 1 \in 1..Len(rows)
    <3>1. PICK m \in Nat : m = Len(rows) /\ k \in Nat /\ k < m
      BY <1>4, <2>1
    <3>2. k - 1 \in 1..m /\ k + 1 \in 1..m
      BY <3>1
    <3> QED BY <3>1, <3>2
  <2>7. rows[k - 1].seq = a + (k - 1) - 2 /\ rows[k + 1].seq = a + (k + 1) - 2
    BY <1>4, <2>6
  <2> QED BY <1>4, <2>1, <2>2, <2>5, <2>7
<1> QED BY <1>3, <1>13, <1>14

\* The piece of a sequence between two of its places.
LEMMA PieceFacts ==
    ASSUME NEW T, NEW s \in Seq(T), NEW a \in Nat, NEW b \in Nat,
           1 <= a, a <= b + 1, b <= Len(s)
    PROVE  /\ SubSeq(s, a, b) \in Seq(T) /\ Len(SubSeq(s, a, b)) = b - a + 1
           /\ \A k \in 1..(b - a + 1) : SubSeq(s, a, b)[k] = s[a + k - 1]
<1>1. \A j \in a..b : s[j] \in T
  <2>1. Len(s) \in Nat /\ \A j \in 1..Len(s) : s[j] \in T
    BY ElementOfSeq
  <2> QED BY <2>1
<1>2. /\ SubSeq(s, a, b) \in Seq(T)
      /\ Len(SubSeq(s, a, b)) = IF a <= b THEN b - a + 1 ELSE 0
      /\ \A j \in 1..(b - a + 1) : SubSeq(s, a, b)[j] = s[a + j - 1]
  <2>1. a \in Int /\ b \in Int
    OBVIOUS
  <2> QED BY <1>1, <2>1, SubSeqProperties
<1>3. a <= b \/ b - a + 1 = 0
  OBVIOUS
<1> DEFINE t == SubSeq(s, a, b)
<1> HIDE DEF t
<1>4. Len(t) = b - a + 1
  BY <1>2, <1>3 DEF t
<1> QED BY <1>2, <1>4 DEF t

\* Two pieces that follow each other are one.
LEMMA PiecesJoin ==
    ASSUME NEW T, NEW s \in Seq(T), NEW a \in Nat, NEW b \in Nat, a <= b, b <= Len(s)
    PROVE  SubSeq(s, 1, a) \o SubSeq(s, a + 1, b) = SubSeq(s, 1, b)
<1> DEFINE f == SubSeq(s, 1, a)
           g == SubSeq(s, a + 1, b)
           h == SubSeq(s, 1, b)
<1>1. f \in Seq(T) /\ Len(f) = a /\ \A k \in 1..a : f[k] = s[k]
  <2>1. a \in 0..Len(s)
    OBVIOUS
  <2> QED BY <2>1, PrefixFacts
<1>2. h \in Seq(T) /\ Len(h) = b /\ \A k \in 1..b : h[k] = s[k]
  <2>1. b \in 0..Len(s)
    OBVIOUS
  <2> QED BY <2>1, PrefixFacts
<1>3. g \in Seq(T) /\ Len(g) = b - a /\ \A k \in 1..(b - a) : g[k] = s[a + k]
  <2>1. PICK c \in Nat : c = a + 1
    OBVIOUS
  <2>2. /\ SubSeq(s, c, b) \in Seq(T) /\ Len(SubSeq(s, c, b)) = b - c + 1
        /\ \A k \in 1..(b - c + 1) : SubSeq(s, c, b)[k] = s[c + k - 1]
    BY <2>1, PieceFacts
  <2>3. b - c + 1 = b - a /\ \A k \in 1..(b - a) : c + k - 1 = a + k
    BY <2>1
  <2>4. g = SubSeq(s, c, b)
    BY <2>1
  <2> HIDE DEF g
  <2> QED BY <2>2, <2>3, <2>4
<1> HIDE DEF f, g, h
<1>4. /\ f \o g \in Seq(T) /\ Len(f \o g) = Len(f) + Len(g)
      /\ \A j \in 1..(Len(f) + Len(g)) : (f \o g)[j] = IF j <= Len(f) THEN f[j] ELSE g[j - Len(f)]
  <2>1. f \in Seq(T) /\ g \in Seq(T)
    BY <1>1, <1>3
  <2> QED BY <2>1, ConcatProperties, Zenon
<1>5. Len(f) + Len(g) = b
  BY <1>1, <1>3
<1>6. ASSUME NEW j \in 1..b PROVE (f \o g)[j] = h[j]
  <2>1. (f \o g)[j] = IF j <= a THEN f[j] ELSE g[j - a]
    BY <1>1, <1>4, <1>5
  <2>2. CASE j <= a
    BY <1>1, <1>2, <2>1, <2>2
  <2>3. CASE ~(j <= a)
    <3>1. j - a \in 1..(b - a) /\ a + (j - a) = j
      BY <2>3
    <3> QED BY <1>2, <1>3, <2>1, <2>3, <3>1
  <2> QED BY <2>2, <2>3
<1>7. f \o g = h
  BY <1>2, <1>4, <1>5, <1>6, SeqEqual
<1> QED BY <1>7 DEF f, g, h

\* g joins up a sequence of m, member by member.
JoinedUp(g, segs, m) == /\ Len(segs) = m /\ g = [i \in 1..m |-> g[i]]
                        /\ g[1] = segs[1] /\ \A i \in 2..m : g[i] = g[i - 1] \o segs[i]

\* That is what FlattenSeq makes of the sequence.
LEMMA FlattenIs ==
    ASSUME NEW m \in Nat \ {0}, NEW segs, NEW g, JoinedUp(g, segs, m)
    PROVE  FlattenSeq(segs) = g[m]
<1>0. /\ Len(segs) = m /\ g = [i \in 1..m |-> g[i]]
      /\ g[1] = segs[1] /\ \A i \in 2..m : g[i] = g[i - 1] \o segs[i]
  BY DEF JoinedUp
<1> DEFINE Joins(f) == f = [i \in 1..m |-> IF i = 1 THEN segs[i] ELSE f[i - 1] \o segs[i]]
<1>1. FlattenSeq(segs) = (CHOOSE f : Joins(f))[m]
  <2>1. Len(segs) = m /\ m # 0
    BY <1>0
  <2> QED BY <2>1 DEF FlattenSeq
<1>2. Joins(g)
  <2>1. \A i \in 1..m : g[i] = IF i = 1 THEN segs[i] ELSE g[i - 1] \o segs[i]
    <3> TAKE i \in 1..m
    <3>1. CASE i = 1
      BY <1>0, <3>1
    <3>2. CASE i # 1
      <4>1. i \in 2..m
        BY <3>2
      <4> QED BY <1>0, <3>2, <4>1
    <3> QED BY <3>1, <3>2
  <2> QED BY <1>0, <2>1
<1>3. ASSUME NEW f, Joins(f) PROVE f[m] = g[m]
  <2> DEFINE D == {i \in 1..m : f[i] # g[i]}
  <2>0. \A i \in 1..m : f[i] = IF i = 1 THEN segs[i] ELSE f[i - 1] \o segs[i]
    BY <1>3
  <2> HIDE DEF Joins
  <2>1. D = {}
    <3> SUFFICES ASSUME D # {} PROVE FALSE
      OBVIOUS
    <3>1. D \subseteq Nat
      OBVIOUS
    <3>2. PICK x \in D : \A y \in D : x <= y
      BY <3>1, LeastNat
    <3>3. x \in 1..m /\ f[x] # g[x]
      BY <3>2
    <3>4. CASE x = 1
      BY <1>0, <2>0, <3>3, <3>4
    <3>5. CASE x # 1
      <4>1. x - 1 \in 1..m /\ ~(x <= x - 1) /\ x \in 2..m
        BY <3>3, <3>5
      <4>2. f[x - 1] = g[x - 1]
        BY <3>2, <4>1
      <4>3. f[x] = f[x - 1] \o segs[x] /\ g[x] = g[x - 1] \o segs[x]
        BY <1>0, <2>0, <3>3, <3>5, <4>1
      <4> QED BY <3>3, <4>2, <4>3
    <3> QED BY <3>4, <3>5
  <2> QED BY <2>1
<1>4. Joins(CHOOSE f : Joins(f))
  BY <1>2
<1> HIDE DEF Joins
<1> QED BY <1>1, <1>3, <1>4

\* Where the pieces end that segment_chain cuts l records into.
PieceEnd(l, n, k) == Min({k * n, l})

\* p pieces follow each other and are all there is.
PieceEndsOf(l, n, p) ==
    /\ p \in Nat \ {0}
    /\ \A k \in 1..p : /\ PieceEnd(l, n, k) \in 1..l
                       /\ (k - 1) * n + 1 <= PieceEnd(l, n, k)
                       /\ k > 1 => PieceEnd(l, n, k - 1) = (k - 1) * n
    /\ PieceEnd(l, n, p) = l

\* ... as many as segment_chain cuts.
LEMMA PieceEnds ==
    ASSUME NEW l \in Nat \ {0}, NEW n \in {1, 2, 3}, NEW p, p = (l + n - 1) \div n
    PROVE  PieceEndsOf(l, n, p)
<1>1. p \in Nat \ {0} /\ p * n >= l /\ (p - 1) * n < l
  <2>1. CASE n = 1
    BY <2>1
  <2>2. CASE n = 2
    BY <2>2
  <2>3. CASE n = 3
    BY <2>3
  <2> QED BY <2>1, <2>2, <2>3
<1>2. ASSUME NEW k \in Nat
      PROVE  PieceEnd(l, n, k) = IF k * n <= l THEN k * n ELSE l
  <2>1. PICK x \in Nat : x = k * n
    OBVIOUS
  <2>2. {x, l} \subseteq Nat /\ {x, l} # {}
    BY <2>1
  <2>3. \A y \in {x, l} : (\A z \in {x, l} : y <= z) => y = Min({x, l})
    BY <2>2, MinFacts
  <2>4. x <= l => x = Min({x, l})
    BY <2>1, <2>3
  <2>5. ~(x <= l) => l = Min({x, l})
    BY <2>1, <2>3
  <2> QED BY <2>1, <2>4, <2>5 DEF PieceEnd
<1>3. ASSUME NEW k \in 1..p
      PROVE  /\ PieceEnd(l, n, k) \in 1..l
             /\ (k - 1) * n + 1 <= PieceEnd(l, n, k)
             /\ k > 1 => PieceEnd(l, n, k - 1) = (k - 1) * n
  <2>1. (k - 1) * n < l /\ k * n >= 1 /\ (k - 1) * n + 1 <= k * n
    <3>1. CASE n = 1
      BY <1>1, <3>1
    <3>2. CASE n = 2
      BY <1>1, <3>2
    <3>3. CASE n = 3
      BY <1>1, <3>3
    <3> QED BY <3>1, <3>2, <3>3
  <2>2. PICK x \in Nat, y \in Nat : x = k * n /\ y = (k - 1) * n
    OBVIOUS
  <2>3. y < l /\ x >= 1 /\ y + 1 <= x
    BY <2>1, <2>2
  <2>4. PieceEnd(l, n, k) = IF x <= l THEN x ELSE l
    BY <1>2, <2>2
  <2>5. k > 1 => PieceEnd(l, n, k - 1) = y
    BY <1>2, <2>2, <2>3
  <2>6. PieceEnd(l, n, k) \in 1..l /\ y + 1 <= PieceEnd(l, n, k)
    BY <2>3, <2>4
  <2> QED BY <2>2, <2>5, <2>6
<1>4. PieceEnd(l, n, p) = l
  <2>1. PieceEnd(l, n, p) = IF p * n <= l THEN p * n ELSE l
    BY <1>1, <1>2
  <2>2. PICK x \in Nat : x = p * n
    BY <1>1
  <2> QED BY <1>1, <2>1, <2>2
<1> QED BY <1>1, <1>3, <1>4 DEF PieceEndsOf

\* segment_chain cuts a chain into a complete set that joins to the chain again.
LEMMA CutIsWhole ==
    ASSUME PalaTypeOK, ChainInv, chain # <<>>, NEW n \in {1, 2, 3}
    PROVE  /\ FlattenSeq(SegmentFiles(chain, n)) = chain
           /\ Complete(SegmentFiles(chain, n), SegmentEntries(chain, n))
<1>1. chain \in Seq(Item) /\ Len(chain) \in Nat \ {0}
  BY ChainFacts DEF PalaTypeOK
<1>2. PICK p : p = (Len(chain) + n - 1) \div n
  OBVIOUS
<1> DEFINE End2(k) == PieceEnd(Len(chain), n, k)
<1>3. /\ p \in Nat \ {0}
      /\ \A k \in 1..p : /\ End2(k) \in 1..Len(chain)
                         /\ (k - 1) * n + 1 <= End2(k)
                         /\ k > 1 => End2(k - 1) = (k - 1) * n
      /\ End2(p) = Len(chain)
  <2>1. PICK l \in Nat \ {0} : l = Len(chain)
    BY <1>1
  <2>2. p = (l + n - 1) \div n
    BY <1>2, <2>1
  <2>3. PieceEndsOf(l, n, p)
    BY <2>2, PieceEnds
  <2> QED BY <2>1, <2>3 DEF PieceEndsOf
<1>4. \A k \in 1..p : Piece(chain, n, k) = SubSeq(chain, (k - 1) * n + 1, End2(k))
  BY DEF Piece, PieceEnd
<1>5. Pieces(chain, n) = p
  BY <1>2 DEF Pieces
<1>6. 1 \in 1..p /\ (1 - 1) * n = 0
  BY <1>3
<1> HIDE DEF End2
<1>7. ASSUME NEW k \in 1..p
      PROVE  /\ (k - 1) * n \in Nat
             /\ IsPiece(Piece(chain, n, k), (k - 1) * n + 1, End2(k))
  <2>1. PICK y \in Nat : y = (k - 1) * n
    BY <1>3
  <2>2. PICK a \in Nat, b \in Nat : a = y + 1 /\ b = End2(k) /\ b <= Len(chain) /\ a <= b /\ 1 <= a
    <3>1. End2(k) \in 1..Len(chain) /\ y + 1 <= End2(k)
      BY <1>3, <2>1
    <3> QED BY <1>1, <3>1
  <2>3. /\ SubSeq(chain, a, b) \in Seq(Item) /\ Len(SubSeq(chain, a, b)) = b - a + 1
        /\ \A j \in 1..(b - a + 1) : SubSeq(chain, a, b)[j] = chain[a + j - 1]
    BY <1>1, <2>2, PieceFacts
  <2>4. IsPiece(SubSeq(chain, a, b), a, b)
    BY <2>2, <2>3 DEF IsPiece
  <2> QED BY <1>4, <2>1, <2>2, <2>4
<1>8. FlattenSeq(SegmentFiles(chain, n)) = chain
  <2> DEFINE g == [k \in 1..p |-> SubSeq(chain, 1, End2(k))]
  <2>1. PICK segs : segs = SegmentFiles(chain, n)
    OBVIOUS
  <2>2. segs = [k \in 1..p |-> Piece(chain, n, k)]
    BY <1>5, <2>1 DEF SegmentFiles
  <2>3. Len(segs) = p
    BY <1>3, <2>2
  <2>4. g[1] = segs[1]
    BY <1>4, <1>6, <2>2
  <2>5. ASSUME NEW k \in 2..p PROVE g[k] = g[k - 1] \o segs[k]
    <3>1. k \in 1..p /\ k - 1 \in 1..p /\ k > 1
      BY <1>3
    <3>2. PICK a \in Nat, b \in Nat :
             /\ a = (k - 1) * n /\ a = End2(k - 1) /\ b = End2(k) /\ a <= b /\ b <= Len(chain)
      <4>1. PICK y \in Nat : y = (k - 1) * n
        BY <1>7, <3>1
      <4>2. y = End2(k - 1) /\ End2(k) \in 1..Len(chain) /\ y + 1 <= End2(k)
        BY <1>3, <3>1, <4>1
      <4> QED BY <1>1, <4>1, <4>2
    <3>3. SubSeq(chain, 1, a) \o SubSeq(chain, a + 1, b) = SubSeq(chain, 1, b)
      BY <1>1, <3>2, PiecesJoin
    <3>4. segs[k] = SubSeq(chain, a + 1, b)
      BY <1>4, <2>2, <3>1, <3>2
    <3> QED BY <3>1, <3>2, <3>3, <3>4
  <2>6. g = [k \in 1..p |-> g[k]]
    OBVIOUS
  <2>7. g[p] = chain
    <3>1. p \in 1..p
      BY <1>3
    <3>2. SubSeq(chain, 1, Len(chain)) = chain
      BY <1>1
    <3> QED BY <1>3, <3>1, <3>2
  <2> HIDE DEF g
  <2>8. FlattenSeq(segs) = g[p]
    <3>1. p \in Nat \ {0}
      BY <1>3
    <3>2. \A k \in 2..p : g[k] = g[k - 1] \o segs[k]
      BY <2>5
    <3>3. JoinedUp(g, segs, p)
      BY <2>3, <2>4, <2>6, <3>2 DEF JoinedUp
    <3> QED BY <3>1, <3>3, FlattenIs
  <2> QED BY <2>1, <2>7, <2>8
<1>9. Complete(SegmentFiles(chain, n), SegmentEntries(chain, n))
  <2>1. PICK segs : segs = SegmentFiles(chain, n)
    OBVIOUS
  <2>2. PICK mf : mf = SegmentEntries(chain, n)
    OBVIOUS
  <2>3. DOMAIN segs = 1..p /\ \A k \in 1..p : segs[k] = Piece(chain, n, k)
    BY <1>5, <2>1 DEF SegmentFiles
  <2>4. \A k \in 1..p :
             /\ mf[k].file = k
             /\ mf[k].first = (k - 1) * n /\ mf[k].last = End2(k) - 1 /\ mf[k].head = End2(k)
             /\ mf[k].prev = (k - 1) * n
    <3> TAKE k \in 1..p
    <3>1. PICK rows : rows = Piece(chain, n, k)
      OBVIOUS
    <3>2. PICK y \in Nat : y = (k - 1) * n
      BY <1>7
    <3>3. IsPiece(rows, y + 1, End2(k))
      BY <1>7, <3>1, <3>2
    <3>4. rows[1].seq = y /\ Last(rows).seq = End2(k) - 1 /\ Last(rows).hash = End2(k)
      BY <3>2, <3>3, PieceTells
    <3>5. (IF k = 1 THEN Genesis ELSE Last(Piece(chain, n, k - 1)).hash) = y
      <4>1. CASE k = 1
        BY <1>6, <3>2, <4>1 DEF Genesis
      <4>2. CASE k # 1
        <5>1. k - 1 \in 1..p /\ k > 1
          BY <1>3, <4>2
        <5>2. PICK a, b : IsPiece(Piece(chain, n, k - 1), a, b) /\ b = End2(k - 1)
          BY <1>7, <5>1
        <5>3. Last(Piece(chain, n, k - 1)).hash = End2(k - 1)
          BY <5>2, PieceTells
        <5>4. End2(k - 1) = y
          BY <1>3, <3>2, <5>1
        <5> QED BY <4>2, <5>3, <5>4
      <4> QED BY <4>1, <4>2
    <3>6. PICK q : q = (IF k = 1 THEN Genesis ELSE Last(Piece(chain, n, k - 1)).hash)
      OBVIOUS
    <3>7. PICK lst : lst = Last(rows)
      OBVIOUS
    <3>8. mf[k] = [file |-> k, first |-> rows[1].seq, last |-> lst.seq, head |-> lst.hash, prev |-> q]
      BY <1>5, <2>2, <3>1, <3>6, <3>7, SMT DEF SegmentEntries
    <3>9. /\ mf[k].file = k /\ mf[k].first = rows[1].seq /\ mf[k].last = lst.seq
          /\ mf[k].head = lst.hash /\ mf[k].prev = q
      BY <3>8, SMT
    <3>10. q = y
      BY <3>5, <3>6
    <3>11. rows[1].seq = y /\ lst.seq = End2(k) - 1 /\ lst.hash = End2(k)
      BY <3>4, <3>7
    <3> QED BY <3>2, <3>9, <3>10, <3>11, SMT
  <2>5. DOMAIN mf = 1..p /\ Len(mf) = p /\ mf # <<>>
    <3>1. DOMAIN mf = 1..p
      BY <1>5, <2>2 DEF SegmentEntries
    <3>2. Len(mf) = p
      BY <1>3, <1>5, <2>2 DEF SegmentEntries
    <3>3. Len(<<>>) = 0
      OBVIOUS
    <3> QED BY <1>3, <3>1, <3>2, <3>3
  <2>6. ASSUME NEW k \in 1..p PROVE SeamOk(mf, k) /\ CheckFile(segs[mf[k].file], mf[k])
    <3>1. PICK y \in Nat : y = (k - 1) * n
      BY <1>7
    <3>2. IsPiece(segs[k], y + 1, End2(k))
      BY <1>7, <2>3, <3>1
    <3>3. PICK e : e = mf[k]
      OBVIOUS
    <3>4. e.prev = (y + 1) - 1 /\ e.first = (y + 1) - 1 /\ e.last = End2(k) - 1 /\ e.head = End2(k)
      BY <2>4, <3>1, <3>3
    <3>5. CheckFile(segs[k], e)
      BY <3>2, <3>4, PieceVerifies
    <3>6. SeamOk(mf, k)
      <4>1. k # 1 => k - 1 \in 1..p /\ k > 1
        BY <1>3
      <4>2. k # 1 => mf[k - 1].head = End2(k - 1) /\ End2(k - 1) = (k - 1) * n
        BY <1>3, <2>4, <4>1
      <4> QED BY <2>4, <4>2 DEF SeamOk
    <3> QED BY <2>4, <3>3, <3>5, <3>6
  <2>7. LiveTail(segs, mf) = {}
    <3> SUFFICES ASSUME NEW i \in LiveTail(segs, mf) PROVE FALSE
      OBVIOUS
    <3>1. i \in 1..p /\ \A e \in Range(mf) : e.file # i
      BY <2>3 DEF LiveTail
    <3>2. mf[i] \in Range(mf) /\ mf[i].file = i
      BY <2>4, <2>5, <3>1 DEF Range
    <3> QED BY <3>1, <3>2
  <2>8. Consistent(segs, mf)
    BY <2>5, <2>6, <2>7 DEF Consistent
  <2>9. \A e \in Range(mf) : e.file \in DOMAIN segs
    BY <2>3, <2>4, <2>5 DEF Range
  <2>10. mf[1].prev = Genesis /\ mf[1].first = 0
    BY <1>6, <2>4 DEF Genesis
  <2> QED BY <2>1, <2>2, <2>5, <2>8, <2>9, <2>10 DEF Complete
<1> QED BY <1>8, <1>9

\* The set is judged as it is, in every state of the invariant.
LEMMA SetIsJudgedHolds == IInv => SetIsJudged
<1> SUFFICES ASSUME IInv, Findable PROVE SetIsJudged
  BY DEF SetIsJudged, Findable
<1>1. PalaTypeOK /\ DiskInv /\ ChainInv
  BY DEF IInv, DiskInv
<1>2. Consistent(files, manifest) /\ (Complete(files, manifest) <=> Retired = 0)
  BY <1>1, SetIsConsistent, SetIsComplete
<1>3. \A i \in DOMAIN files : \A k \in 1..Len(files[i]) :
         \/ ~Consistent(Without(i, k), manifest)
         \/ i \in LiveTail(files, manifest) /\ k \in {1, Len(files[i])}
  BY <1>1, RemovalShows
<1>4. chain # <<>>
  BY <1>1, SetFacts
<1>5. \A n \in 1..3 :
         /\ FlattenSeq(SegmentFiles(chain, n)) = chain
         /\ Complete(SegmentFiles(chain, n), SegmentEntries(chain, n))
  BY <1>1, <1>4, CutIsWhole
<1> QED BY <1>2, <1>3, <1>5 DEF SetIsJudged

\* At every moment of the writers' work, in the middle of a cut and after a crash
\* in it, the set on disk is judged as it is: consistent, complete exactly if
\* nothing was removed, and inconsistent where a record is missing that is told of.
THEOREM SetStaysJudged ==
    ASSUME ~ResumeAny, ~FreshAnyTime
    PROVE  PalaSpec => []SetIsJudged
BY InductiveInvariant, SetIsJudgedHolds, PTL

-----------------------------------------------------------------------------
(* The refinement.                                                          *)

\* What is retired stays what it is while no segment is removed and none
\* appears before the others.
LEMMA RetiredKept ==
    ASSUME PalaTypeOK, DOMAIN files # {}, (DOMAIN files \subseteq Index)',
           DOMAIN files \subseteq DOMAIN files',
           \A i \in DOMAIN files' \ DOMAIN files : \A j \in DOMAIN files : j < i,
           \A j \in DOMAIN files : j # 0 => files'[j][1] = files[j][1]
    PROVE  Retired' = Retired
<1>1. DOMAIN files \subseteq Nat /\ DOMAIN files' \subseteq Nat
  BY BoundsAssumption DEF PalaTypeOK, Index
<1>2. PICK o \in DOMAIN files : o = Min(DOMAIN files)
  BY <1>1, MinFacts
<1>3. \A j \in DOMAIN files : o <= j
  BY <1>1, <1>2, MinFacts
<1>4. \A j \in DOMAIN files' : o <= j
  <2>1. ASSUME NEW j \in DOMAIN files' PROVE o <= j
    <3>1. CASE j \in DOMAIN files
      BY <1>3, <3>1
    <3>2. CASE j \notin DOMAIN files
      <4>1. o < j /\ o \in Nat /\ j \in Nat
        BY <1>1, <3>2
      <4> QED BY <4>1
    <3> QED BY <3>1, <3>2
  <2> QED BY <2>1
<1>5. o \in DOMAIN files' /\ DOMAIN files' # {}
  OBVIOUS
<1>6. o = Min(DOMAIN files')
  BY <1>1, <1>4, <1>5, MinFacts
<1>7. Begin(o)' = Begin(o)
  BY DEF Begin
<1> QED BY <1>2, <1>5, <1>6, <1>7 DEF Retired, Begin

\* A file that is written to at its end keeps its first record.
LEMMA FirstKept ==
    ASSUME PalaTypeOK, DiskInv, NEW m \in DOMAIN files, NEW r \in Item,
           files' = [files EXCEPT ![m] = Append(@, r)]
    PROVE  Retired' = Retired
<1>1. files[m] \in Seq(Item) /\ Len(files[m]) \in Nat
  BY FileFacts DEF DiskInv
<1>2. m # 0 => 1 \in 1..Len(files[m])
  <2>1. m # 0 => Whole(m) > 0 /\ Whole(m) \in 0..Len(files[m])
    BY FileFacts, FirstFacts DEF DiskInv
  <2> QED BY <1>1, <2>1
<1>3. m # 0 => Append(files[m], r)[1] = files[m][1]
  BY <1>1, <1>2, AppendProperties
<1>4. /\ DOMAIN files' = DOMAIN files /\ files'[m] = Append(files[m], r)
      /\ \A j \in DOMAIN files : j # m => files'[j] = files[j]
  OBVIOUS
<1>5. (DOMAIN files \subseteq Index)'
  BY <1>4 DEF PalaTypeOK
<1> QED BY <1>3, <1>4, <1>5, RetiredKept

\* What is retired only changes when a segment is.
LEMMA RetiredOnlyByRetire ==
    ASSUME IInv, ~FreshAnyTime, NEW p \in Proc,
           \/ CheckFresh(p) \/ Start(p) \/ StartRefused(p)
           \/ TakeLock(p) \/ Truncate(p) \/ ResumeRefused(p)
           \/ ClosedRefused(p) \/ Adopt(p)
           \/ Emit(p) \/ CutManifest(p) \/ CutSuccessor(p)
           \/ Close(p) \/ Crash(p)
    PROVE  Retired' = Retired
<1>1. /\ PalaTypeOK /\ DiskInv /\ CoreInv /\ BootInv /\ \A q \in Proc : MemoryInv(q)
  BY DEF IInv, CoreInv
<1>2. ASSUME UNCHANGED files PROVE Retired' = Retired
  BY <1>2 DEF Retired, Begin
<1>3. CASE Start(p)
  <2>1. /\ NoChain
        /\ files' = IF 0 \in DOMAIN files THEN files ELSE Created(0, <<>>)
    BY <1>3 DEF Start
  <2>2. DOMAIN files \subseteq {0}
    BY <1>1, <2>1, NothingYet
  <2>3. DOMAIN files' = {0}
    BY <2>1, <2>2 DEF Created
  <2>4. Min({0}) = 0
    BY MinFacts
  <2>5. Retired' = 0
    BY <2>3, <2>4 DEF Retired, Begin
  <2>6. DOMAIN files = {} \/ DOMAIN files = {0}
    BY <2>2
  <2>7. Retired = 0
    BY <2>4, <2>6 DEF Retired, Begin
  <2> QED BY <2>5, <2>7
<1>4. CASE Truncate(p)
  <2>1. /\ pc[p] = "scan" /\ Scanned(path[p]) # <<>>
        /\ files' = [files EXCEPT ![path[p]] = Scanned(path[p])]
    BY <1>4 DEF Truncate
  <2>2. PICK m \in DOMAIN files : m = path[p]
    BY <1>1, <2>1 DEF MemoryInv
  <2>3. m # 0 => 1 \in 1..Whole(m)
    <3>1. m # 0 => Whole(m) > 0 /\ Whole(m) \in 0..Len(files[m]) /\ Len(files[m]) \in Nat
      BY <1>1, FileFacts, FirstFacts DEF DiskInv
    <3> QED BY <3>1
  <2>4. m # 0 => Scanned(m)[1] = files[m][1]
    BY <1>1, <2>3, FileFacts DEF DiskInv
  <2>5. /\ DOMAIN files' = DOMAIN files /\ files'[m] = Scanned(m)
        /\ \A j \in DOMAIN files : j # m => files'[j] = files[j]
    BY <2>1, <2>2
  <2>6. (DOMAIN files \subseteq Index)'
    BY <1>1, <2>5 DEF PalaTypeOK
  <2> QED BY <1>1, <2>4, <2>5, <2>6, RetiredKept
<1>5. CASE Emit(p)
  <2>1. p \in Writing /\ pc[p] = "ready"
    BY <1>5 DEF Emit, Writing
  <2>2. PICK m \in DOMAIN files : m = path[p]
    BY <1>1, <2>1 DEF MemoryInv
  <2>3. \E kind \in Allowed(p) :
          \E span \in IF kind \in {"START", "END"} THEN Span ELSE {Null} :
             files' = [files EXCEPT ![path[p]] = Append(@, Record(p, kind, span))]
    BY <1>5 DEF Emit
  <2>4. PICK kind \in Allowed(p) :
          \E span \in IF kind \in {"START", "END"} THEN Span ELSE {Null} :
             files' = [files EXCEPT ![path[p]] = Append(@, Record(p, kind, span))]
    BY <2>3
  <2>5. PICK span \in IF kind \in {"START", "END"} THEN Span ELSE {Null} :
             files' = [files EXCEPT ![path[p]] = Append(@, Record(p, kind, span))]
    BY <2>4
  <2>6. Record(p, kind, span) \in Item
    BY <1>1, <2>1, EmittedNext DEF NextRecord
  <2> QED BY <1>1, <2>2, <2>5, <2>6, FirstKept
<1>6. CASE CutSuccessor(p)
  <2>1. /\ pc[p] = "successor" /\ p \in Writing /\ counts["records"] < MaxRecords
        /\ files' = Created(NextSegment(p), <<Continuing(p)>>)
    BY <1>6 DEF CutSuccessor, Continuing, Writing
  <2>2. PICK m \in DOMAIN files : m = Newest
    BY <1>1, <2>1 DEF MemoryInv
  <2>3. /\ path[p] = m /\ Cutting /\ entries[p] = manifest /\ opened[p].ordinal = m
    BY <1>1, <2>1, <2>2 DEF MemoryInv
  <2>4. NextSegment(p) = m + 1 /\ m + 1 \notin DOMAIN files
    BY <1>1, <2>1, <2>2, <2>3, NextName
  <2>5. m < MaxRecords
    BY <1>1, <2>1, <2>2, Continuation
  <2>6. m \in Nat /\ \A i \in DOMAIN files : i \in Nat /\ i <= m
    BY <1>1, <2>2, NewestFacts DEF PalaTypeOK
  <2>7. /\ DOMAIN files' = DOMAIN files \cup {m + 1}
        /\ \A j \in DOMAIN files : files'[j] = files[j]
    BY <2>1, <2>4 DEF Created
  <2>8. m + 1 \in Index /\ \A j \in DOMAIN files : j < m + 1
    BY <2>5, <2>6, BoundsAssumption DEF Index
  <2>9. (DOMAIN files \subseteq Index)'
    BY <1>1, <2>7, <2>8 DEF PalaTypeOK
  <2> QED BY <1>1, <2>7, <2>8, <2>9, RetiredKept
<1>7. CASE Crash(p)
  <2>1. CASE UNCHANGED files
    BY <1>2, <2>1
  <2>2. CASE pc[p] = "ready" /\ files' = [files EXCEPT ![path[p]] = Append(@, Torn)]
    <3>1. p \in Writing
      BY <2>2 DEF Writing
    <3>2. PICK m \in DOMAIN files : m = path[p]
      BY <1>1, <3>1 DEF MemoryInv
    <3>3. Torn \in Item
      <4>1. <<>> \in Seq(Nat)
        BY EmptySeq
      <4> QED BY <4>1 DEF Torn, Item, Genesis
    <3> QED BY <1>1, <2>2, <3>2, <3>3, FirstKept
  <2> QED BY <1>7, <2>1, <2>2 DEF Crash
<1>8. CASE \/ CheckFresh(p) \/ StartRefused(p) \/ TakeLock(p) \/ ResumeRefused(p)
           \/ ClosedRefused(p) \/ Adopt(p) \/ CutManifest(p) \/ Close(p)
  <2>1. UNCHANGED files
    BY <1>8 DEF CheckFresh, StartRefused, TakeLock, ResumeRefused, ClosedRefused, Adopt,
       CutManifest, Close, diskVars
  <2> QED BY <1>2, <2>1
<1> QED BY <1>3, <1>4, <1>5, <1>6, <1>7, <1>8

\* Removing the oldest segment moves the mark to where the next one begins.
LEMMA RetireAdvances ==
    ASSUME IInv, Retire
    PROVE  Abstract!Advance
<1>1. PalaTypeOK /\ DiskInv /\ ChainInv /\ FilesInv
  BY DEF IInv, DiskInv
<1>2. PICK o \in DOMAIN files :
           /\ \A j \in DOMAIN files : o <= j
           /\ o # Newest
           /\ files' = [j \in DOMAIN files \ {o} |-> files[j]]
           /\ UNCHANGED <<manifest, chain, counts>>
  BY DEF Retire
<1>3. DOMAIN files \subseteq Nat /\ o \in Nat
  BY <1>1, BoundsAssumption DEF PalaTypeOK, Index
<1>4. PICK m \in DOMAIN files : m = o + 1 /\ Begin(m) = Begin(o) + Whole(o)
  BY <1>1, <1>2, SegmentHolds
<1>5. Whole(o) > 0 /\ Whole(m) > 0
  BY <1>1, <1>2, <1>3, <1>4, FirstFacts
<1>6. /\ Begin(o) \in Nat /\ Begin(m) \in Nat /\ Whole(o) \in Nat /\ Whole(m) \in Nat
      /\ Len(chain) \in Nat
  BY <1>1, FileFacts, ChainFacts
<1>7. Begin(m) + 1 \in 1..Len(chain)
  <2>1. 1 \in 1..Whole(m)
    BY <1>5, <1>6
  <2> QED BY <1>1, <2>1, FileFacts
<1>8. o = Min(DOMAIN files)
  BY <1>2, <1>3, MinFacts
<1>9. Retired = Begin(o)
  BY <1>8 DEF Retired
<1>10. DOMAIN files' = DOMAIN files \ {o} /\ files'[m] = files[m] /\ m \in DOMAIN files'
  BY <1>2, <1>3, <1>4
<1>11. \A j \in DOMAIN files' : m <= j
  BY <1>2, <1>3, <1>4, <1>10
<1>12. m = Min(DOMAIN files') /\ DOMAIN files' # {}
  <2>1. DOMAIN files' \subseteq Nat /\ DOMAIN files' # {}
    BY <1>3, <1>10
  <2> QED BY <1>10, <1>11, <2>1, MinFacts
<1>13. Retired' = Begin(m)
  BY <1>10, <1>12 DEF Retired, Begin
<1> QED BY <1>2, <1>4, <1>5, <1>6, <1>7, <1>9, <1>13 DEF Abstract!Advance

\* A record that is written is added to the log.
LEMMA WritesExtend ==
    ASSUME IInv, IInv', NEW p \in Proc, NEW r, Writes(p, r), Retired' = Retired
    PROVE  Abstract!Extend
<1>1. PalaTypeOK /\ ChainInv /\ PalaTypeOK' /\ ChainInv'
  BY DEF IInv, DiskInv
<1>2. /\ NextRecord(r) /\ chain' = Append(chain, r)
      /\ counts' = [counts EXCEPT !["records"] = @ + 1]
  BY DEF Writes
<1>3. /\ Len(chain') = Len(chain) + 1 /\ Len(chain) \in Nat
      /\ \A k \in 1..Len(chain) : chain'[k] = chain[k]
  BY <1>1, <1>2, ChainExtended, ChainFacts
<1>4. SubSeq(chain', 1, Len(chain)) = chain
  <2>1. chain \in Seq(Item) /\ chain' \in Seq(Item)
    BY <1>1 DEF PalaTypeOK
  <2> DEFINE s == SubSeq(chain', 1, Len(chain))
  <2>2. Len(chain) \in 0..Len(chain')
    BY <1>3
  <2>3. s \in Seq(Item) /\ Len(s) = Len(chain) /\ \A k \in 1..Len(chain) : s[k] = chain'[k]
    BY <2>1, <2>2, PrefixFacts
  <2> HIDE DEF s
  <2>4. s = chain
    BY <1>3, <2>1, <2>3, SeqEqual
  <2> QED BY <2>4 DEF s
<1>5. Linear(chain)'
  BY <1>1, ChainIsLinear, PTL
<1>6. Abstract!Linear(chain')
  BY <1>5 DEF Linear, HashBefore, Genesis, Abstract!Linear, Abstract!HashBefore,
              Abstract!Genesis
<1> QED BY <1>3, <1>4, <1>6 DEF Abstract!Extend

LEMMA StepRefines ==
    ASSUME ~ResumeAny, ~FreshAnyTime, IInv, IInv', [PalaNext]_palaVars
    PROVE  [Abstract!Next]_<<chain, Retired>>
<1>1. CoreInv /\ BootInv
  BY DEF IInv, CoreInv
<1>2. CASE Retire
  BY <1>2, RetireAdvances DEF Abstract!Next
<1>3. CASE UNCHANGED palaVars
  BY <1>3 DEF palaVars, diskVars, Retired, Begin
<1>4. ASSUME NEW q \in Proc,
             \/ CheckFresh(q) \/ Start(q) \/ StartRefused(q)
             \/ TakeLock(q) \/ Truncate(q) \/ ResumeRefused(q)
             \/ ClosedRefused(q) \/ Adopt(q)
             \/ Emit(q) \/ CutManifest(q) \/ CutSuccessor(q)
             \/ Close(q) \/ Crash(q)
      PROVE  [Abstract!Next]_<<chain, Retired>>
  <2>1. Retired' = Retired
    BY <1>4, RetiredOnlyByRetire
  <2>2. CASE Quiet
    BY <2>1, <2>2 DEF Quiet
  <2>3. ASSUME NEW p \in Proc, Opens(p) PROVE [Abstract!Next]_<<chain, Retired>>
    BY <2>1, <2>3 DEF Opens
  <2>4. ASSUME NEW p \in Proc, NEW r, Writes(p, r)
        PROVE  [Abstract!Next]_<<chain, Retired>>
    BY <2>1, <2>4, WritesExtend DEF Abstract!Next
  <2> QED BY <1>1, <2>2, <2>3, <2>4, StepKinds
<1> QED BY <1>2, <1>3, <1>4 DEF PalaNext

\* The segments of a chain, with their writers, crashes, cuts and removals,
\* implement one log that only grows at its end and only loses its beginning.
THEOREM Refinement ==
    ASSUME ~ResumeAny, ~FreshAnyTime
    PROVE  PalaSpec => ImplementsAppendOnlyLog
<1>1. PalaInit => Abstract!Init
  BY DEF PalaInit, Abstract!Init, Retired
<1>2. IInv /\ IInv' /\ [PalaNext]_palaVars => [Abstract!Next]_<<chain, Retired>>
  BY StepRefines
<1> QED BY <1>1, <1>2, InductiveInvariant, PTL
        DEF PalaSpec, ImplementsAppendOnlyLog, Abstract!Spec
=============================================================================
