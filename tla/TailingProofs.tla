--------------------------- MODULE TailingProofs ----------------------------
(***************************************************************************)
(* Proofs about Tailing, for records of any number of units, any torn      *)
(* grace and any bounds: what the reader emits is what the file holds,     *)
(* whatever crashes and truncations come between a poll's size and its     *)
(* read.  First runs of units and the records they hold, then the          *)
(* invariant, then one lemma for each step that it is kept.                *)
(***************************************************************************)
EXTENDS Tailing, SequenceTheorems, WellFoundedInduction, TLAPS

-----------------------------------------------------------------------------
(* Records and units.                                                       *)

\* A set of numbers that is not empty has a least one.
LEMMA LeastNat ==
    ASSUME NEW S, S \subseteq Nat, S # {}
    PROVE  \E x \in S : \A y \in S : x <= y
<1> DEFINE Less == {ss \in Nat \X Nat : ss[1] < ss[2]}
<1>1. IsWellFoundedOn(Less, Nat)
  BY NatLessThanWellFounded DEF OpToRel
<1> HIDE DEF Less
<1>2. \E x \in S : \A y \in S : ~(<<y, x>> \in Less)
  BY <1>1, WFMin
<1>3. PICK x \in S : \A y \in S : ~(<<y, x>> \in Less)
  BY <1>2
<1>4. \A y \in S : ~(y < x)
  BY <1>3 DEF Less
<1> QED BY <1>4

\* A number of records is a number of units.
LEMMA Times ==
    ASSUME NEW u \in Nat, NEW a \in Nat
    PROVE  /\ a * u \in Nat /\ (a + 1) * u = a * u + u /\ 0 * u = 0
           /\ a # 0 => (a - 1) * u + u = a * u
           /\ u * a = a * u
OBVIOUS

\* More records are more units.
LEMMA TimesMonotone ==
    ASSUME NEW u \in Nat, NEW a \in Nat, NEW b \in Nat
    PROVE  /\ a <= b => a * u <= b * u
           /\ a < b => a * u + u <= b * u
           /\ (a + b) * u = a * u + b * u
<1>1. (a + b) * u = a * u + b * u
  OBVIOUS
<1>2. ASSUME a <= b PROVE a * u <= b * u
  <2>1. PICK c \in Nat : b = a + c
    <3>1. b - a \in Nat /\ b = a + (b - a)
      BY <1>2
    <3> QED BY <3>1
  <2>2. (a + c) * u = a * u + c * u /\ c * u \in Nat /\ a * u \in Nat
    OBVIOUS
  <2> QED BY <2>1, <2>2
<1>3. ASSUME a < b PROVE a * u + u <= b * u
  <2>1. PICK c \in Nat : b = (a + 1) + c
    <3>1. b - (a + 1) \in Nat /\ b = (a + 1) + (b - (a + 1))
      BY <1>3
    <3> QED BY <3>1
  <2>2. ((a + 1) + c) * u = (a + 1) * u + c * u /\ c * u \in Nat /\ (a + 1) * u = a * u + u /\ a * u \in Nat
    OBVIOUS
  <2> QED BY <2>1, <2>2
<1> QED BY <1>1, <1>2, <1>3

\* How many whole records there are in a number of units.
LEMMA WholeOnes ==
    ASSUME NEW u \in Nat \ {0}, NEW n \in Nat
    PROVE  n \div u \in Nat /\ (n \div u) * u <= n /\ n < (n \div u) * u + u
OBVIOUS

-----------------------------------------------------------------------------
(* The records of a run of units.                                           *)

TailRecs == [type : {"GENESIS", "BOOT", "RECOVERY", "EVENT"}, boot : Nat, seq : Nat,
             prev : Nat \X Int, ref : Nat \X Int, rot : BOOLEAN]
UnitSet == [rec : TailRecs, nth : Nat]

\* k units and fewer than one more record's are what n records begin with.
Holds(k, n) == n \in Nat /\ n * Units <= k /\ k < n * Units + Units

\* Each unit stands in its place.
Aligned(run) ==
    \A q \in Nat : \A r \in 1..Units :
        q * Units + r <= Len(run) =>
            run[q * Units + r] = [rec |-> run[q * Units + 1].rec, nth |-> r]

\* A number of units holds one number of records.
LEMMA HoldsOne ==
    ASSUME NEW k \in Nat, NEW n, NEW m, Holds(k, n), Holds(k, m)
    PROVE  n = m
<1>1. Units \in Nat /\ n \in Nat /\ m \in Nat
  BY UnitsAssumption DEF Holds
<1>2. ~(n < m)
  <2> SUFFICES ASSUME n < m PROVE FALSE
    OBVIOUS
  <2>1. n * Units + Units <= m * Units
    BY <1>1, TimesMonotone
  <2>2. n * Units \in Nat /\ m * Units \in Nat
    BY <1>1, Times
  <2> QED BY <1>1, <2>1, <2>2 DEF Holds
<1>3. ~(m < n)
  <2> SUFFICES ASSUME m < n PROVE FALSE
    OBVIOUS
  <2>1. m * Units + Units <= n * Units
    BY <1>1, TimesMonotone
  <2>2. n * Units \in Nat /\ m * Units \in Nat
    BY <1>1, Times
  <2> QED BY <1>1, <2>1, <2>2 DEF Holds
<1> QED BY <1>1, <1>2, <1>3

\* What the parse of a run returns: the records up to the first that does not parse.
LEMMA ParsedFacts ==
    ASSUME NEW run \in Seq(UnitSet)
    PROVE  /\ Parsed(run) \in Nat /\ Parsed(run) * Units <= Len(run)
           /\ \A k \in Nat : k < Parsed(run) => Parses(run, k * Units)
           /\ ~Parses(run, Parsed(run) * Units)
<1> DEFINE ends == {n \in 0..(Len(run) \div Units) : ~Parses(run, n * Units)}
<1>1. PICK u \in Nat, n \in Nat, d \in Nat :
        u = Units /\ u # 0 /\ n = Len(run) /\ d = Len(run) \div Units
  <2>1. Len(run) \in Nat /\ Units \in Nat \ {0}
    BY UnitsAssumption, LenProperties
  <2> QED BY <2>1, WholeOnes
<1>2. d * u <= n /\ n < d * u + u
  BY <1>1, WholeOnes
<1>3. d \in ends
  <2>1. ~(d * u + u <= n)
    <3>1. d * u \in Nat
      BY Times
    <3> QED BY <1>2, <3>1
  <2> QED BY <1>1, <2>1 DEF Parses
<1>4. ends \subseteq Nat
  BY <1>1
<1>5. \E e \in ends : \A k \in ends : e <= k
  BY <1>3, <1>4, LeastNat
<1>6. Parsed(run) = CHOOSE e \in ends : \A k \in ends : e <= k
  BY DEF Parsed
<1>7. PICK e : e = Parsed(run)
  OBVIOUS
<1>8. e \in ends /\ \A k \in ends : e <= k
  BY <1>5, <1>6, <1>7
<1>9. e \in 0..d /\ ~Parses(run, e * Units)
  BY <1>1, <1>8
<1>10. e * u <= n
  <2>1. e \in Nat /\ e <= d /\ e * u \in Nat /\ d * u \in Nat
    BY <1>9, Times
  <2>2. e * u <= d * u
    BY <2>1, TimesMonotone
  <2> QED BY <1>2, <2>1, <2>2
<1>11. ASSUME NEW k \in Nat, k < e PROVE Parses(run, k * Units)
  <2>1. k \in 0..d /\ ~(e <= k)
    BY <1>9, <1>11
  <2> QED BY <1>1, <1>8, <2>1
<1> QED BY <1>1, <1>7, <1>9, <1>10, <1>11

\* The records are records.
LEMMA RecordsOfFacts ==
    ASSUME NEW run \in Seq(UnitSet)
    PROVE  /\ RecordsOf(run) \in Seq(TailRecs) /\ Len(RecordsOf(run)) = Parsed(run)
           /\ \A k \in 1..Parsed(run) : RecordsOf(run)[k] = run[k * Units].rec
<1>1. PICK p \in Nat, u \in Nat, n \in Nat : p = Parsed(run) /\ u = Units /\ u # 0 /\ n = Len(run)
  <2>1. Len(run) \in Nat /\ Units \in Nat \ {0}
    BY UnitsAssumption, LenProperties
  <2> QED BY <2>1, ParsedFacts
<1>2. p * u <= n
  BY <1>1, ParsedFacts
<1>3. ASSUME NEW k \in 1..p PROVE run[k * u].rec \in TailRecs
  <2>1. k * u <= p * u /\ k * u \in Nat /\ p * u \in Nat /\ k * u # 0
    <3>1. k \in Nat /\ k <= p /\ k # 0
      OBVIOUS
    <3>2. k - 1 \in Nat /\ (k - 1) * u \in Nat /\ (k - 1) * u + u = k * u
      BY <3>1, Times
    <3> QED BY <1>1, <3>1, <3>2, Times, TimesMonotone
  <2>2. k * u \in 1..n
    BY <1>2, <2>1
  <2>3. run[k * u] \in UnitSet
    BY <1>1, <2>2, ElementOfSeq
  <2> QED BY <2>3 DEF UnitSet
<1>4. PICK recs : recs = RecordsOf(run)
  OBVIOUS
<1>5. recs = [k \in 1..p |-> run[k * u].rec]
  BY <1>1, <1>4 DEF RecordsOf
<1>6. recs \in [1..p -> TailRecs]
  BY <1>3, <1>5
<1>7. recs \in Seq(TailRecs)
  BY <1>6, SeqDef
<1>8. Len(recs) = p
  <2>1. DOMAIN recs = 1..p
    BY <1>5
  <2> QED BY <1>7, <2>1, LenProperties
<1> QED BY <1>1, <1>4, <1>5, <1>7, <1>8

\* When each unit stands in its place, all whole records parse.
LEMMA AlignedFacts ==
    ASSUME NEW run \in Seq(UnitSet), Aligned(run)
    PROVE  /\ Holds(Len(run), Parsed(run))
           /\ \A n : Holds(Len(run), n) => n = Parsed(run)
           /\ \A k \in 1..Parsed(run) : RecordsOf(run)[k] = run[(k - 1) * Units + 1].rec
<1>1. PICK p \in Nat, u \in Nat, n \in Nat :
        p = Parsed(run) /\ u = Units /\ u # 0 /\ u # 1 /\ n = Len(run)
  <2>1. Len(run) \in Nat /\ Units \in Nat \ {0, 1}
    BY UnitsAssumption, LenProperties
  <2> QED BY <2>1, ParsedFacts
<1>2. p * u <= n /\ ~Parses(run, p * u)
  BY <1>1, ParsedFacts
<1>3. p * u \in Nat
  BY Times
<1>4. \A q \in Nat : \A r \in 1..u :
        q * u + r <= n => run[q * u + r] = [rec |-> run[q * u + 1].rec, nth |-> r]
  BY <1>1 DEF Aligned
<1>5. n < p * u + u
  <2> SUFFICES ASSUME ~(n < p * u + u) PROVE FALSE
    OBVIOUS
  <2>1. p * u + u <= n
    BY <1>3
  <2>2. ASSUME NEW k \in 1..u PROVE run[p * u + k] = [rec |-> run[p * u + 1].rec, nth |-> k]
    <3>1. p * u + k <= n
      BY <1>3, <2>1
    <3> QED BY <1>4, <3>1
  <2> QED BY <1>1, <1>2, <2>1, <2>2 DEF Parses
<1>6. Holds(n, p)
  BY <1>1, <1>2, <1>5 DEF Holds
<1>7. ASSUME NEW k \in 1..p PROVE RecordsOf(run)[k] = run[(k - 1) * u + 1].rec
  <2>1. RecordsOf(run)[k] = run[k * u].rec
    BY <1>1, RecordsOfFacts
  <2>2. k - 1 \in Nat /\ (k - 1) * u + u = k * u /\ k * u <= p * u /\ k * u \in Nat
    BY Times, TimesMonotone
  <2>3. u \in 1..u /\ (k - 1) * u + u <= n
    BY <1>1, <1>2, <1>3, <2>2
  <2>4. run[(k - 1) * u + u] = [rec |-> run[(k - 1) * u + 1].rec, nth |-> u]
    BY <1>4, <2>2, <2>3
  <2> QED BY <2>1, <2>2, <2>4
<1>8. ASSUME NEW m, Holds(n, m) PROVE m = p
  BY <1>6, <1>8, HoldsOne
<1> QED BY <1>1, <1>6, <1>7, <1>8

\* What a unit more makes of a run: it is in its place if it goes on with the
\* record that is begun, or begins one.
LEMMA Lengthens ==
    ASSUME NEW run \in Seq(UnitSet), Aligned(run), NEW x \in UnitSet,
           NEW n, Holds(Len(run), n), NEW r, r = Len(run) - n * Units,
           x.nth = r + 1, r # 0 => x.rec = run[n * Units + 1].rec
    PROVE  /\ Append(run, x) \in Seq(UnitSet) /\ Aligned(Append(run, x))
           /\ r + 1 < Units => RecordsOf(Append(run, x)) = RecordsOf(run)
           /\ ~(r + 1 < Units) => RecordsOf(Append(run, x)) = Append(RecordsOf(run), x.rec)
<1>1. PICK u \in Nat, l \in Nat : u = Units /\ u # 0 /\ u # 1 /\ l = Len(run)
  <2>1. Len(run) \in Nat /\ Units \in Nat \ {0, 1}
    BY UnitsAssumption, LenProperties
  <2> QED BY <2>1
<1>2. n \in Nat /\ n * u \in Nat /\ n * u <= l /\ l < n * u + u /\ r \in 0..(u - 1) /\ l = n * u + r
  <2>1. n \in Nat
    BY DEF Holds
  <2>2. n * u \in Nat
    BY <2>1, Times
  <2> QED BY <1>1, <2>1, <2>2 DEF Holds
<1>3. PICK more : more = Append(run, x)
  OBVIOUS
<1>4. /\ more \in Seq(UnitSet) /\ Len(more) = l + 1 /\ more[l + 1] = x
      /\ \A i \in 1..l : more[i] = run[i]
  BY <1>1, <1>3
<1>5. \A q \in Nat : \A s \in 1..u :
        q * u + s <= l => run[q * u + s] = [rec |-> run[q * u + 1].rec, nth |-> s]
  BY <1>1 DEF Aligned
<1>6. x = [rec |-> x.rec, nth |-> r + 1]
  BY DEF UnitSet
<1>7. ASSUME NEW q \in Nat, NEW s \in 1..u, q * u + s <= l + 1
      PROVE  more[q * u + s] = [rec |-> more[q * u + 1].rec, nth |-> s]
  <2>1. q * u \in Nat
    BY Times
  <2>2. CASE q * u + s <= l
    <3>1. q * u + s \in 1..l /\ q * u + 1 \in 1..l
      BY <2>1, <2>2
    <3> QED BY <1>4, <1>5, <2>2, <3>1
  <2>3. CASE ~(q * u + s <= l)
    <3>1. q * u + s = l + 1
      BY <1>7, <2>1, <2>3
    <3>2. q * u <= l /\ l < q * u + u
      BY <2>1, <3>1
    <3>3. q = n
      BY <1>1, <3>2, HoldsOne DEF Holds
    <3>4. s = r + 1
      BY <1>2, <3>1, <3>3
    <3>5. CASE r = 0
      <4>1. q * u + 1 = l + 1 /\ s = 1
        BY <1>2, <3>3, <3>4, <3>5
      <4>2. more[q * u + s] = x /\ more[q * u + 1] = x
        BY <1>4, <3>1, <4>1
      <4> QED BY <1>6, <3>4, <4>2
    <3>6. CASE r # 0
      <4>1. n * u + 1 \in 1..l
        BY <1>2, <3>6
      <4>2. more[n * u + 1].rec = x.rec
        BY <1>1, <1>4, <3>6, <4>1
      <4> QED BY <1>4, <1>6, <3>1, <3>3, <3>4, <4>2
    <3> QED BY <3>5, <3>6
  <2> QED BY <2>2, <2>3
<1>8. Aligned(more)
  BY <1>1, <1>4, <1>7 DEF Aligned
<1>9. PICK recs, recs1 : recs = RecordsOf(run) /\ recs1 = RecordsOf(more)
  OBVIOUS
<1>10. /\ recs \in Seq(TailRecs) /\ Len(recs) = n
       /\ \A k \in 1..n : recs[k] = run[(k - 1) * u + 1].rec
  BY <1>1, <1>9, RecordsOfFacts, AlignedFacts
<1>11. /\ recs1 \in Seq(TailRecs) /\ Len(recs1) = Parsed(more)
       /\ \A k \in 1..Parsed(more) : recs1[k] = more[(k - 1) * u + 1].rec
  BY <1>1, <1>4, <1>8, <1>9, RecordsOfFacts, AlignedFacts
<1>12. \A k \in 1..n : more[(k - 1) * u + 1].rec = recs[k]
  <2> TAKE k \in 1..n
  <2>1. k - 1 \in Nat /\ (k - 1) * u \in Nat /\ (k - 1) * u + u = k * u /\ k * u <= n * u /\ k * u \in Nat
    BY <1>2, Times, TimesMonotone
  <2>2. (k - 1) * u + 1 \in 1..l
    BY <1>1, <1>2, <2>1
  <2> QED BY <1>4, <1>10, <2>2
<1>13. ASSUME r + 1 < u PROVE recs1 = recs
  <2>1. Holds(l + 1, n)
    BY <1>1, <1>2, <1>13 DEF Holds
  <2>2. Parsed(more) = n
    BY <1>4, <1>8, <2>1, AlignedFacts
  <2>3. Len(recs1) = Len(recs) /\ \A k \in 1..Len(recs1) : recs1[k] = recs[k]
    BY <1>10, <1>11, <1>12, <2>2
  <2> QED BY <1>10, <1>11, <2>3, SeqEqual
<1>14. ASSUME ~(r + 1 < u) PROVE recs1 = Append(recs, x.rec)
  <2>1. r + 1 = u /\ l + 1 = n * u + u
    BY <1>2, <1>14
  <2>2. (n + 1) * u = n * u + u
    BY <1>2, Times
  <2>3. Holds(l + 1, n + 1)
    BY <1>1, <1>2, <2>1, <2>2 DEF Holds
  <2>4. Parsed(more) = n + 1
    BY <1>4, <1>8, <2>3, AlignedFacts
  <2>5. x.rec \in TailRecs
    BY DEF UnitSet
  <2>6. PICK all : all = Append(recs, x.rec)
    OBVIOUS
  <2>7. /\ all \in Seq(TailRecs) /\ Len(all) = n + 1 /\ all[n + 1] = x.rec
        /\ \A k \in 1..n : all[k] = recs[k]
    BY <1>2, <1>10, <2>5, <2>6
  <2>8. recs1[n + 1] = x.rec
    <3>1. r # 0 /\ n * u + 1 \in 1..l /\ n + 1 \in 1..(n + 1) /\ (n + 1) - 1 = n
      BY <1>1, <1>2, <2>1
    <3>2. recs1[n + 1] = more[n * u + 1].rec
      BY <1>11, <2>4, <3>1
    <3> QED BY <1>1, <1>4, <3>1, <3>2
  <2>9. \A k \in 1..(n + 1) : recs1[k] = all[k]
    <3> TAKE k \in 1..(n + 1)
    <3>0. n \in Nat
      BY <1>2
    <3>1. k \in 1..n \/ k = n + 1
      BY <3>0
    <3> QED BY <1>11, <1>12, <2>4, <2>7, <2>8, <3>1
  <2> QED BY <1>11, <2>4, <2>6, <2>7, <2>9, SeqEqual
<1> QED BY <1>1, <1>3, <1>4, <1>8, <1>9, <1>13, <1>14

\* The units behind the a-th, up to the e-th.
Piece(run, a, e) == SubSeq(run, a + 1, e)

\* Where the record behind the c-th begins.
Begins(c, a) == a \in Nat /\ a = c * Units

\* A piece of a run.
LEMMA PieceFacts ==
    ASSUME NEW run \in Seq(UnitSet), NEW a \in Nat, NEW e \in Nat, e <= Len(run)
    PROVE  /\ Piece(run, a, e) \in Seq(UnitSet)
           /\ a <= e => Len(Piece(run, a, e)) = e - a
           /\ a <= e => \A i \in 1..(e - a) : Piece(run, a, e)[i] = run[a + i]
<1>0. PICK b \in Nat : b = a + 1
  OBVIOUS
<1>1. PICK n \in Nat : n = Len(run)
  BY LenProperties
<1>2. PICK s : s = SubSeq(run, b, e) /\ s = Piece(run, a, e)
  BY <1>0 DEF Piece
<1>3. \A i \in b..e : run[i] \in UnitSet
  <2> TAKE i \in b..e
  <2>1. i \in 1..Len(run)
    BY <1>0, <1>1
  <2> QED BY <2>1, ElementOfSeq
<1>4. b \in Int /\ e \in Int
  OBVIOUS
<1>5. /\ s \in Seq(UnitSet) /\ Len(s) = IF b <= e THEN e - b + 1 ELSE 0
      /\ \A i \in 1..(e - b + 1) : s[i] = run[b + i - 1]
  BY <1>0, <1>2, <1>3, <1>4, SubSeqProperties
<1>6. ASSUME a <= e PROVE Len(s) = e - a /\ \A i \in 1..(e - a) : s[i] = run[a + i]
  <2>1. e - b + 1 = e - a /\ (IF b <= e THEN e - b + 1 ELSE 0) = e - a
    BY <1>0, <1>6
  <2>2. \A i \in 1..(e - a) : s[i] = run[a + i]
    <3> TAKE i \in 1..(e - a)
    <3>1. i \in 1..(e - b + 1) /\ b + i - 1 = a + i
      BY <1>0, <2>1
    <3> QED BY <1>5, <3>1
  <2> QED BY <1>5, <2>1, <2>2
<1> QED BY <1>2, <1>5, <1>6

\* One that begins at a record holds the records that follow.
LEMMA PieceAligned ==
    ASSUME NEW run \in Seq(UnitSet), Aligned(run), NEW c \in 0..Parsed(run),
           NEW d \in Nat, Begins(c, d), NEW e \in Nat, d <= e, e <= Len(run)
    PROVE  /\ Piece(run, d, e) \in Seq(UnitSet) /\ Aligned(Piece(run, d, e))
           /\ Len(Piece(run, d, e)) = e - d
           /\ c + Parsed(Piece(run, d, e)) <= Parsed(run)
           /\ \A k \in 1..Parsed(Piece(run, d, e)) :
                 RecordsOf(Piece(run, d, e))[k] = RecordsOf(run)[c + k]
<1>0. PICK piece : piece = Piece(run, d, e)
  OBVIOUS
<1>1. PICK u \in Nat, l \in Nat, p \in Nat :
        u = Units /\ u # 0 /\ l = Len(run) /\ p = Parsed(run) /\ c \in Nat /\ c <= p
  <2>1. Len(run) \in Nat /\ Units \in Nat \ {0, 1}
    BY UnitsAssumption, LenProperties
  <2>2. Parsed(run) \in Nat
    BY ParsedFacts
  <2>3. c \in Nat /\ c <= Parsed(run)
    BY <2>2
  <2> QED BY <2>1, <2>2, <2>3
<1>2. d = c * u
  BY <1>1 DEF Begins
<1>3. /\ piece \in Seq(UnitSet) /\ Len(piece) = e - d
      /\ \A i \in 1..(e - d) : piece[i] = run[d + i]
  <2>1. /\ Piece(run, d, e) \in Seq(UnitSet)
        /\ Len(Piece(run, d, e)) = e - d
        /\ \A i \in 1..(e - d) : Piece(run, d, e)[i] = run[d + i]
    BY PieceFacts
  <2> QED BY <1>0, <2>1
<1>4. \A q \in Nat : \A s \in 1..u :
        q * u + s <= l => run[q * u + s] = [rec |-> run[q * u + 1].rec, nth |-> s]
  BY <1>1 DEF Aligned
<1>5. ASSUME NEW q \in Nat, NEW s \in 1..u, q * u + s <= e - d
      PROVE  piece[q * u + s] = [rec |-> piece[q * u + 1].rec, nth |-> s]
  <2>1. PICK w \in Nat : w = q * u
    BY Times
  <2>2. PICK t \in Nat : t = c + q /\ t * u = d + w
    <3>1. c + q \in Nat /\ (c + q) * u = c * u + q * u
      BY <1>1, TimesMonotone
    <3> QED BY <1>2, <2>1, <3>1
  <2>3. w + s \in 1..(e - d) /\ w + 1 \in 1..(e - d) /\ d + (w + s) <= l
    BY <1>1, <1>2, <1>5, <2>1
  <2>4. piece[w + s] = run[d + (w + s)] /\ piece[w + 1] = run[d + (w + 1)]
    BY <1>3, <2>3
  <2>5. d + (w + s) = t * u + s /\ d + (w + 1) = t * u + 1
    BY <2>2
  <2>6. run[t * u + s] = [rec |-> run[t * u + 1].rec, nth |-> s]
    BY <1>4, <2>2, <2>3, <2>5
  <2> QED BY <2>1, <2>4, <2>5, <2>6
<1>6. Aligned(piece)
  BY <1>1, <1>3, <1>5 DEF Aligned
<1>7. PICK m \in Nat : m = Parsed(piece) /\ m * u <= e - d
  BY <1>1, <1>3, ParsedFacts
<1>8. p * u <= l /\ l < p * u + u /\ p * u \in Nat
  BY <1>1, AlignedFacts, Times DEF Holds
<1>9. c + m <= p
  <2> SUFFICES ASSUME ~(c + m <= p) PROVE FALSE
    OBVIOUS
  <2>1. PICK t \in Nat : t = c + m /\ t * u = d + m * u
    <3>1. c + m \in Nat /\ (c + m) * u = c * u + m * u
      BY <1>1, TimesMonotone
    <3> QED BY <1>2, <3>1
  <2>2. p < t
    BY <1>1, <2>1
  <2>3. p * u + u <= t * u
    BY <2>2, TimesMonotone
  <2>4. m * u \in Nat
    BY Times
  <2>5. t * u <= e
    BY <1>2, <1>7, <2>1, <2>4
  <2> QED BY <1>1, <1>8, <2>1, <2>3, <2>4, <2>5
<1>10. ASSUME NEW k \in 1..m PROVE RecordsOf(piece)[k] = RecordsOf(run)[c + k]
  <2>1. PICK j \in Nat : j = k - 1 /\ j * u \in Nat /\ j * u + u <= m * u /\ m * u \in Nat
    <3>1. k - 1 \in Nat /\ (k - 1) * u + u = k * u /\ k * u <= m * u
      BY Times, TimesMonotone
    <3> QED BY <3>1, Times
  <2>2. PICK t \in Nat : t = c + j /\ t * u = d + j * u
    <3>1. c + j \in Nat /\ (c + j) * u = c * u + j * u
      BY <1>1, TimesMonotone
    <3> QED BY <1>2, <3>1
  <2>3. j * u + 1 \in 1..(e - d) /\ d + (j * u + 1) = t * u + 1
    BY <1>1, <1>2, <1>7, <2>1, <2>2
  <2>4. RecordsOf(piece)[k] = piece[j * u + 1].rec
    BY <1>1, <1>3, <1>6, <1>7, <2>1, AlignedFacts
  <2>5. c + k \in 1..p /\ (c + k) - 1 = t
    BY <1>1, <1>9, <2>1, <2>2
  <2>6. RecordsOf(run)[c + k] = run[t * u + 1].rec
    BY <1>1, <2>5, AlignedFacts
  <2> QED BY <1>3, <2>3, <2>4, <2>6
<1> QED BY <1>0, <1>1, <1>2, <1>3, <1>6, <1>7, <1>9, <1>10

\* The first records of a run, and no more.
LEMMA CutFacts ==
    ASSUME NEW run \in Seq(UnitSet), Aligned(run), NEW m \in 0..Parsed(run),
           NEW d \in Nat, Begins(m, d)
    PROVE  /\ Piece(run, 0, d) \in Seq(UnitSet) /\ Aligned(Piece(run, 0, d))
           /\ Len(Piece(run, 0, d)) = d /\ d <= Len(run) /\ Parsed(Piece(run, 0, d)) = m
           /\ \A k \in 1..m : RecordsOf(Piece(run, 0, d))[k] = RecordsOf(run)[k]
<1>0. PICK cut : cut = Piece(run, 0, d)
  OBVIOUS
<1>1. PICK u \in Nat, l \in Nat, p \in Nat :
        u = Units /\ u # 0 /\ l = Len(run) /\ p = Parsed(run) /\ m \in Nat /\ m <= p /\ p * u <= l
  <2>1. Len(run) \in Nat /\ Units \in Nat \ {0, 1}
    BY UnitsAssumption, LenProperties
  <2> QED BY <2>1, ParsedFacts
<1>2. PICK e \in Nat : e = d /\ e = m * u /\ e <= l
  <2>1. m * u \in Nat /\ m * u <= p * u /\ p * u \in Nat
    BY <1>1, Times, TimesMonotone
  <2> QED BY <1>1, <2>1 DEF Begins
<1>3. PICK c \in Nat, o \in Nat : c = 0 /\ o = 0
  OBVIOUS
<1>4. /\ cut \in Seq(UnitSet) /\ Aligned(cut) /\ Len(cut) = e - o
      /\ \A k \in 1..Parsed(cut) : RecordsOf(cut)[k] = RecordsOf(run)[c + k]
  <2>1. cut = Piece(run, o, e) /\ e <= Len(run)
    BY <1>0, <1>1, <1>2, <1>3
  <2>2. c \in 0..Parsed(run) /\ Begins(c, o) /\ o <= e
    BY <1>1, <1>3, Times DEF Begins
  <2>3. /\ cut \in Seq(UnitSet) /\ Aligned(cut) /\ Len(cut) = e - o
        /\ c + Parsed(cut) <= Parsed(run)
        /\ \A k \in 1..Parsed(cut) : RecordsOf(cut)[k] = RecordsOf(run)[c + k]
    <3>1. PICK some : some = Piece(run, o, e)
      OBVIOUS
    <3>2. /\ some \in Seq(UnitSet) /\ Aligned(some) /\ Len(some) = e - o
          /\ c + Parsed(some) <= Parsed(run)
          /\ \A k \in 1..Parsed(some) : RecordsOf(some)[k] = RecordsOf(run)[c + k]
      BY <2>1, <2>2, <3>1, PieceAligned
    <3> QED BY <2>1, <3>1, <3>2
  <2> QED BY <2>3
<1>5. Len(cut) = e
  BY <1>3, <1>4
<1>6. Parsed(cut) = m
  <2>1. Holds(e, m)
    BY <1>1, <1>2 DEF Holds
  <2> QED BY <1>4, <1>5, <2>1, AlignedFacts
<1>7. \A k \in 1..m : RecordsOf(cut)[k] = RecordsOf(run)[k]
  <2> TAKE k \in 1..m
  <2>1. c + k = k
    BY <1>3
  <2> QED BY <1>4, <1>6, <2>1, Zenon
<1> QED BY <1>0, <1>1, <1>2, <1>4, <1>5, <1>6, <1>7

-----------------------------------------------------------------------------
(* The inductive invariant.                                                 *)

Types == {"GENESIS", "BOOT", "RECOVERY", "EVENT"}

WriterSet == [open : BOOLEAN, boot : 0..MaxBoots, begun : 0..MaxRecords, seq : Nat,
              head : Nat \X Int, todo : Seq(Types)]

\* The file is made of the units of records, in their places, and there is no
\* more of it than was begun.
FileInv == /\ units \in Seq(UnitSet)
           /\ writer \in WriterSet
           /\ Aligned(units)
           /\ Len(units) <= Units * writer.begun
           /\ writer.boot = 0 => units = <<>>

\* The whole records are a chain, and the writer goes on where it ends.
Follows(recs, w) ==
    /\ w.head = HeadHash(recs)
    /\ recs # <<>> => w.seq = Last(recs).seq + 1
    /\ recs = <<>> => w.todo # <<>>
    /\ \A j \in 1..Len(w.todo) : w.todo[j] = "GENESIS" <=> (j = 1 /\ recs = <<>>)

\* The record that the writer is in goes on with the chain, too.
Fitting(r, recs, w) ==
    /\ r.seq = w.seq
    /\ r.prev = w.head
    /\ r.type = "GENESIS" <=> recs = <<>>

ChainInv == /\ ChainOk(RecordsOf(units))
            /\ writer.open => /\ writer.boot # 0
                              /\ Follows(RecordsOf(units), writer)
                              /\ InRecord => Fitting(Last(units).rec, RecordsOf(units), writer)

\* The variables of the reader, whatever befell the file.
ReaderInv == /\ pc \in {"rest", "sized"}
             /\ size \in Nat /\ lastSize \in Nat
             /\ age \in -1..Grace
             /\ diagTorn => age # -1
             /\ awaiting \in BOOLEAN /\ diagTorn \in BOOLEAN
             /\ diagReplaced \in BOOLEAN /\ rolled \in BOOLEAN
             /\ verified \in Seq(TailRecs)
             /\ cursor = Units * Len(verified)

\* What the reader knows of a history that nobody rolled back: its cursor is not
\* behind the size it goes by, and with a first writer the file never shrinks.
HonestInv == ~rolled =>
             /\ IsPrefix(verified, RecordsOf(units))
             /\ ~diagReplaced
             /\ awaiting => writer.boot > 1
             /\ pc = "sized" => cursor <= size
             /\ writer.boot <= 1 =>
                   /\ lastSize <= Len(units)
                   /\ pc = "sized" => lastSize <= size /\ size <= Len(units)

IInv == FileInv /\ ChainInv /\ ReaderInv /\ HonestInv

-----------------------------------------------------------------------------
(* Chains of records.                                                       *)

\* What the verifier's three lists being empty comes to, record by record.
LEMMA ChainLinks ==
    ASSUME NEW recs \in Seq(TailRecs), NEW n \in Nat, n = Len(recs)
    PROVE  ChainOk(recs) <=>
             /\ \A i \in 2..n : /\ recs[i].prev = Hash(recs[i - 1])
                                /\ recs[i].seq = recs[i - 1].seq + 1
             /\ \A i \in 1..n : recs[i].type = "GENESIS" <=> i = 1
             /\ n # 0 => recs[1].prev = Zero32
<1>1. Breaks(recs) = {} <=> \A i \in 2..n : recs[i].prev = Hash(recs[i - 1])
  <2>1. \A i \in 2..n : PrevOf(recs, i) = Hash(recs[i - 1])
    BY DEF PrevOf
  <2> QED BY <2>1 DEF Breaks
<1>2. Gaps(recs) = {} <=> \A i \in 2..n : recs[i].seq = recs[i - 1].seq + 1
  BY DEF Gaps
<1>3. DOMAIN recs = 1..n
  BY LenProperties
<1>4. Violations(recs) = {} <=>
        /\ \A i \in 1..n : (recs[i].type = "GENESIS") = (i = 1)
        /\ n # 0 => recs[1].prev = Zero32
  <2>1. ({1} \cap DOMAIN recs) = IF n = 0 THEN {} ELSE {1}
    BY <1>3
  <2> QED BY <2>1 DEF Violations
<1> QED BY <1>1, <1>2, <1>4 DEF ChainOk

\* A prefix, record by record.
LEMMA PrefixFacts ==
    ASSUME NEW s \in Seq(TailRecs), NEW t \in Seq(TailRecs)
    PROVE  IsPrefix(s, t) <=> Len(s) <= Len(t) /\ \A i \in 1..Len(s) : s[i] = t[i]
<1>1. PICK m \in Nat, n \in Nat : m = Len(s) /\ n = Len(t)
  BY LenProperties
<1>2. SubSeq(s, 1, m) = s
  <2>1. \A i \in 1..m : s[i] \in TailRecs
    BY <1>1, ElementOfSeq
  <2>2. PICK b \in Int : b = 1
    OBVIOUS
  <2>3. /\ SubSeq(s, b, m) \in Seq(TailRecs)
        /\ Len(SubSeq(s, b, m)) = IF b <= m THEN m - b + 1 ELSE 0
        /\ \A i \in 1..(m - b + 1) : SubSeq(s, b, m)[i] = s[b + i - 1]
    BY <2>1, <2>2, SubSeqProperties
  <2>4. PICK c : c = SubSeq(s, b, m)
    OBVIOUS
  <2>5. Len(c) = m /\ \A i \in 1..m : c[i] = s[i]
    BY <2>2, <2>3, <2>4
  <2>6. c = s
    BY <1>1, <2>3, <2>4, <2>5, SeqEqual
  <2> QED BY <2>2, <2>4, <2>6
<1>3. ASSUME m <= n
      PROVE  SubSeq(t, 1, m) = s <=> \A i \in 1..m : s[i] = t[i]
  <2>1. \A i \in 1..m : t[i] \in TailRecs
    BY <1>1, <1>3, ElementOfSeq
  <2>2. PICK b \in Int : b = 1
    OBVIOUS
  <2>3. /\ SubSeq(t, b, m) \in Seq(TailRecs)
        /\ Len(SubSeq(t, b, m)) = IF b <= m THEN m - b + 1 ELSE 0
        /\ \A i \in 1..(m - b + 1) : SubSeq(t, b, m)[i] = t[b + i - 1]
    BY <2>1, <2>2, SubSeqProperties
  <2>4. PICK c : c = SubSeq(t, b, m)
    OBVIOUS
  <2>5. c \in Seq(TailRecs) /\ Len(c) = m /\ \A i \in 1..m : c[i] = t[i]
    BY <2>2, <2>3, <2>4
  <2>6. ASSUME \A i \in 1..m : s[i] = t[i] PROVE c = s
    BY <1>1, <2>5, <2>6, SeqEqual
  <2> QED BY <2>2, <2>4, <2>5, <2>6
<1> QED BY <1>1, <1>2, <1>3 DEF IsPrefix

\* A prefix of a chain is one.
LEMMA ChainPrefix ==
    ASSUME NEW s \in Seq(TailRecs), NEW t \in Seq(TailRecs), IsPrefix(s, t), ChainOk(t)
    PROVE  ChainOk(s)
<1>1. PICK m \in Nat, n \in Nat : m = Len(s) /\ n = Len(t)
  BY LenProperties
<1>2. m <= n /\ \A i \in 1..m : s[i] = t[i]
  BY <1>1, PrefixFacts
<1>3. /\ \A i \in 2..n : /\ t[i].prev = Hash(t[i - 1])
                         /\ t[i].seq = t[i - 1].seq + 1
      /\ \A i \in 1..n : t[i].type = "GENESIS" <=> i = 1
      /\ n # 0 => t[1].prev = Zero32
  BY <1>1, ChainLinks
<1>4. \A i \in 2..m : /\ s[i].prev = Hash(s[i - 1])
                      /\ s[i].seq = s[i - 1].seq + 1
  <2> TAKE i \in 2..m
  <2>1. i \in 2..n /\ i \in 1..m /\ i - 1 \in 1..m
    BY <1>2
  <2> QED BY <1>2, <1>3, <2>1
<1>5. \A i \in 1..m : s[i].type = "GENESIS" <=> i = 1
  BY <1>2, <1>3
<1>6. m # 0 => s[1].prev = Zero32
  BY <1>2, <1>3
<1> QED BY <1>1, <1>4, <1>5, <1>6, ChainLinks

\* What a chain's writer adds where the chain ends leaves it a chain.
LEMMA ChainGrows ==
    ASSUME NEW recs \in Seq(TailRecs), ChainOk(recs), NEW r \in TailRecs,
           NEW w, Follows(recs, w), Fitting(r, recs, w)
    PROVE  ChainOk(Append(recs, r))
<1>1. PICK n \in Nat : n = Len(recs)
  BY LenProperties
<1>2. PICK all : all = Append(recs, r)
  OBVIOUS
<1>3. /\ all \in Seq(TailRecs) /\ Len(all) = n + 1 /\ all[n + 1] = r
      /\ \A i \in 1..n : all[i] = recs[i]
  BY <1>1, <1>2
<1>4. /\ \A i \in 2..n : /\ recs[i].prev = Hash(recs[i - 1])
                         /\ recs[i].seq = recs[i - 1].seq + 1
      /\ \A i \in 1..n : recs[i].type = "GENESIS" <=> i = 1
      /\ n # 0 => recs[1].prev = Zero32
  BY <1>1, ChainLinks
<1>5. /\ recs = <<>> <=> n = 0
      /\ n # 0 => Last(recs) = recs[n]
  <2>1. recs = <<>> <=> n = 0
    BY <1>1, EmptySeq
  <2> QED BY <1>1, <2>1 DEF Last
<1>6. /\ r.prev = IF n = 0 THEN Zero32 ELSE Hash(recs[n])
      /\ n # 0 => r.seq = recs[n].seq + 1
      /\ r.type = "GENESIS" <=> n = 0
  BY <1>5 DEF Follows, Fitting, HeadHash
<1>7. \A i \in 2..(n + 1) : /\ all[i].prev = Hash(all[i - 1])
                            /\ all[i].seq = all[i - 1].seq + 1
  <2> TAKE i \in 2..(n + 1)
  <2>1. CASE i = n + 1
    <3>1. n # 0 /\ i - 1 = n /\ n \in 1..n
      BY <2>1
    <3> QED BY <1>3, <1>6, <2>1, <3>1
  <2>2. CASE i # n + 1
    <3>1. i \in 2..n /\ i \in 1..n /\ i - 1 \in 1..n
      BY <2>2
    <3> QED BY <1>3, <1>4, <3>1
  <2> QED BY <2>1, <2>2
<1>8. \A i \in 1..(n + 1) : all[i].type = "GENESIS" <=> i = 1
  <2> TAKE i \in 1..(n + 1)
  <2>1. CASE i = n + 1
    BY <1>3, <1>6, <2>1
  <2>2. CASE i # n + 1
    <3>1. i \in 1..n
      BY <2>2
    <3> QED BY <1>3, <1>4, <3>1
  <2> QED BY <2>1, <2>2
<1>9. all[1].prev = Zero32
  <2>1. CASE n = 0
    BY <1>3, <1>6, <2>1
  <2>2. CASE n # 0
    <3>1. 1 \in 1..n
      BY <2>2
    <3> QED BY <1>3, <1>4, <2>2, <3>1
  <2> QED BY <2>1, <2>2
<1>10. PICK k \in Nat : k = n + 1
  OBVIOUS
<1>11. Len(all) = k
  BY <1>3, <1>10
<1> QED BY <1>2, <1>3, <1>7, <1>8, <1>9, <1>10, <1>11, ChainLinks

-----------------------------------------------------------------------------
(* The steps of the writer.                                                 *)

\* An empty file has no records.
LEMMA NoUnits ==
    <<>> \in Seq(UnitSet) /\ Aligned(<<>>) /\ Parsed(<<>>) = 0 /\ RecordsOf(<<>>) = <<>>
<1>1. PICK u \in Nat : u = Units /\ u # 0
  BY UnitsAssumption
<1>2. PICK run : run = <<>>
  OBVIOUS
<1>3. run \in Seq(UnitSet) /\ Len(run) = 0
  BY <1>2
<1>4. Aligned(run)
  <2> SUFFICES ASSUME NEW q \in Nat, NEW r \in 1..Units, q * Units + r <= Len(run)
               PROVE  FALSE
    BY DEF Aligned
  <2>1. q * u \in Nat
    BY Times
  <2> QED BY <1>1, <1>3, <2>1
<1>5. Parsed(run) = 0
  <2>1. 0 * u = 0
    BY Times
  <2>2. Holds(0, 0)
    BY <1>1, <2>1 DEF Holds
  <2> QED BY <1>3, <1>4, <2>2, AlignedFacts
<1>6. RecordsOf(run) = <<>>
  <2>1. PICK recs : recs = RecordsOf(run)
    OBVIOUS
  <2>2. recs \in Seq(TailRecs) /\ Len(recs) = 0
    BY <1>3, <1>5, <2>1, RecordsOfFacts
  <2>3. recs = <<>>
    BY <2>2, EmptySeq
  <2> QED BY <2>1, <2>3
<1> QED BY <1>2, <1>3, <1>4, <1>5, <1>6

\* The records of a file whose units are in their places, and the rest of it.
LEMMA StateFacts ==
    ASSUME NEW run \in Seq(UnitSet), Aligned(run)
    PROVE  \E recs \in Seq(TailRecs) : \E p \in Nat : \E l \in Nat : \E d \in Nat : \E r \in Nat :
             /\ recs = RecordsOf(run) /\ p = Parsed(run) /\ p = Len(recs) /\ l = Len(run)
             /\ Begins(p, d) /\ Holds(l, p) /\ l = d + r /\ r < Units
             /\ r = Pending(run)
             /\ r # 0 => Last(run) = [rec |-> run[d + 1].rec, nth |-> r]
<1>1. PICK recs \in Seq(TailRecs) : recs = RecordsOf(run) /\ Len(recs) = Parsed(run)
  BY RecordsOfFacts
<1>2. PICK p \in Nat, l \in Nat, u \in Nat : p = Parsed(run) /\ l = Len(run) /\ u = Units
  <2>1. Len(run) \in Nat /\ Units \in Nat
    BY UnitsAssumption, LenProperties
  <2> QED BY <2>1, ParsedFacts
<1>3. Holds(l, p)
  BY <1>2, AlignedFacts
<1>4. PICK d \in Nat : d = p * u /\ Begins(p, d)
  BY <1>2, Times DEF Begins
<1>5. d <= l /\ l < d + u
  BY <1>2, <1>3, <1>4 DEF Holds
<1>6. PICK r \in Nat : r = l - d /\ l = d + r /\ r < u
  BY <1>5
<1>7. r = Pending(run)
  BY <1>2, <1>4, <1>6 DEF Pending
<1>8. ASSUME r # 0 PROVE Last(run) = [rec |-> run[d + 1].rec, nth |-> r]
  <2>1. \A s \in 1..u : p * u + s <= l => run[p * u + s] = [rec |-> run[p * u + 1].rec, nth |-> s]
    BY <1>2 DEF Aligned
  <2>2. r \in 1..u /\ d + r = l
    BY <1>6, <1>8
  <2>3. run[l] = [rec |-> run[d + 1].rec, nth |-> r]
    BY <1>4, <2>1, <2>2
  <2> QED BY <1>2, <2>3 DEF Last
<1> QED BY <1>1, <1>2, <1>3, <1>4, <1>6, <1>7, <1>8

\* A sequence with one more.
LEMMA AppendLast ==
    ASSUME NEW s \in Seq(UnitSet), NEW x \in UnitSet, NEW more, more = Append(s, x)
    PROVE  Len(more) = Len(s) + 1 /\ Last(more) = x
BY DEF Last

\* The hash of a record is one.
LEMMA HashType ==
    ASSUME NEW rec \in TailRecs
    PROVE  Hash(rec) \in Nat \X Int
BY DEF Hash, TailRecs

\* Hashes, and what a chain ends with.
LEMMA HeadHashType ==
    ASSUME NEW recs \in Seq(TailRecs)
    PROVE  /\ HeadHash(recs) \in Nat \X Int
           /\ recs # <<>> => Last(recs) \in TailRecs /\ Last(recs).seq \in Nat
<1>1. ASSUME NEW r \in TailRecs PROVE Hash(r) \in Nat \X Int /\ r.seq \in Nat
  BY DEF Hash, TailRecs
<1>2. ASSUME recs # <<>> PROVE Last(recs) \in TailRecs
  BY <1>2 DEF Last
<1>3. Zero32 \in Nat \X Int
  BY DEF Zero32
<1> QED BY <1>1, <1>2, <1>3 DEF HeadHash

\* While nobody rolls it back, a file that keeps its records leaves the reader honest.
LEMMA StaysHonest ==
    ASSUME FileInv, FileInv', ReaderInv, HonestInv, UNCHANGED <<tailVars, rolled>>,
           IsPrefix(verified, RecordsOf(units)) => IsPrefix(verified, RecordsOf(units')),
           writer'.boot >= writer.boot,
           writer'.boot <= 1 => Len(units) <= Len(units')
    PROVE  ReaderInv' /\ HonestInv'
<1>1. UNCHANGED <<pc, size, cursor, lastSize, age, awaiting, diagTorn, diagReplaced, verified, rolled>>
  BY DEF tailVars
<1>2. ReaderInv'
  BY <1>1 DEF ReaderInv
<1>3. PICK b \in Nat, c \in Nat, l \in Nat, k \in Nat :
        b = writer.boot /\ c = writer'.boot /\ l = Len(units) /\ k = Len(units')
  BY BoundAssumption, LenProperties DEF FileInv, WriterSet
<1>4. ASSUME ~rolled'
      PROVE  /\ IsPrefix(verified', RecordsOf(units'))
             /\ ~diagReplaced'
             /\ awaiting' => c > 1
             /\ pc' = "sized" => cursor' <= size'
             /\ c <= 1 => /\ lastSize' <= k
                          /\ pc' = "sized" => lastSize' <= size' /\ size' <= k
  <2>1. /\ IsPrefix(verified, RecordsOf(units))
        /\ ~diagReplaced
        /\ awaiting => b > 1
        /\ pc = "sized" => cursor <= size
        /\ b <= 1 => /\ lastSize <= l
                     /\ pc = "sized" => lastSize <= size /\ size <= l
    BY <1>1, <1>3, <1>4 DEF HonestInv
  <2>2. b <= c /\ (c <= 1 => l <= k) /\ size \in Nat /\ lastSize \in Nat
    BY <1>3 DEF ReaderInv
  <2> QED BY <1>1, <2>1, <2>2
<1>5. HonestInv'
  BY <1>3, <1>4 DEF HonestInv
<1> QED BY <1>2, <1>5

\* A writer that opens keeps the whole records and cuts the rest off, so the
\* records are the same and its head is that of the last of them.
LEMMA OpenStep ==
    ASSUME IInv, Open
    PROVE  IInv'
<1>0. FileInv /\ ChainInv /\ ReaderInv /\ HonestInv
  BY DEF IInv
<1>1. units \in Seq(UnitSet) /\ Aligned(units) /\ writer \in WriterSet
  BY <1>0 DEF FileInv
<1>2. PICK recs \in Seq(TailRecs), p \in Nat, l \in Nat, d \in Nat, r \in Nat :
        /\ recs = RecordsOf(units) /\ p = Parsed(units) /\ p = Len(recs) /\ l = Len(units)
        /\ Begins(p, d) /\ Holds(l, p) /\ l = d + r /\ r < Units
  BY <1>1, StateFacts
<1>3. PICK cut : cut = Piece(units, 0, d) /\ cut = units'
  <2>1. units' = SubSeq(units, 1, Len(recs) * Units)
    BY <1>2 DEF Open
  <2> QED BY <1>2, <2>1 DEF Begins, Piece
<1>4. /\ cut \in Seq(UnitSet) /\ Aligned(cut) /\ Len(cut) = d
      /\ Parsed(cut) = p /\ \A k \in 1..p : RecordsOf(cut)[k] = recs[k]
  <2>1. p \in 0..Parsed(units)
    BY <1>2
  <2>2. PICK run : run = units /\ run \in Seq(UnitSet) /\ Aligned(run) /\ p \in 0..Parsed(run)
    BY <1>1, <2>1
  <2>3. PICK some : some = Piece(run, 0, d)
    OBVIOUS
  <2>4. /\ some \in Seq(UnitSet) /\ Aligned(some) /\ Len(some) = d /\ Parsed(some) = p
        /\ \A k \in 1..p : RecordsOf(some)[k] = RecordsOf(run)[k]
    BY <1>2, <2>2, <2>3, CutFacts
  <2> QED BY <1>2, <1>3, <2>2, <2>3, <2>4
<1>5. RecordsOf(cut) = recs
  <2>1. PICK kept : kept = RecordsOf(cut) /\ kept \in Seq(TailRecs) /\ Len(kept) = p
    BY <1>4, RecordsOfFacts
  <2>2. kept = recs
    BY <1>2, <1>4, <2>1, SeqEqual
  <2> QED BY <2>1, <2>2
<1>6. PICK b \in 0..MaxBoots, n \in 0..MaxRecords : b = writer.boot /\ n = writer.begun /\ b < MaxBoots
  BY <1>1 DEF WriterSet, Open
<1>7. PICK sq, todo :
        /\ sq = IF recs = <<>> THEN 0 ELSE Last(recs).seq + 1
        /\ todo = (IF recs = <<>> THEN <<"GENESIS">> ELSE <<>>) \o <<"BOOT">>
                  \o (IF InRecord THEN <<"RECOVERY">> ELSE <<>>)
  OBVIOUS
<1>8. writer' = [open |-> TRUE, boot |-> b + 1, begun |-> n, seq |-> sq,
                 head |-> HeadHash(recs), todo |-> todo]
  BY <1>2, <1>6, <1>7 DEF Open
<1>9. /\ todo \in Seq(Types) /\ todo # <<>>
      /\ \A j \in 1..Len(todo) : todo[j] = "GENESIS" <=> (j = 1 /\ recs = <<>>)
  <2>1. PICK front, mid, back :
          /\ front = (IF recs = <<>> THEN <<"GENESIS">> ELSE <<>>)
          /\ mid = front \o <<"BOOT">>
          /\ back = (IF InRecord THEN <<"RECOVERY">> ELSE <<>>)
          /\ todo = mid \o back
    BY <1>7
  <2>2. {"GENESIS", "BOOT", "RECOVERY"} \subseteq Types
    BY DEF Types
  <2>3. PICK a \in {0, 1} : /\ front \in Seq(Types) /\ Len(front) = a
                            /\ a = 1 <=> recs = <<>>
                            /\ a = 1 => front[1] = "GENESIS"
    BY <2>1, <2>2
  <2>4. PICK e \in {0, 1} : /\ back \in Seq(Types) /\ Len(back) = e
                            /\ e = 1 => back[1] = "RECOVERY"
    BY <2>1, <2>2
  <2>5. PICK boot : boot = <<"BOOT">> /\ boot \in Seq(Types) /\ Len(boot) = 1 /\ boot[1] = "BOOT"
    <3>1. PICK x : x = "BOOT" /\ x \in Types
      BY <2>2
    <3>2. <<x>> \in Seq(Types) /\ Len(<<x>>) = 1 /\ <<x>>[1] = x
      BY <3>1
    <3> QED BY <3>1, <3>2
  <2>6. /\ mid \in Seq(Types) /\ Len(mid) = a + 1 /\ mid[a + 1] = "BOOT"
        /\ a = 1 => mid[1] = "GENESIS"
    <3>1. mid = front \o boot
      BY <2>1, <2>5
    <3>2. /\ mid \in Seq(Types) /\ Len(mid) = a + 1
          /\ \A i \in 1..(a + 1) : mid[i] = IF i <= a THEN front[i] ELSE boot[i - a]
      BY <2>3, <2>5, <3>1, ConcatProperties
    <3> QED BY <2>3, <2>5, <3>2
  <2>7. /\ todo \in Seq(Types) /\ Len(todo) = a + 1 + e
        /\ \A i \in 1..(a + 1 + e) : todo[i] = IF i <= a + 1 THEN mid[i] ELSE back[i - (a + 1)]
    BY <2>1, <2>4, <2>6, ConcatProperties
  <2>8. \A j \in 1..(a + 1 + e) : todo[j] = "GENESIS" <=> (j = 1 /\ a = 1)
    <3> TAKE j \in 1..(a + 1 + e)
    <3>1. CASE j <= a
      <4>1. j = 1 /\ a = 1 /\ todo[j] = mid[j]
        BY <2>7, <3>1
      <4> QED BY <2>6, <4>1
    <3>2. CASE j = a + 1
      <4>1. todo[j] = "BOOT" /\ ~(j = 1 /\ a = 1)
        BY <2>6, <2>7, <3>2
      <4> QED BY <4>1
    <3>3. CASE j > a + 1
      <4>1. e = 1 /\ j - (a + 1) = 1 /\ todo[j] = back[j - (a + 1)] /\ j # 1
        BY <2>7, <3>3
      <4> QED BY <2>4, <4>1
    <3> QED BY <3>1, <3>2, <3>3
  <2>9. todo # <<>>
    BY <2>7
  <2> QED BY <2>3, <2>7, <2>8, <2>9
<1>10. sq \in Nat /\ HeadHash(recs) \in Nat \X Int
  BY <1>7, HeadHashType
<1>11. writer' \in WriterSet
  <2>1. b + 1 \in 0..MaxBoots
    BY <1>6, BoundAssumption
  <2> QED BY <1>6, <1>8, <1>9, <1>10, <2>1 DEF WriterSet
<1>12. Len(cut) <= Units * n
  <2>1. l <= Units * n
    BY <1>0, <1>2, <1>6 DEF FileInv
  <2>2. PICK k \in Nat : k = Units * n
    BY UnitsAssumption, BoundAssumption
  <2> QED BY <1>2, <1>4, <2>1, <2>2
<1>13. writer'.boot # 0 /\ writer'.boot = b + 1 /\ writer'.begun = n /\ writer'.open
  BY <1>6, <1>8
<1>14. FileInv'
  BY <1>3, <1>4, <1>11, <1>12, <1>13 DEF FileInv
<1>15. Follows(recs, writer')
  BY <1>7, <1>8, <1>9 DEF Follows
<1>16. ~InRecord'
  <2>1. Pending(cut) = 0
    BY <1>2, <1>4 DEF Pending, Begins
  <2> QED BY <1>3, <2>1 DEF InRecord
<1>17. ChainInv'
  <2>1. ChainOk(recs)
    BY <1>0, <1>2 DEF ChainInv
  <2> QED BY <1>3, <1>5, <1>13, <1>15, <1>16, <2>1 DEF ChainInv
<1>18. ReaderInv' /\ HonestInv'
  <2>1. UNCHANGED <<tailVars, rolled>>
    BY DEF Open
  <2>2. RecordsOf(units') = RecordsOf(units)
    BY <1>2, <1>3, <1>5
  <2>3. writer'.boot >= writer.boot
    BY <1>6, <1>13
  <2>4. writer'.boot <= 1 => Len(units) <= Len(units')
    <3>1. ASSUME b = 0 PROVE Len(units) = 0
      BY <1>0, <1>6, <3>1 DEF FileInv
    <3> QED BY <1>3, <1>4, <1>6, <1>13, <3>1
  <2> QED BY <1>0, <1>14, <2>1, <2>2, <2>3, <2>4, StaysHonest
<1> QED BY <1>14, <1>17, <1>18 DEF IInv

\* The first unit of a record goes on with the chain and completes no record.
LEMMA BeginRecordStep ==
    ASSUME IInv, BeginRecord
    PROVE  IInv'
<1>0. FileInv /\ ChainInv /\ ReaderInv /\ HonestInv
  BY DEF IInv
<1>1. units \in Seq(UnitSet) /\ Aligned(units) /\ writer \in WriterSet
  BY <1>0 DEF FileInv
<1>2. PICK recs \in Seq(TailRecs), p \in Nat, l \in Nat, d \in Nat, r \in Nat :
        /\ recs = RecordsOf(units) /\ p = Parsed(units) /\ p = Len(recs) /\ l = Len(units)
        /\ Begins(p, d) /\ Holds(l, p) /\ l = d + r /\ r < Units /\ r = Pending(units)
  BY <1>1, StateFacts
<1>3. r = 0 /\ l = d
  BY <1>2 DEF BeginRecord, InRecord
<1>4. PICK type, x, more :
        /\ type = IF writer.todo = <<>> THEN "EVENT" ELSE Head(writer.todo)
        /\ x = [rec |-> Next0(type), nth |-> 1]
        /\ more = Append(units, x) /\ more = units'
  BY DEF BeginRecord
<1>5. PICK b \in 0..MaxBoots, n \in 0..MaxRecords, sq \in Nat, h \in Nat \X Int, todo \in Seq(Types) :
        /\ b = writer.boot /\ n = writer.begun /\ sq = writer.seq /\ h = writer.head
        /\ todo = writer.todo /\ n < MaxRecords
  BY <1>1 DEF WriterSet, BeginRecord
<1>6. Follows(recs, writer) /\ writer.open /\ b # 0
  BY <1>0, <1>2, <1>5 DEF ChainInv, BeginRecord
<1>7. type \in Types /\ (type = "GENESIS" <=> recs = <<>>)
  <2>1. recs = <<>> => todo # <<>>
    BY <1>5, <1>6 DEF Follows
  <2>2. \A j \in 1..Len(todo) : todo[j] = "GENESIS" <=> (j = 1 /\ recs = <<>>)
    BY <1>5, <1>6 DEF Follows
  <2>3. CASE todo = <<>>
    BY <1>4, <1>5, <2>1, <2>3 DEF Types
  <2>4. CASE todo # <<>>
    <3>1. 1 \in 1..Len(todo) /\ Head(todo) = todo[1] /\ todo[1] \in Types
      BY <2>4
    <3> QED BY <1>4, <1>5, <2>2, <2>4, <3>1
  <2> QED BY <2>3, <2>4
<1>8. PICK rec : /\ rec = Next0(type) /\ rec \in TailRecs
                 /\ rec.type = type /\ rec.seq = sq /\ rec.prev = h
  <2>1. Zero32 \in Nat \X Int
    BY DEF Zero32
  <2>2. PICK z \in Nat \X Int : z = Zero32
    BY <2>1
  <2>3. PICK rec : rec = Next0(type) /\ rec = [type |-> type, boot |-> b, seq |-> sq, prev |-> h,
                                               ref |-> z, rot |-> FALSE]
    BY <1>5, <2>2 DEF Next0
  <2>4. b \in Nat /\ type \in {"GENESIS", "BOOT", "RECOVERY", "EVENT"} /\ FALSE \in BOOLEAN
    BY <1>5, <1>7 DEF Types
  <2>5. rec \in TailRecs
    BY <2>3, <2>4 DEF TailRecs
  <2> QED BY <2>3, <2>5
<1>9. x \in UnitSet /\ x.rec = rec /\ x.nth = 1
  BY <1>4, <1>8 DEF UnitSet
<1>10. more \in Seq(UnitSet) /\ Aligned(more) /\ RecordsOf(more) = recs
  <2>1. r = l - p * Units
    BY <1>2 DEF Begins
  <2>2. 0 + 1 < Units /\ 1 = 0 + 1
    BY UnitsAssumption
  <2>3. PICK run : run = units /\ run \in Seq(UnitSet) /\ Aligned(run) /\ Holds(Len(run), p)
    BY <1>1, <1>2
  <2>4. r = Len(run) - p * Units /\ x.nth = r + 1 /\ r + 1 < Units
    BY <1>2, <1>3, <1>9, <2>1, <2>2, <2>3
  <2>5. /\ Append(run, x) \in Seq(UnitSet) /\ Aligned(Append(run, x))
        /\ RecordsOf(Append(run, x)) = RecordsOf(run)
    BY <1>3, <1>9, <2>3, <2>4, Lengthens
  <2> QED BY <1>2, <1>4, <2>3, <2>5
<1>11. Len(more) = l + 1 /\ Last(more) = x
  <2>1. PICK run : run = units /\ run \in Seq(UnitSet)
    BY <1>1
  <2>2. more = Append(run, x) /\ x \in UnitSet
    BY <1>4, <1>9, <2>1
  <2>3. Len(more) = Len(run) + 1 /\ Last(more) = x
    BY <2>1, <2>2, AppendLast
  <2> QED BY <1>2, <2>1, <2>3
<1>12. /\ writer' = [writer EXCEPT !.begun = @ + 1]
       /\ writer' \in WriterSet /\ writer'.open = writer.open /\ writer'.boot = b
       /\ writer'.begun = n + 1 /\ writer'.seq = sq /\ writer'.head = h /\ writer'.todo = todo
  <2>1. n + 1 \in 0..MaxRecords
    BY <1>5, BoundAssumption
  <2> QED BY <1>1, <1>5, <2>1 DEF WriterSet, BeginRecord
<1>13. Len(more) <= Units * (n + 1)
  <2>1. l <= Units * n
    BY <1>0, <1>2, <1>5 DEF FileInv
  <2>2. n \in Nat /\ Units \in Nat /\ Units # 0
    BY <1>5, UnitsAssumption, BoundAssumption
  <2>3. PICK k \in Nat, m \in Nat : k = Units * n /\ m = Units * (n + 1) /\ m = k + Units
    <3>1. Units * n \in Nat /\ Units * (n + 1) = Units * n + Units /\ Units * n + Units \in Nat
      BY <2>2
    <3> QED BY <3>1
  <2> QED BY <1>11, <2>1, <2>2, <2>3
<1>14. FileInv'
  BY <1>4, <1>6, <1>10, <1>12, <1>13 DEF FileInv
<1>15. Follows(recs, writer') /\ Fitting(rec, recs, writer')
  BY <1>5, <1>6, <1>7, <1>8, <1>12 DEF Follows, Fitting
<1>16. ChainInv'
  <2>1. ChainOk(recs)
    BY <1>0, <1>2 DEF ChainInv
  <2>2. Last(units').rec = rec
    BY <1>4, <1>9, <1>11
  <2> QED BY <1>4, <1>6, <1>10, <1>12, <1>15, <2>1, <2>2 DEF ChainInv
<1>17. ReaderInv' /\ HonestInv'
  <2>1. UNCHANGED <<tailVars, rolled>>
    BY DEF BeginRecord
  <2>2. RecordsOf(units') = RecordsOf(units)
    BY <1>2, <1>4, <1>10
  <2>3. writer'.boot >= writer.boot
    BY <1>5, <1>12
  <2>4. Len(units) <= Len(units')
    BY <1>2, <1>4, <1>11
  <2> QED BY <1>0, <1>14, <2>1, <2>2, <2>3, <2>4, StaysHonest
<1> QED BY <1>14, <1>16, <1>17 DEF IInv

\* Another unit of it: with the last one there is a record more, which links, and
\* the writer's memory moves on with it.
LEMMA ProceedStep ==
    ASSUME IInv, Proceed
    PROVE  IInv'
<1>0. FileInv /\ ChainInv /\ ReaderInv /\ HonestInv
  BY DEF IInv
<1>1. units \in Seq(UnitSet) /\ Aligned(units) /\ writer \in WriterSet
  BY <1>0 DEF FileInv
<1>2. PICK recs \in Seq(TailRecs), p \in Nat, l \in Nat, d \in Nat, r \in Nat :
        /\ recs = RecordsOf(units) /\ p = Parsed(units) /\ p = Len(recs) /\ l = Len(units)
        /\ Begins(p, d) /\ Holds(l, p) /\ l = d + r /\ r < Units /\ r = Pending(units)
        /\ r # 0 => Last(units) = [rec |-> units[d + 1].rec, nth |-> r]
  BY <1>1, StateFacts
<1>3. r # 0 /\ InRecord
  BY <1>2 DEF Proceed, InRecord
<1>4. PICK rec : rec = units[d + 1].rec /\ rec \in TailRecs
  <2>1. d + 1 \in 1..l
    BY <1>2, <1>3
  <2>2. units[d + 1] \in UnitSet
    BY <1>1, <1>2, <2>1, ElementOfSeq
  <2> QED BY <2>2 DEF UnitSet
<1>5. PICK last, x, more :
        /\ last = Last(units) /\ last = [rec |-> rec, nth |-> r]
        /\ x = [last EXCEPT !.nth = @ + 1]
        /\ more = Append(units, x) /\ more = units'
  BY <1>2, <1>3, <1>4 DEF Proceed
<1>6. x \in UnitSet /\ x.rec = rec /\ x.nth = r + 1
  BY <1>2, <1>4, <1>5 DEF UnitSet
<1>7. /\ more \in Seq(UnitSet) /\ Aligned(more)
      /\ r + 1 < Units => RecordsOf(more) = recs
      /\ ~(r + 1 < Units) => RecordsOf(more) = Append(recs, rec)
  <2>1. r = l - p * Units
    BY <1>2 DEF Begins
  <2>2. PICK run : run = units /\ run \in Seq(UnitSet) /\ Aligned(run) /\ Holds(Len(run), p)
    BY <1>1, <1>2
  <2>3. r = Len(run) - p * Units /\ x.rec = run[p * Units + 1].rec
    BY <1>2, <1>4, <1>6, <2>1, <2>2 DEF Begins
  <2>4. /\ Append(run, x) \in Seq(UnitSet) /\ Aligned(Append(run, x))
        /\ r + 1 < Units => RecordsOf(Append(run, x)) = RecordsOf(run)
        /\ ~(r + 1 < Units) => RecordsOf(Append(run, x)) = Append(RecordsOf(run), x.rec)
    BY <1>6, <2>2, <2>3, Lengthens
  <2> QED BY <1>2, <1>5, <1>6, <2>2, <2>4
<1>8. Len(more) = l + 1 /\ Last(more) = x
  <2>1. PICK run : run = units /\ run \in Seq(UnitSet)
    BY <1>1
  <2>2. more = Append(run, x) /\ x \in UnitSet
    BY <1>5, <1>6, <2>1
  <2>3. Len(more) = Len(run) + 1 /\ Last(more) = x
    BY <2>1, <2>2, AppendLast
  <2> QED BY <1>2, <2>1, <2>3
<1>9. Follows(recs, writer) /\ Fitting(rec, recs, writer) /\ writer.open /\ writer.boot # 0
  BY <1>0, <1>2, <1>3, <1>5 DEF ChainInv, Proceed
<1>10. /\ r + 1 < Units => writer' = writer
       /\ ~(r + 1 < Units) =>
             writer' = [writer EXCEPT !.seq = @ + 1, !.head = Hash(rec),
                                      !.todo = IF @ = <<>> THEN @ ELSE Tail(@)]
  BY <1>5 DEF Proceed
<1>11. PICK b \in 0..MaxBoots, n \in 0..MaxRecords, sq \in Nat, todo \in Seq(Types), rest \in Seq(Types) :
         /\ b = writer.boot /\ n = writer.begun /\ sq = writer.seq /\ todo = writer.todo
         /\ rest = IF todo = <<>> THEN todo ELSE Tail(todo)
  <2>1. writer.todo \in Seq(Types)
    BY <1>1 DEF WriterSet
  <2>2. writer.todo # <<>> => Tail(writer.todo) \in Seq(Types)
    BY <2>1
  <2> QED BY <1>1, <2>1, <2>2 DEF WriterSet
<1>12. Hash(rec) \in Nat \X Int
  BY <1>4, HashType
<1>13. ASSUME ~(r + 1 < Units)
       PROVE  /\ writer' \in WriterSet /\ writer'.open = writer.open /\ writer'.boot = b
              /\ writer'.begun = n /\ writer'.seq = sq + 1 /\ writer'.head = Hash(rec)
              /\ writer'.todo = rest
  <2>1. writer' = [writer EXCEPT !.seq = sq + 1, !.head = Hash(rec), !.todo = rest]
    BY <1>10, <1>11, <1>13
  <2>2. PICK h : h = Hash(rec) /\ h \in Nat \X Int
    BY <1>12
  <2>3. writer' = [writer EXCEPT !.seq = sq + 1, !.head = h, !.todo = rest] /\ sq + 1 \in Nat
    BY <2>1, <2>2
  <2>4. writer' \in WriterSet
    BY <1>1, <1>11, <2>2, <2>3 DEF WriterSet
  <2> QED BY <1>1, <1>11, <2>2, <2>3, <2>4 DEF WriterSet
<1>14. /\ writer' \in WriterSet /\ writer'.open = writer.open /\ writer'.boot = b
       /\ writer'.begun = n
  BY <1>1, <1>10, <1>11, <1>13
<1>15. Len(more) <= Units * n
  <2>1. l <= Units * n
    BY <1>0, <1>2, <1>11 DEF FileInv
  <2>2. n \in Nat /\ Units \in Nat /\ Units # 0
    BY <1>11, UnitsAssumption, BoundAssumption
  <2>3. PICK k \in Nat : k = Units * n /\ k = n * Units
    BY <2>2
  <2>4. l # k
    <3> SUFFICES ASSUME l = k PROVE FALSE
      OBVIOUS
    <3>1. Holds(l, n)
      BY <2>2, <2>3 DEF Holds
    <3>2. n = p
      BY <1>2, <3>1, HoldsOne
    <3>3. l = d
      BY <2>3, <1>2, <3>2 DEF Begins
    <3> QED BY <1>2, <1>3, <3>3
  <2> QED BY <1>2, <1>8, <2>1, <2>3, <2>4
<1>16. FileInv'
  BY <1>5, <1>7, <1>9, <1>11, <1>14, <1>15 DEF FileInv
<1>17. ChainOk(recs)
  BY <1>0, <1>2 DEF ChainInv
<1>18. ChainInv'
  <2>1. CASE r + 1 < Units
    <3>1. Last(units').rec = rec
      BY <1>5, <1>6, <1>8
    <3> QED BY <1>5, <1>7, <1>9, <1>10, <1>17, <2>1, <3>1 DEF ChainInv
  <2>2. CASE ~(r + 1 < Units)
    <3>1. PICK all : all = Append(recs, rec)
      OBVIOUS
    <3>2. ChainOk(all)
      BY <1>4, <1>9, <1>17, <3>1, ChainGrows
    <3>3. all # <<>> /\ Last(all) = rec /\ Len(all) = p + 1
      BY <1>2, <1>4, <3>1 DEF Last
    <3>4. rest = <<>> \/ \A j \in 1..Len(rest) : rest[j] # "GENESIS"
      <4>1. \A j \in 1..Len(todo) : todo[j] = "GENESIS" <=> (j = 1 /\ recs = <<>>)
        BY <1>9, <1>11 DEF Follows
      <4>2. CASE todo = <<>>
        BY <1>11, <4>2
      <4>3. CASE todo # <<>>
        <5>1. Len(rest) = Len(todo) - 1 /\ \A j \in 1..Len(rest) : rest[j] = todo[j + 1]
          BY <1>11, <4>3
        <5>2. ASSUME NEW j \in 1..Len(rest) PROVE rest[j] # "GENESIS"
          <6>1. j + 1 \in 1..Len(todo) /\ j + 1 # 1
            BY <1>11, <5>1
          <6> QED BY <4>1, <5>1, <6>1
        <5> QED BY <5>2
      <4> QED BY <4>2, <4>3
    <3>5. Follows(all, writer')
      <4>1. writer'.head = HeadHash(all)
        BY <1>13, <2>2, <3>3 DEF HeadHash
      <4>2. writer'.seq = Last(all).seq + 1
        BY <1>9, <1>11, <1>13, <2>2, <3>3 DEF Fitting
      <4>3. writer'.todo = rest
        BY <1>13, <2>2
      <4>4. \A j \in 1..Len(rest) : rest[j] # "GENESIS"
        BY <3>4
      <4> QED BY <3>3, <4>1, <4>2, <4>3, <4>4 DEF Follows
    <3>6. RecordsOf(more) = all
      BY <1>7, <2>2, <3>1
    <3>7. Parsed(more) = p + 1
      BY <1>7, <3>3, <3>6, RecordsOfFacts
    <3>8. Pending(more) = 0
      <4>1. PICK u \in Nat, pu \in Nat : u = Units /\ pu = p * u /\ (p + 1) * u = pu + u /\ d = pu
        <5>1. Units \in Nat
          BY UnitsAssumption
        <5> QED BY <1>2, <5>1, Times DEF Begins
      <4>2. l + 1 = pu + u
        <5>1. l = d + r /\ r < u /\ ~(r + 1 < u) /\ d = pu
          BY <1>2, <2>2, <4>1
        <5> QED BY <5>1
      <4> QED BY <1>8, <3>7, <4>1, <4>2 DEF Pending
    <3>9. ~InRecord'
      BY <1>5, <3>8 DEF InRecord
    <3> QED BY <1>5, <1>9, <1>14, <3>2, <3>5, <3>6, <3>9, <1>11 DEF ChainInv
  <2> QED BY <2>1, <2>2
<1>19. ReaderInv' /\ HonestInv'
  <2>1. UNCHANGED <<tailVars, rolled>>
    BY DEF Proceed
  <2>2. IsPrefix(verified, recs) => IsPrefix(verified, RecordsOf(more))
    <3>1. CASE r + 1 < Units
      BY <1>7, <3>1
    <3>2. CASE ~(r + 1 < Units)
      <4>1. PICK all : all = Append(recs, rec)
        OBVIOUS
      <4>2. /\ all \in Seq(TailRecs) /\ Len(all) = p + 1
            /\ \A i \in 1..p : all[i] = recs[i]
        BY <1>2, <1>4, <4>1
      <4>3. PICK vs : vs = verified /\ vs \in Seq(TailRecs)
        BY <1>0 DEF ReaderInv
      <4>4. ASSUME IsPrefix(vs, recs) PROVE IsPrefix(vs, all)
        <5>1. Len(vs) <= p /\ \A i \in 1..Len(vs) : vs[i] = recs[i]
          BY <1>2, <4>3, <4>4, PrefixFacts
        <5>2. Len(vs) <= Len(all) /\ \A i \in 1..Len(vs) : vs[i] = all[i]
          BY <1>2, <4>2, <4>3, <5>1
        <5> QED BY <4>2, <4>3, <5>2, PrefixFacts
      <4> QED BY <1>7, <3>2, <4>1, <4>3, <4>4
    <3> QED BY <3>1, <3>2
  <2>3. writer'.boot >= writer.boot
    BY <1>11, <1>14
  <2>4. Len(units) <= Len(units')
    BY <1>2, <1>5, <1>8
  <2> QED BY <1>0, <1>2, <1>5, <1>16, <2>1, <2>2, <2>3, <2>4, StaysHonest
<1> QED BY <1>16, <1>18, <1>19 DEF IInv

\* A crash leaves the file as it is.
LEMMA CrashStep ==
    ASSUME IInv, Crash
    PROVE  IInv'
<1>0. FileInv /\ ChainInv /\ ReaderInv /\ HonestInv
  BY DEF IInv
<1>1. units' = units /\ UNCHANGED <<tailVars, rolled>> /\ writer' = Gone(writer)
  BY DEF Crash
<1>2. /\ writer' \in WriterSet /\ ~writer'.open
      /\ writer'.boot = writer.boot /\ writer'.begun = writer.begun
  <2>1. writer \in WriterSet
    BY <1>0 DEF FileInv
  <2>2. PICK b \in 0..MaxBoots, n \in 0..MaxRecords : b = writer.boot /\ n = writer.begun
    BY <2>1 DEF WriterSet
  <2>3. PICK z \in Nat \X Int : z = Zero32
    <3>1. Zero32 \in Nat \X Int
      BY DEF Zero32
    <3> QED BY <3>1
  <2>4. writer' = [open |-> FALSE, boot |-> b, begun |-> n, seq |-> 0, head |-> z, todo |-> <<>>]
    BY <1>1, <2>2, <2>3 DEF Gone, Nobody
  <2>5. PICK t : t = <<>> /\ t \in Seq(Types)
    <3>1. <<>> \in Seq(Types)
      OBVIOUS
    <3> QED BY <3>1
  <2>6. FALSE \in BOOLEAN /\ 0 \in Nat
    OBVIOUS
  <2> QED BY <2>2, <2>4, <2>5, <2>6 DEF WriterSet
<1>3. FileInv'
  BY <1>0, <1>1, <1>2 DEF FileInv
<1>4. ChainInv'
  BY <1>0, <1>1, <1>2 DEF ChainInv
<1>5. ReaderInv' /\ HonestInv'
  <2>1. writer.boot \in Nat /\ Len(units) \in Nat
    BY <1>0, BoundAssumption, LenProperties DEF FileInv, WriterSet
  <2>2. writer'.boot >= writer.boot /\ Len(units) <= Len(units')
    BY <1>1, <1>2, <2>1
  <2>3. RecordsOf(units') = RecordsOf(units)
    BY <1>1
  <2> QED BY <1>0, <1>1, <1>3, <2>2, <2>3, StaysHonest
<1> QED BY <1>3, <1>4, <1>5 DEF IInv

\* What is left after a rollback is a chain, and nobody relies on the rest.
LEMMA RollbackStep ==
    ASSUME IInv, Rollback
    PROVE  IInv'
<1>0. FileInv /\ ChainInv /\ ReaderInv /\ HonestInv
  BY DEF IInv
<1>1. units \in Seq(UnitSet) /\ Aligned(units) /\ writer \in WriterSet
  BY <1>0 DEF FileInv
<1>2. PICK recs \in Seq(TailRecs), p \in Nat, l \in Nat, d \in Nat, r \in Nat :
        recs = RecordsOf(units) /\ p = Parsed(units) /\ p = Len(recs) /\ l = Len(units)
  BY <1>1, StateFacts
<1>3. PICK n \in 1..(p - 1) : units' = SubSeq(units, 1, n * Units)
  BY <1>2 DEF Rollback
<1>4. PICK e \in Nat : e = n * Units /\ Begins(n, e)
  <2>1. n \in Nat /\ Units \in Nat
    BY UnitsAssumption
  <2> QED BY <2>1, Times DEF Begins
<1>5. PICK cut : /\ cut = units' /\ cut \in Seq(UnitSet) /\ Aligned(cut) /\ Len(cut) = e /\ e <= l
                 /\ Parsed(cut) = n /\ \A k \in 1..n : RecordsOf(cut)[k] = recs[k]
  <2>1. PICK run : run = units /\ run \in Seq(UnitSet) /\ Aligned(run) /\ n \in 0..Parsed(run)
    <3>1. n \in 0..p
      OBVIOUS
    <3> QED BY <1>1, <1>2, <3>1
  <2>2. PICK some : some = Piece(run, 0, e)
    OBVIOUS
  <2>3. /\ some \in Seq(UnitSet) /\ Aligned(some) /\ Len(some) = e /\ e <= Len(run)
        /\ Parsed(some) = n /\ \A k \in 1..n : RecordsOf(some)[k] = RecordsOf(run)[k]
    BY <1>4, <2>1, <2>2, CutFacts
  <2>4. some = units'
    BY <1>3, <1>4, <2>1, <2>2 DEF Piece
  <2> QED BY <1>2, <2>1, <2>3, <2>4
<1>6. ChainOk(RecordsOf(cut))
  <2>1. PICK kept : kept = RecordsOf(cut) /\ kept \in Seq(TailRecs) /\ Len(kept) = n
    BY <1>5, RecordsOfFacts
  <2>2. n \in Nat /\ n <= p
    BY <1>2
  <2>3. IsPrefix(kept, recs)
    BY <1>2, <1>5, <2>1, <2>2, PrefixFacts
  <2>4. ChainOk(recs)
    BY <1>0, <1>2 DEF ChainInv
  <2> QED BY <2>1, <2>3, <2>4, ChainPrefix
<1>7. writer' = writer /\ ~writer.open /\ rolled'
  BY DEF Rollback
<1>8. FileInv'
  <2>1. PICK k \in Nat : k = Units * writer.begun /\ l <= k
    <3>1. writer.begun \in Nat /\ Units \in Nat
      BY <1>1, UnitsAssumption, BoundAssumption DEF WriterSet
    <3>2. l <= Units * writer.begun
      BY <1>0, <1>2 DEF FileInv
    <3> QED BY <3>1, <3>2
  <2>2. Len(cut) <= Units * writer.begun
    BY <1>5, <2>1
  <2>3. writer.boot # 0
    <3> SUFFICES ASSUME writer.boot = 0 PROVE FALSE
      OBVIOUS
    <3>1. Parsed(units) = 0
      BY <1>0, NoUnits DEF FileInv
    <3>2. p = 0
      BY <1>2, <3>1
    <3> QED BY <3>2
  <2> QED BY <1>1, <1>5, <1>7, <2>2, <2>3 DEF FileInv
<1>9. ChainInv'
  BY <1>5, <1>6, <1>7 DEF ChainInv
<1>10. ReaderInv'
  BY <1>0 DEF ReaderInv, Rollback, tailVars
<1>11. HonestInv'
  BY <1>7 DEF HonestInv
<1> QED BY <1>8, <1>9, <1>10, <1>11 DEF IInv

-----------------------------------------------------------------------------
(* The steps of the reader.                                                 *)

\* A step of the reader leaves the file and its writer alone.
LEMMA FileStays ==
    ASSUME FileInv, ChainInv, UNCHANGED <<units, writer>>
    PROVE  FileInv' /\ ChainInv'
BY DEF FileInv, ChainInv, InRecord

\* The size that is taken is not below what was verified, unless it was rolled back.
LEMMA TakeSizeStep ==
    ASSUME IInv, TakeSize
    PROVE  IInv'
<1>0. FileInv /\ ChainInv /\ ReaderInv /\ HonestInv
  BY DEF IInv
<1>1. UNCHANGED <<units, writer, cursor, lastSize, age, awaiting, diagTorn, diagReplaced, verified, rolled>>
  BY DEF TakeSize
<1>2. FileInv' /\ ChainInv'
  BY <1>0, <1>1, FileStays
<1>3. PICK l \in Nat : l = Len(units) /\ size' = l /\ pc' = "sized"
  BY <1>0, LenProperties DEF FileInv, TakeSize
<1>4. ReaderInv'
  BY <1>0, <1>1, <1>3 DEF ReaderInv
<1>5. ASSUME IsPrefix(verified, RecordsOf(units)) PROVE cursor <= l
  <2>1. PICK recs \in Seq(TailRecs), p \in Nat, k \in Nat, d \in Nat, r \in Nat :
          recs = RecordsOf(units) /\ p = Len(recs) /\ k = Len(units) /\ Begins(p, d) /\ k = d + r
    BY <1>0, StateFacts DEF FileInv
  <2>2. PICK n \in Nat : n = Len(verified) /\ n <= p
    <3>1. verified \in Seq(TailRecs) /\ Len(verified) \in Nat
      BY <1>0, LenProperties DEF ReaderInv
    <3> QED BY <1>5, <2>1, <3>1, PrefixFacts
  <2>3. PICK u \in Nat, m \in Nat : u = Units /\ m = n * u /\ cursor = m
    <3>1. Units \in Nat
      BY UnitsAssumption
    <3> QED BY <1>0, <2>2, <3>1, Times DEF ReaderInv
  <2>4. m <= p * u
    BY <2>2, <2>3, TimesMonotone
  <2>5. m <= d
    BY <2>1, <2>3, <2>4 DEF Begins
  <2> QED BY <1>3, <2>1, <2>3, <2>5
<1>6. HonestInv'
  <2> SUFFICES ASSUME ~rolled
               PROVE  /\ IsPrefix(verified, RecordsOf(units))
                      /\ ~diagReplaced
                      /\ awaiting => writer.boot > 1
                      /\ cursor <= l
                      /\ writer.boot <= 1 => lastSize <= l /\ l <= l
    BY <1>1, <1>3 DEF HonestInv
  <2> QED BY <1>0, <1>3, <1>5 DEF HonestInv
<1> QED BY <1>2, <1>4, <1>6 DEF IInv

\* So the alarm over a replaced file is raised after a rollback only.
LEMMA DrainReplacedStep ==
    ASSUME IInv, DrainReplaced
    PROVE  IInv'
<1>0. FileInv /\ ChainInv /\ ReaderInv /\ HonestInv
  BY DEF IInv
<1>1. UNCHANGED <<units, writer, size, cursor, age, awaiting, diagTorn, verified, rolled>>
  BY DEF DrainReplaced
<1>2. FileInv' /\ ChainInv'
  BY <1>0, <1>1, FileStays
<1>3. ReaderInv'
  BY <1>0, <1>1 DEF ReaderInv, DrainReplaced
<1>4. rolled
  <2> SUFFICES ASSUME ~rolled PROVE FALSE
    OBVIOUS
  <2>1. PICK c \in Nat, s \in Nat : c = cursor /\ s = size
    <3>1. Len(verified) \in Nat /\ Units \in Nat
      BY <1>0, UnitsAssumption, LenProperties DEF ReaderInv
    <3>2. Units * Len(verified) \in Nat
      BY <3>1
    <3> QED BY <1>0, <3>2 DEF ReaderInv
  <2>2. s < c /\ c <= s
    BY <1>0, <2>1 DEF HonestInv, DrainReplaced
  <2> QED BY <2>2
<1>5. HonestInv'
  BY <1>1, <1>4 DEF HonestInv
<1> QED BY <1>2, <1>3, <1>5 DEF IInv

\* Time changes the age of what is pending, and nothing else.
LEMMA TickStep ==
    ASSUME IInv, Tick
    PROVE  IInv'
<1>0. FileInv /\ ChainInv /\ ReaderInv /\ HonestInv
  BY DEF IInv
<1>1. UNCHANGED <<units, writer, pc, size, cursor, lastSize, awaiting, diagTorn, diagReplaced, verified, rolled>>
  BY DEF Tick
<1>2. FileInv' /\ ChainInv'
  BY <1>0, <1>1, FileStays
<1>3. age' \in -1..Grace /\ age' # -1
  BY GraceAssumption DEF Tick
<1>4. ReaderInv'
  BY <1>0, <1>1, <1>3 DEF ReaderInv
<1>5. HonestInv'
  BY <1>0, <1>1 DEF HonestInv
<1> QED BY <1>2, <1>4, <1>5 DEF IInv

\* What is read behind the records of a prefix goes on with them.
LEMMA ReadGoesOn ==
    ASSUME NEW run \in Seq(UnitSet), Aligned(run), NEW vs \in Seq(TailRecs),
           IsPrefix(vs, RecordsOf(run)), NEW at \in Nat, Begins(Len(vs), at),
           NEW e \in Nat, at <= e, e <= Len(run)
    PROVE  IsPrefix(vs \o RecordsOf(Piece(run, at, e)), RecordsOf(run))
<1>1. PICK recs \in Seq(TailRecs), p \in Nat : recs = RecordsOf(run) /\ p = Len(recs) /\ p = Parsed(run)
  BY StateFacts
<1>2. PICK c \in Nat : c = Len(vs) /\ c <= p /\ \A i \in 1..c : vs[i] = recs[i]
  <2>1. Len(vs) \in Nat /\ Len(vs) <= Len(recs) /\ \A i \in 1..Len(vs) : vs[i] = recs[i]
    BY <1>1, PrefixFacts, LenProperties
  <2> QED BY <1>1, <2>1
<1>3. PICK tail : tail = Piece(run, at, e)
  OBVIOUS
<1>4. /\ tail \in Seq(UnitSet) /\ c + Parsed(tail) <= p
      /\ \A k \in 1..Parsed(tail) : RecordsOf(tail)[k] = recs[c + k]
  <2>1. c \in 0..Parsed(run) /\ Begins(c, at)
    BY <1>1, <1>2
  <2>2. /\ tail \in Seq(UnitSet) /\ c + Parsed(tail) <= Parsed(run)
        /\ \A k \in 1..Parsed(tail) : RecordsOf(tail)[k] = RecordsOf(run)[c + k]
    BY <1>3, <2>1, PieceAligned
  <2> QED BY <1>1, <2>2
<1>5. PICK more \in Seq(TailRecs), q \in Nat : more = RecordsOf(tail) /\ q = Len(more) /\ q = Parsed(tail)
  <2>1. RecordsOf(tail) \in Seq(TailRecs) /\ Len(RecordsOf(tail)) = Parsed(tail) /\ Parsed(tail) \in Nat
    BY <1>4, RecordsOfFacts, ParsedFacts
  <2> QED BY <2>1
<1>6. PICK all : /\ all = vs \o more /\ all \in Seq(TailRecs) /\ Len(all) = c + q
                 /\ \A i \in 1..(c + q) : all[i] = IF i <= c THEN vs[i] ELSE more[i - c]
  <2>1. /\ vs \o more \in Seq(TailRecs) /\ Len(vs \o more) = Len(vs) + Len(more)
        /\ \A i \in 1..(Len(vs) + Len(more)) :
              (vs \o more)[i] = IF i <= Len(vs) THEN vs[i] ELSE more[i - Len(vs)]
    BY ConcatProperties
  <2> QED BY <1>2, <1>5, <2>1
<1>7. c + q <= p /\ \A k \in 1..q : more[k] = recs[c + k]
  BY <1>4, <1>5
<1>8. \A i \in 1..(c + q) : all[i] = recs[i]
  <2> TAKE i \in 1..(c + q)
  <2>1. CASE i <= c
    BY <1>2, <1>6, <2>1
  <2>2. CASE ~(i <= c)
    <3>1. i - c \in 1..q /\ c + (i - c) = i
      BY <2>2
    <3>2. all[i] = more[i - c]
      BY <1>6, <2>2
    <3> QED BY <1>7, <3>1, <3>2
  <2> QED BY <2>1, <2>2
<1>9. IsPrefix(all, recs)
  BY <1>1, <1>6, <1>7, <1>8, PrefixFacts
<1> QED BY <1>1, <1>3, <1>5, <1>6, <1>9

\* What is drained are the records that follow those verified, be the file as
\* long as the size says, longer or shorter by now.
LEMMA DrainStep ==
    ASSUME IInv, Drain
    PROVE  IInv'
<1>0. FileInv /\ ChainInv /\ ReaderInv /\ HonestInv
  BY DEF IInv
<1>1. UNCHANGED <<units, writer, size, diagReplaced, rolled>> /\ lastSize' = size /\ pc' = "rest"
  BY DEF Drain
<1>2. FileInv' /\ ChainInv'
  BY <1>0, <1>1, FileStays
<1>3. PICK recs \in Seq(TailRecs), p \in Nat, l \in Nat, d \in Nat, r \in Nat :
        /\ recs = RecordsOf(units) /\ p = Parsed(units) /\ p = Len(recs) /\ l = Len(units)
        /\ Begins(p, d) /\ l = d + r
  BY <1>0, StateFacts DEF FileInv
<1>4. PICK c \in Nat, u \in Nat, at \in Nat :
        c = Len(verified) /\ u = Units /\ at = cursor /\ at = c * u /\ Begins(c, at)
  <2>1. Len(verified) \in Nat /\ Units \in Nat
    BY <1>0, UnitsAssumption, LenProperties DEF ReaderInv
  <2>2. PICK c \in Nat, u \in Nat : c = Len(verified) /\ u = Units
    BY <2>1
  <2>3. c * u \in Nat /\ cursor = c * u
    BY <1>0, <2>2, Times DEF ReaderInv
  <2> QED BY <2>2, <2>3 DEF Begins
<1>5. PICK e \in Nat : e = Lesser(size, l) /\ e <= l /\ (at <= size /\ at <= l => at <= e)
  BY <1>0 DEF ReaderInv, Lesser
<1>6. PICK run : run = units /\ run \in Seq(UnitSet) /\ Aligned(run) /\ Len(run) = l /\ Parsed(run) = p
  BY <1>0, <1>3 DEF FileInv
<1>7. PICK tail : tail = Piece(run, at, e) /\ tail = Read /\ tail \in Seq(UnitSet)
  <2>1. PICK some : some = Piece(run, at, e)
    OBVIOUS
  <2>2. some \in Seq(UnitSet)
    BY <1>5, <1>6, <2>1, PieceFacts
  <2>3. some = Read
    BY <1>3, <1>4, <1>5, <1>6, <2>1 DEF Read, Piece
  <2> QED BY <2>1, <2>2, <2>3
<1>8. PICK more \in Seq(TailRecs), q \in Nat : more = RecordsOf(tail) /\ q = Len(more) /\ q = Parsed(tail)
  <2>1. RecordsOf(tail) \in Seq(TailRecs) /\ Len(RecordsOf(tail)) = Parsed(tail) /\ Parsed(tail) \in Nat
    BY <1>7, RecordsOfFacts, ParsedFacts
  <2> QED BY <2>1
<1>9. PICK shrunk, awaits, pending, torn :
        /\ shrunk = (size < lastSize)
        /\ awaits = (awaiting \/ shrunk)
        /\ pending \in BOOLEAN /\ torn \in BOOLEAN
        /\ verified' = verified \o more
        /\ cursor' = cursor + q * Units
        /\ awaiting' \in BOOLEAN /\ (awaiting' => awaits)
        /\ age' = IF pending THEN PendingAge(shrunk) ELSE -1
        /\ diagTorn' = IF pending THEN diagTorn \/ torn ELSE FALSE
  BY <1>7, <1>8 DEF Drain, Ready, StillTorn
<1>10. PICK all : /\ all = verified' /\ all \in Seq(TailRecs) /\ Len(all) = c + q
                  /\ \A i \in 1..(c + q) : all[i] = IF i <= c THEN verified[i] ELSE more[i - c]
  <2>1. PICK vs : vs = verified /\ vs \in Seq(TailRecs) /\ Len(vs) = c
    BY <1>0, <1>4 DEF ReaderInv
  <2>2. PICK all : all = vs \o more /\ all = verified'
    BY <1>9, <2>1
  <2>3. /\ all \in Seq(TailRecs) /\ Len(all) = c + q
        /\ \A i \in 1..(c + q) : all[i] = IF i <= c THEN vs[i] ELSE more[i - c]
    <3>1. /\ all \in Seq(TailRecs) /\ Len(all) = Len(vs) + Len(more)
          /\ \A i \in 1..(Len(vs) + Len(more)) :
                all[i] = IF i <= Len(vs) THEN vs[i] ELSE more[i - Len(vs)]
      <4>1. PICK ms : ms = more /\ ms \in Seq(TailRecs)
        OBVIOUS
      <4>2. /\ vs \o ms \in Seq(TailRecs) /\ Len(vs \o ms) = Len(vs) + Len(ms)
            /\ \A i \in 1..(Len(vs) + Len(ms)) :
                  (vs \o ms)[i] = IF i <= Len(vs) THEN vs[i] ELSE ms[i - Len(vs)]
        BY <2>1, <4>1, ConcatProperties, Zenon
      <4> QED BY <2>2, <4>1, <4>2
    <3> QED BY <1>8, <2>1, <3>1
  <2> QED BY <2>1, <2>2, <2>3
<1>11. ReaderInv'
  <2>1. cursor' = Units * Len(verified')
    <3>1. (c + q) * u = c * u + q * u /\ u * (c + q) = (c + q) * u
      BY TimesMonotone, Times
    <3> QED BY <1>4, <1>9, <1>10, <3>1
  <2>2. PendingAge(shrunk) \in 0..Grace
    BY <1>0, GraceAssumption DEF ReaderInv, PendingAge
  <2>3. age' \in -1..Grace /\ (diagTorn' => age' # -1) /\ diagTorn' \in BOOLEAN
    <3>1. CASE pending
      <4>1. age' \in 0..Grace /\ diagTorn' = (diagTorn \/ torn)
        BY <1>9, <2>2, <3>1
      <4>2. diagTorn' \in BOOLEAN
        BY <4>1
      <4> QED BY <4>1, <4>2, GraceAssumption
    <3>2. CASE ~pending
      <4>1. age' = -1 /\ diagTorn' = FALSE
        BY <1>9, <3>2
      <4>2. age' \in -1..Grace
        BY <4>1, GraceAssumption
      <4> QED BY <4>1, <4>2, Zenon
    <3> QED BY <3>1, <3>2
  <2>4. verified' \in Seq(TailRecs) /\ awaiting' \in BOOLEAN
    <3>1. awaiting' \in BOOLEAN
      BY <1>9, Zenon
    <3> QED BY <1>10, <3>1
  <2> QED BY <1>0, <1>1, <2>1, <2>3, <2>4 DEF ReaderInv
<1>12. ASSUME ~rolled
       PROVE  /\ IsPrefix(verified', recs)
              /\ ~diagReplaced
              /\ awaiting' => writer.boot > 1
              /\ writer.boot <= 1 => size <= l
  <2>1. /\ IsPrefix(verified, recs)
        /\ ~diagReplaced
        /\ awaiting => writer.boot > 1
        /\ cursor <= size
        /\ writer.boot <= 1 => lastSize <= size /\ size <= l
    BY <1>0, <1>3, <1>12 DEF HonestInv, Drain
  <2>2. awaiting' => writer.boot > 1
    <3>1. PICK b \in Nat : b = writer.boot
      BY <1>0, BoundAssumption DEF FileInv, WriterSet
    <3>2. b <= 1 => ~(size < lastSize)
      BY <1>0, <2>1, <3>1 DEF ReaderInv
    <3>3. ASSUME awaiting' PROVE awaiting \/ size < lastSize
      BY <1>9, <3>3, Zenon
    <3>4. ASSUME awaiting' PROVE ~(b <= 1)
      <4>1. awaiting => b > 1
        BY <2>1, <3>1
      <4> QED BY <3>2, <3>3, <3>4, <4>1
    <3> QED BY <3>1, <3>4
  <2>3. c <= p
    <3>1. PICK vs : vs = verified /\ vs \in Seq(TailRecs) /\ Len(vs) = c
      BY <1>0, <1>4 DEF ReaderInv
    <3>2. Len(vs) <= Len(recs)
      BY <2>1, <3>1, PrefixFacts
    <3> QED BY <1>3, <3>1, <3>2
  <2>4. at <= e
    <3>1. PICK h \in Nat : h = p * u /\ at <= h
      <4>1. c * u <= p * u /\ p * u \in Nat
        BY <2>3, TimesMonotone, Times
      <4> QED BY <1>4, <4>1
    <3>2. d = h
      BY <1>3, <1>4, <3>1 DEF Begins
    <3> QED BY <1>3, <1>4, <1>5, <2>1, <3>1, <3>2
  <2>5. IsPrefix(verified \o more, recs)
    <3>1. PICK vs : vs = verified /\ vs \in Seq(TailRecs) /\ IsPrefix(vs, RecordsOf(run)) /\ Len(vs) = c
      BY <1>0, <1>3, <1>4, <1>6, <2>1 DEF ReaderInv
    <3>2. Begins(Len(vs), at) /\ e <= Len(run)
      BY <1>4, <1>5, <1>6, <3>1
    <3>3. IsPrefix(vs \o RecordsOf(Piece(run, at, e)), RecordsOf(run))
      BY <1>6, <2>4, <3>1, <3>2, ReadGoesOn
    <3> QED BY <1>3, <1>6, <1>7, <1>8, <3>1, <3>3
  <2> QED BY <1>9, <2>1, <2>2, <2>5
<1>13. HonestInv'
  BY <1>1, <1>3, <1>12 DEF HonestInv
<1> QED BY <1>2, <1>11, <1>13 DEF IInv

-----------------------------------------------------------------------------
(* The theorem.                                                             *)

\* It holds of an empty file that nobody has opened.
LEMMA InitInv == TailInit => IInv
<1> SUFFICES ASSUME TailInit PROVE IInv
  OBVIOUS
<1>1. units = <<>> /\ Len(units) = 0 /\ RecordsOf(units) = <<>>
  BY NoUnits DEF TailInit
<1>2. PICK none : none = <<>> /\ none \in Seq(TailRecs) /\ Len(none) = 0
  <2>1. <<>> \in Seq(TailRecs) /\ Len(<<>>) = 0
    OBVIOUS
  <2> QED BY <2>1
<1>3. ChainOk(none)
  <2>1. PICK n \in Nat : n = 0
    OBVIOUS
  <2>2. n = Len(none) /\ 1..n = {} /\ 2..n = {}
    BY <1>2, <2>1
  <2> QED BY <1>2, <2>1, <2>2, ChainLinks
<1>4. writer \in WriterSet /\ writer.boot = 0 /\ writer.begun = 0 /\ ~writer.open
  <2>1. Zero32 \in Nat \X Int
    BY DEF Zero32
  <2>2. PICK t : t = <<>> /\ t \in Seq(Types)
    <3>1. <<>> \in Seq(Types)
      OBVIOUS
    <3> QED BY <3>1
  <2>3. 0 \in 0..MaxBoots /\ 0 \in 0..MaxRecords
    BY BoundAssumption
  <2> QED BY <2>1, <2>2, <2>3 DEF TailInit, Nobody, WriterSet
<1>5. FileInv
  <2>1. Units * 0 = 0
    BY UnitsAssumption
  <2> QED BY <1>1, <1>4, <2>1, NoUnits DEF FileInv
<1>6. ChainInv
  BY <1>1, <1>2, <1>3, <1>4 DEF ChainInv
<1>7. verified = none /\ Units * 0 = 0
  BY <1>2, UnitsAssumption DEF TailInit
<1>8. ReaderInv
  <2>1. age \in -1..Grace /\ size \in Nat /\ lastSize \in Nat /\ cursor = Units * Len(verified)
    BY <1>2, <1>7, GraceAssumption DEF TailInit
  <2>2. /\ pc \in {"rest", "sized"} /\ awaiting \in BOOLEAN /\ diagTorn \in BOOLEAN /\ ~diagTorn
        /\ diagReplaced \in BOOLEAN /\ rolled \in BOOLEAN
    BY DEF TailInit
  <2> QED BY <1>2, <1>7, <2>1, <2>2 DEF ReaderInv
<1>9. IsPrefix(none, none)
  <2>1. Len(none) <= Len(none) /\ \A i \in 1..Len(none) : none[i] = none[i]
    BY <1>2
  <2> QED BY <1>2, <2>1, PrefixFacts
<1>10. HonestInv
  BY <1>1, <1>2, <1>4, <1>7, <1>9 DEF TailInit, HonestInv
<1> QED BY <1>5, <1>6, <1>8, <1>10 DEF IInv

\* Every step keeps it.
LEMMA StepInv == IInv /\ [TailNext]_tailingVars => IInv'
<1> SUFFICES ASSUME IInv, [TailNext]_tailingVars PROVE IInv'
  OBVIOUS
<1>1. CASE Open
  BY <1>1, OpenStep
<1>2. CASE BeginRecord
  BY <1>2, BeginRecordStep
<1>3. CASE Proceed
  BY <1>3, ProceedStep
<1>4. CASE Crash
  BY <1>4, CrashStep
<1>5. CASE Rollback
  BY <1>5, RollbackStep
<1>6. CASE TakeSize
  BY <1>6, TakeSizeStep
<1>7. CASE DrainReplaced
  BY <1>7, DrainReplacedStep
<1>8. CASE Drain
  BY <1>8, DrainStep
<1>9. CASE Tick
  BY <1>9, TickStep
<1>10. CASE UNCHANGED tailingVars
  <2>1. UNCHANGED <<units, writer, pc, size, cursor, lastSize, age, awaiting, diagTorn, diagReplaced,
                    verified, rolled>>
    BY <1>10 DEF tailingVars, tailVars
  <2>2. FileInv' /\ ChainInv'
    BY <2>1, FileStays DEF IInv
  <2>3. ReaderInv' /\ HonestInv'
    BY <2>1 DEF IInv, ReaderInv, HonestInv
  <2> QED BY <2>2, <2>3 DEF IInv
<1> QED BY <1>1, <1>2, <1>3, <1>4, <1>5, <1>6, <1>7, <1>8, <1>9, <1>10 DEF TailNext

\* The units of the file, the chain of its records, and the reader's place in it:
\* all of it together is kept by every step of the writer and of the reader, by
\* every crash and by a rollback.
THEOREM TailingInvariant == TailSpec => []IInv
<1>1. TailInit => IInv
  BY InitInv
<1>2. IInv /\ [TailNext]_tailingVars => IInv'
  BY StepInv
<1> QED BY <1>1, <1>2, PTL DEF TailSpec

\* The types follow from it.
LEMMA ImpliesType == IInv => TypeOK
<1> SUFFICES ASSUME IInv PROVE TypeOK
  OBVIOUS
<1>1. FileInv /\ ChainInv /\ ReaderInv
  BY DEF IInv
<1>2. PICK b \in 0..MaxBoots, n \in 0..MaxRecords : b = writer.boot /\ n = writer.begun
  BY <1>1 DEF FileInv, WriterSet
<1>3. writer.open => b # 0
  BY <1>1, <1>2 DEF ChainInv
<1>4. Len(units) <= Units * MaxRecords
  <2>1. n \in Nat /\ MaxRecords \in Nat /\ Units \in Nat /\ n <= MaxRecords
    BY <1>2, UnitsAssumption, BoundAssumption
  <2>2. n * Units <= MaxRecords * Units
    BY <2>1, TimesMonotone
  <2>3. PICK k \in Nat, m \in Nat : k = Units * n /\ k = n * Units /\ m = Units * MaxRecords /\ m = MaxRecords * Units
    BY <2>1
  <2>4. Len(units) \in Nat /\ Len(units) <= k
    BY <1>1, <1>2, <2>3, LenProperties DEF FileInv
  <2> QED BY <2>2, <2>3, <2>4
<1>5. writer.open => writer.boot \in 1..MaxBoots
  BY <1>2, <1>3
<1> QED BY <1>1, <1>4, <1>5 DEF TypeOK, ReaderInv

\* The tailing reader emits the file's records, each once, in order and never a
\* torn one, and accuses nobody unless history was rolled back: for records of
\* any length, cut and resumed at any moment of a poll.
THEOREM EmittedStaysWritten == TailSpec => []EmittedIsWritten
<1>1. IInv => EmittedIsWritten
  <2> SUFFICES ASSUME IInv PROVE EmittedIsWritten
    OBVIOUS
  <2>1. TypeOK
    BY ImpliesType
  <2>2. ASSUME ~rolled PROVE ChainOk(verified)
    <3>1. PICK recs : recs = RecordsOf(units) /\ recs \in Seq(TailRecs)
      BY RecordsOfFacts DEF IInv, FileInv
    <3>2. PICK vs : vs = verified /\ vs \in Seq(TailRecs)
      BY DEF IInv, ReaderInv
    <3>3. IsPrefix(vs, recs) /\ ChainOk(recs)
      BY <2>2, <3>1, <3>2 DEF IInv, HonestInv, ChainInv
    <3> QED BY <3>1, <3>2, <3>3, ChainPrefix
  <2> QED BY <2>1, <2>2 DEF EmittedIsWritten, IInv, HonestInv
<1> QED BY <1>1, TailingInvariant, PTL
=============================================================================
