-------------------------- MODULE SchedulerProofs --------------------------
(***************************************************************************)
(* Proofs about Scheduler, for any number of sequences, slots and jobs:    *)
(* first what lists of distinct sequences are subject to, then one lemma   *)
(* per method that it preserves IInv, then the theorems.  The two methods  *)
(* that move many sequences at once, _admit and the end of step(), have    *)
(* their own lemmas (Admission, OrderOnce).                                *)
(***************************************************************************)
EXTENDS Scheduler, FiniteSetTheorems, SequenceTheorems, TLAPS

\* No element of the list twice.
Once(q) == \A i, k \in 1..Len(q) : q[i] = q[k] => i = k

\* What a list holds.
LEMMA InRange ==
    ASSUME NEW S, NEW q \in Seq(S)
    PROVE  /\ Range(q) \subseteq S
           /\ \A x : x \in Range(q) <=> \E i \in 1..Len(q) : q[i] = x
BY LenProperties DEF Range

\* A list without its head.
LEMMA TailOnce ==
    ASSUME NEW S, NEW q \in Seq(S), q # <<>>, Once(q)
    PROVE  /\ Head(q) \in S /\ Head(q) \in Range(q)
           /\ Tail(q) \in Seq(S) /\ Once(Tail(q))
           /\ Range(Tail(q)) = Range(q) \ {Head(q)}
<1> DEFINE h == Head(q)  t == Tail(q)  n == Len(q)
<1>1. /\ h \in S /\ t \in Seq(S) /\ n \in Nat \ {0} /\ h = q[1]
      /\ Len(t) = n - 1 /\ \A i \in 1..(n - 1) : t[i] = q[i + 1]
  BY HeadTailProperties, EmptySeq, LenProperties
<1>2. /\ \A x : x \in Range(q) <=> \E i \in 1..n : q[i] = x
      /\ \A x : x \in Range(t) <=> \E i \in 1..(n - 1) : t[i] = x
  <2>1. 1..Len(t) = 1..(n - 1)
    BY <1>1
  <2> HIDE DEF t
  <2> QED BY <1>1, <2>1, InRange
<1>3. \A i, k \in 1..n : q[i] = q[k] => i = k
  BY DEF Once
<1> HIDE DEF h, t, n
<1>4. Once(t)
  BY <1>1, <1>3 DEF Once
<1>5. ASSUME NEW x \in Range(q) \ {h} PROVE x \in Range(t)
  <2>1. PICK i \in 1..n : q[i] = x
    BY <1>5, <1>2
  <2>2. i - 1 \in 1..(n - 1) /\ t[i - 1] = q[(i - 1) + 1] /\ (i - 1) + 1 = i
    BY <2>1, <1>1
  <2> QED BY <2>1, <2>2, <1>2
<1>6. ASSUME NEW x \in Range(t) PROVE x \in Range(q) \ {h}
  <2>1. PICK i \in 1..(n - 1) : t[i] = x
    BY <1>6, <1>2
  <2>2. i + 1 \in 1..n /\ 1 \in 1..n /\ i + 1 # 1 /\ q[i + 1] = x
    BY <2>1, <1>1
  <2> QED BY <2>2, <1>1, <1>2, <1>3
<1>7. h \in Range(q)
  BY <1>1, <1>2
<1> QED BY <1>1, <1>4, <1>5, <1>6, <1>7 DEF h, t

\* A list with one more at its end.
LEMMA AppendOnce ==
    ASSUME NEW S, NEW q \in Seq(S), NEW x \in S
    PROVE  /\ Append(q, x) \in Seq(S)
           /\ Range(Append(q, x)) = Range(q) \cup {x}
           /\ Once(q) /\ x \notin Range(q) => Once(Append(q, x))
<1> DEFINE a == Append(q, x)
<1>1. /\ a \in Seq(S) /\ Len(a) = Len(q) + 1 /\ Len(q) \in Nat
      /\ \A i \in 1..Len(q) : a[i] = q[i]
      /\ a[Len(q) + 1] = x
  BY AppendProperties, LenProperties
<1> HIDE DEF a
<1>2. 1..Len(a) = 1..Len(q) \cup {Len(q) + 1}
  BY <1>1
<1>3. Range(a) = Range(q) \cup {x}
  <2>1. /\ \A y : y \in Range(a) <=> \E i \in 1..Len(a) : a[i] = y
        /\ \A y : y \in Range(q) <=> \E i \in 1..Len(q) : q[i] = y
    BY <1>1, InRange
  <2> QED BY <2>1, <1>1, <1>2
<1>4. ASSUME Once(q), x \notin Range(q) PROVE Once(a)
  <2>1. \A i \in 1..Len(q) : q[i] # x
    BY <1>4, InRange
  <2> QED BY <2>1, <1>1, <1>2, <1>4 DEF Once
<1> QED BY <1>1, <1>3, <1>4 DEF a

\* A list without its first n.
LEMMA Dropped ==
    ASSUME NEW S, NEW q \in Seq(S), NEW n \in 0..Len(q)
    PROVE  LET d == SubSeq(q, n + 1, Len(q)) IN
           /\ d \in Seq(S) /\ Len(d) = Len(q) - n
           /\ \A i \in 1..Len(d) : d[i] = q[n + i]
           /\ Once(q) => /\ Once(d)
                         /\ \A x : x \in Range(d) <=>
                              x \in Range(q) /\ \A i \in 1..n : q[i] # x
<1> DEFINE d == SubSeq(q, n + 1, Len(q))
<1>1. Len(q) \in Nat /\ \A i \in (n + 1)..Len(q) : q[i] \in S
  BY LenProperties
<1>2. /\ d \in Seq(S) /\ Len(d) = Len(q) - n
      /\ \A i \in 1..Len(d) : d[i] = q[n + i]
  BY <1>1, SubSeqProperties
<1> HIDE DEF d
<1>3. ASSUME Once(q) PROVE Once(d)
  <2> SUFFICES ASSUME NEW i \in 1..Len(d), NEW k \in 1..Len(d), d[i] = d[k]
               PROVE  i = k
    BY DEF Once
  <2>1. n + i \in 1..Len(q) /\ n + k \in 1..Len(q) /\ q[n + i] = q[n + k]
    BY <1>1, <1>2
  <2>2. n + i = n + k
    BY <2>1, <1>3 DEF Once
  <2> QED BY <2>2
<1>4. ASSUME Once(q), NEW x
      PROVE  x \in Range(d) <=> x \in Range(q) /\ \A i \in 1..n : q[i] # x
  <2>1. /\ x \in Range(d) <=> \E i \in 1..Len(d) : d[i] = x
        /\ x \in Range(q) <=> \E i \in 1..Len(q) : q[i] = x
    BY <1>2, InRange
  <2>2. ASSUME NEW i \in 1..Len(d), d[i] = x
        PROVE  x \in Range(q) /\ \A k \in 1..n : q[k] # x
    <3>1. n + i \in 1..Len(q) /\ q[n + i] = x
      BY <2>2, <1>1, <1>2
    <3>2. \A k \in 1..n : k \in 1..Len(q) /\ k # n + i
      BY <1>1
    <3> QED BY <3>1, <3>2, <2>1, <1>4 DEF Once
  <2>3. ASSUME NEW i \in 1..Len(q), q[i] = x, \A k \in 1..n : q[k] # x
        PROVE  x \in Range(d)
    <3>1. i > n
      BY <2>3
    <3>2. i - n \in 1..Len(d) /\ n + (i - n) = i
      BY <3>1, <1>1, <1>2
    <3>3. d[i - n] = x
      BY <3>2, <1>2, <2>3
    <3> QED BY <3>2, <3>3, <2>1
  <2> QED BY <2>1, <2>2, <2>3
<1> QED BY <1>2, <1>3, <1>4 DEF d

\* Two lists without repetitions and without a common element, one behind
\* the other.
LEMMA ConcatOnce ==
    ASSUME NEW S, NEW p \in Seq(S), NEW q \in Seq(S), Once(p), Once(q),
           Range(p) \cap Range(q) = {}
    PROVE  /\ p \o q \in Seq(S) /\ Once(p \o q)
           /\ Range(p \o q) = Range(p) \cup Range(q)
<1> DEFINE c == p \o q
<1>1. /\ c \in Seq(S) /\ Len(c) = Len(p) + Len(q)
      /\ Len(p) \in Nat /\ Len(q) \in Nat
      /\ \A i \in 1..(Len(p) + Len(q)) : c[i] = IF i <= Len(p) THEN p[i] ELSE q[i - Len(p)]
  BY ConcatProperties, LenProperties
<1>2. Range(c) = Range(p) \cup Range(q)
  BY RangeConcatenation
<1> HIDE DEF c
<1>3. ASSUME NEW i \in 1..Len(c)
      PROVE  \/ i \in 1..Len(p) /\ c[i] = p[i] /\ c[i] \in Range(p)
             \/ /\ i > Len(p) /\ i - Len(p) \in 1..Len(q) /\ c[i] = q[i - Len(p)]
                /\ c[i] \in Range(q)
  BY <1>1, InRange
<1>4. Once(c)
  <2> SUFFICES ASSUME NEW i \in 1..Len(c), NEW k \in 1..Len(c), c[i] = c[k]
               PROVE  i = k
    BY DEF Once
  <2>1. CASE i \in 1..Len(p) /\ k \in 1..Len(p)
    BY <2>1, <1>3, <1>1 DEF Once
  <2>2. CASE i > Len(p) /\ k > Len(p)
    <3>1. i - Len(p) = k - Len(p)
      BY <2>2, <1>3, <1>1 DEF Once
    <3> QED BY <3>1, <1>1
  <2>3. CASE ~(i \in 1..Len(p) <=> k \in 1..Len(p))
    BY <2>3, <1>3, <1>1
  <2> QED BY <2>1, <2>2, <2>3, <1>1
<1> QED BY <1>1, <1>2, <1>4 DEF c

\* Lists without repetitions of a finite set, in any order.
LEMMA OrderOnce ==
    ASSUME NEW S, NEW T \in SUBSET S, IsFiniteSet(T),
           NEW o \in [1..Cardinality(T) -> T], Range(o) = T
    PROVE  o \in Seq(S) /\ Once(o) /\ Range(o) = T
<1>1. Cardinality(T) \in Nat
  BY FS_CardinalityType
<1>2. o \in Seq(S) /\ Len(o) = Cardinality(T)
  <2>1. \A i \in 1..Cardinality(T) : o[i] \in S
    BY DEF Range
  <2>2. o \in [1..Cardinality(T) -> S]
    BY <2>1
  <2> QED BY <2>2, <1>1
<1>3. o \in Surjection(1..Cardinality(T), T)
  BY DEF Range, Surjection
<1>4. IsFiniteSet(1..Cardinality(T)) /\ Cardinality(1..Cardinality(T)) = Cardinality(T)
  BY <1>1, FS_Interval
<1>5. o \in Injection(1..Cardinality(T), T)
  BY <1>3, <1>4, FS_SurjSameCardinalityImpliesInj
<1> QED BY <1>2, <1>5 DEF Injection, IsInjective, Once

\* Positions of cells.
LEMMA CellsType ==
    ASSUME NEW p \in Nat, NEW n \in Nat
    PROVE  Cells(p, n) \in Seq(Nat) /\ Len(Cells(p, n)) = n
BY DEF Cells

\* Tokens that are decoded where the others end.
LEMMA CellsConcat ==
    ASSUME NEW p \in Nat, NEW n \in Nat
    PROVE  Cells(0, p) \o Cells(p, n) = Cells(0, p + n)
<1> DEFINE a == Cells(0, p)  b == Cells(p, n)  c == Cells(0, p + n)
<1>1. /\ a \in Seq(Nat) /\ Len(a) = p /\ b \in Seq(Nat) /\ Len(b) = n
      /\ c \in Seq(Nat) /\ Len(c) = p + n
  BY CellsType
<1>2. /\ \A i \in 1..p : a[i] = i - 1
      /\ \A i \in 1..n : b[i] = p + i - 1
      /\ \A i \in 1..(p + n) : c[i] = i - 1
  BY DEF Cells
<1> HIDE DEF a, b, c
<1>3. /\ a \o b \in Seq(Nat) /\ Len(a \o b) = p + n
      /\ \A i \in 1..(p + n) : (a \o b)[i] = IF i <= p THEN a[i] ELSE b[i - p]
  BY <1>1, ConcatProperties
<1>4. \A i \in 1..(p + n) : (a \o b)[i] = c[i]
  <2> TAKE i \in 1..(p + n)
  <2>1. CASE i <= p
    BY <2>1, <1>2, <1>3
  <2>2. CASE i > p
    <3>1. i - p \in 1..n
      BY <2>2
    <3> QED BY <3>1, <2>2, <1>2, <1>3
  <2>3. i <= p \/ i > p
    OBVIOUS
  <2> QED BY <2>1, <2>2, <2>3, Zenon
<1> QED BY <1>1, <1>3, <1>4, SeqEqual DEF a, b, c

\* No cells.
LEMMA CellsEmpty == Cells(0, 0) = <<>>
BY DEF Cells

-----------------------------------------------------------------------------
(* What the invariant says, spelled out for the provers.                    *)

\* Sets of sequences are finite.
LEMMA SeqIdFinite ==
    /\ IsFiniteSet(SeqId)
    /\ \A S \in SUBSET SeqId : IsFiniteSet(S) /\ Cardinality(S) \in Nat
<1>1. IsFiniteSet(SeqId)
  BY FS_Interval, CountsAssumption DEF SeqId
<1>2. ASSUME NEW S \in SUBSET SeqId PROVE IsFiniteSet(S) /\ Cardinality(S) \in Nat
  BY <1>1, FS_Subset, FS_CardinalityType
<1> QED BY <1>1, <1>2

\* The list of free sequences.
LEMMA FreeFacts ==
    ASSUME IInv
    PROVE  /\ free \in Seq(SeqId) /\ Once(free)
           /\ \A s \in SeqId : s \in Range(free) <=> s \notin Live /\ s \notin holders
BY DEF IInv, TypeOK, OneOwner, Once

\* The queue.
LEMMA QueueFacts ==
    ASSUME IInv
    PROVE  /\ queue \in Seq(Job) /\ Once(queue) /\ Range(queue) \subseteq Job
           /\ \A j \in Range(queue) :
                /\ \A s \in SeqId : slots[s] # j
                /\ slot[j].past = 0
<1>1. queue \in Seq(Job) /\ Once(queue)
  BY DEF IInv, TypeOK, QueueInv, Once
<1>2. Range(queue) \subseteq Job
  BY <1>1, InRange
<1> QED BY <1>1, <1>2 DEF IInv, QueueInv, Waiting

\* A new slot.
LEMMA BlankType ==
    /\ Blank \in Slot /\ Blank.past = 0 /\ Blank.session = FALSE
    /\ [Blank EXCEPT !.session = TRUE] \in Slot
    /\ [Blank EXCEPT !.session = TRUE].past = 0
    /\ \A n \in Nat : /\ [Blank EXCEPT !.pending = n] \in Slot
                      /\ [Blank EXCEPT !.pending = n].past = 0
BY DEF Blank, Slot

\* Inputs are numbers, and so are the bounds.
LEMMA Counts ==
    /\ NSeq \in Nat \ {0} /\ MaxTokens \in Nat \ {0} /\ MaxInput \in Nat \ {0}
    /\ NCtx \in Nat \ {0} /\ MaxActive \in Nat \ {0} /\ MaxActive <= NSeq
    /\ Input \subseteq Nat
BY CountsAssumption DEF Input

-----------------------------------------------------------------------------
(* Every method preserves the invariant.                                    *)

\* In the beginning all sequences are free.
LEMMA InitInv == Init => IInv
<1> SUFFICES ASSUME Init PROVE IInv
  OBVIOUS
<1>1. free \in Seq(SeqId) /\ Len(free) = NSeq /\ \A i \in 1..NSeq : free[i] = i - 1
  BY Counts DEF Init, SeqId
<1>2. Live = {}
  BY DEF Init, Live
<1>3. \A s \in SeqId : s \in Range(free)
  <2> TAKE s \in SeqId
  <2>1. s + 1 \in 1..NSeq /\ free[s + 1] = s
    BY <1>1, Counts DEF SeqId
  <2> QED BY <2>1, <1>1, InRange
<1>4. TypeOK
  <2>1. <<>> \in Seq(Nat) /\ <<>> \in Seq(Job)
    OBVIOUS
  <2> QED BY <1>1, <2>1, BlankType DEF Init, TypeOK
<1>5. OneOwner
  <2>1. \A i, k \in 1..Len(free) : free[i] = free[k] => i = k
    BY <1>1, Counts
  <2>2. Cardinality(Live) <= MaxActive
    BY <1>2, FS_EmptySet, Counts
  <2> QED BY <2>1, <2>2, <1>2, <1>3 DEF OneOwner, Init
<1>6. PositionIsKV /\ CleanInv
  BY <1>2 DEF PositionIsKV, CleanInv, Init
<1>7. HolderInv
  BY DEF HolderInv, Init
<1>8. QueueInv
  <2>1. Len(queue) = 0 /\ Waiting = {}
    BY DEF Init, Waiting, Range
  <2> QED BY <2>1 DEF QueueInv
<1> QED BY <1>4, <1>5, <1>6, <1>7, <1>8 DEF IInv

\* submit: the request that waits is in nobody's slot.
LEMMA SubmitInv ==
    ASSUME IInv, NEW j \in Job, NEW n \in Nat, Submit(j, n)
    PROVE  IInv'
<1> USE DEF Submit
<1>1. j \notin Range(queue) /\ \A s \in SeqId : slots[s] # j
  BY DEF Unused, Waiting
<1>2. /\ queue' \in Seq(Job) /\ Range(queue') = Range(queue) \cup {j} /\ Once(queue')
  BY <1>1, QueueFacts, AppendOnce
<1>3. /\ slot' \in [Job -> Slot] /\ slot'[j].past = 0
      /\ \A k \in Job : k # j => slot'[k] = slot[k]
  BY BlankType DEF IInv, TypeOK
<1>4. Live' = Live
  BY DEF Live
<1>5. TypeOK'
  BY <1>2, <1>3 DEF IInv, TypeOK
<1>6. OneOwner'
  BY <1>4 DEF IInv, OneOwner
<1>7. PositionIsKV'
  <2>1. \A s \in Live : slots[s] \in Job /\ slots[s] # j
    BY <1>1 DEF IInv, TypeOK, Live
  <2> QED BY <2>1, <1>3, <1>4 DEF IInv, PositionIsKV
<1>8. CleanInv' /\ HolderInv'
  BY <1>4 DEF IInv, CleanInv, HolderInv
<1>9. QueueInv'
  BY <1>1, <1>2, <1>3, QueueFacts DEF QueueInv, Waiting, Once
<1> QED BY <1>5, <1>6, <1>7, <1>8, <1>9 DEF IInv

\* open_slot: what it takes from the list is clean.
LEMMA OpenSlotInv ==
    ASSUME IInv, NEW j \in Job, OpenSlot(j)
    PROVE  IInv'
<1> DEFINE s == Head(free)
<1>1. /\ s \in SeqId /\ free' \in Seq(SeqId) /\ Once(free')
      /\ Range(free') = Range(free) \ {s} /\ s \in Range(free)
  BY FreeFacts, TailOnce DEF OpenSlot, SlotFree, Taken
<1>2. s \notin Live /\ s \notin holders /\ kv[s] = <<>> /\ shared[s] = None
  BY <1>1, FreeFacts DEF IInv, CleanInv
<1>3. j \notin Range(queue) /\ \A t \in SeqId : slots[t] # j
  BY DEF OpenSlot, Unused, Waiting
<1>4. /\ slots' \in [SeqId -> Job \cup {None}] /\ slots'[s] = j
      /\ \A t \in SeqId : t # s => slots'[t] = slots[t]
  BY <1>1 DEF OpenSlot, IInv, TypeOK
<1>5. /\ slot' \in [Job -> Slot] /\ slot'[j].past = 0
      /\ \A k \in Job : k # j => slot'[k] = slot[k]
  BY BlankType DEF OpenSlot, IInv, TypeOK
<1>6. UNCHANGED <<queue, holders, consumers, kv, shared>> /\ Cardinality(Live) < MaxActive
  BY DEF OpenSlot, SlotFree
<1> HIDE DEF s
<1>7. Live' = Live \cup {s}
  BY <1>1, <1>4, NoneAssumption DEF Live
<1>8. TypeOK'
  BY <1>1, <1>4, <1>5, <1>6 DEF IInv, TypeOK
<1>9. OneOwner'
  <2>1. \A t \in SeqId : /\ t \in Range(free') <=> t \notin Live' \cup holders'
                         /\ ~(t \in Live' /\ t \in holders')
    BY <1>1, <1>2, <1>6, <1>7, FreeFacts DEF IInv, OneOwner
  <2>2. \A t, u \in Live' : slots'[t] = slots'[u] => t = u
    <3>1. Live \subseteq SeqId
      BY DEF Live
    <3> QED BY <3>1, <1>1, <1>3, <1>4, <1>7 DEF IInv, OneOwner
  <2>3. Cardinality(Live') <= MaxActive
    <3>1. IsFiniteSet(Live) /\ Cardinality(Live) \in Nat
      BY SeqIdFinite DEF Live
    <3>2. Cardinality(Live') = Cardinality(Live) + 1
      BY <3>1, <1>2, <1>7, FS_AddElement
    <3> QED BY <3>1, <3>2, <1>6, Counts
  <2> QED BY <2>1, <2>2, <2>3, <1>1 DEF OneOwner, Once
<1>10. PositionIsKV'
  <2> SUFFICES ASSUME NEW t \in Live'
               PROVE  /\ kv[t] = Cells(0, slot'[slots'[t]].past)
                      /\ shared[t] # None => shared[t] \in holders
    BY <1>6 DEF PositionIsKV, Cells
  <2>1. CASE t = s
    BY <2>1, <1>2, <1>4, <1>5, CellsEmpty
  <2>2. CASE t # s
    <3>1. t \in Live /\ t \in SeqId /\ slots[t] \in Job /\ slots[t] # j
      BY <2>2, <1>3, <1>7 DEF IInv, TypeOK, Live
    <3> QED BY <3>1, <2>2, <1>4, <1>5 DEF IInv, PositionIsKV
  <2> QED BY <2>1, <2>2
<1>11. CleanInv'
  BY <1>6, <1>7 DEF IInv, CleanInv
<1>12. HolderInv'
  BY <1>6, <1>7 DEF IInv, HolderInv, Cells
<1>13. QueueInv'
  <2>1. \A k \in Range(queue) : k # j /\ slot'[k] = slot[k]
    BY <1>3, <1>5, QueueFacts
  <2> QED BY <2>1, <1>3, <1>4, <1>6, QueueFacts DEF QueueInv, Waiting, Once
<1> QED BY <1>8, <1>9, <1>10, <1>11, <1>12, <1>13 DEF IInv

\* feed: positions stay.
LEMMA FeedInv ==
    ASSUME IInv, NEW jobs, NEW input, \A j \in Job : input[j] \in Nat, Feed(jobs, input)
    PROVE  IInv'
<1>1. slot' \in [Job -> Slot] /\ \A j \in Job : slot'[j].past = slot[j].past
  BY DEF Feed, IInv, TypeOK, Slot
<1>2. UNCHANGED <<free, queue, slots, holders, consumers, kv, shared>>
  BY DEF Feed
<1>3. Live' = Live /\ \A s \in Live : slots[s] \in Job
  BY <1>2 DEF Live, IInv, TypeOK
<1>4. TypeOK' /\ OneOwner'
  BY <1>1, <1>2, <1>3 DEF IInv, TypeOK, OneOwner
<1>5. PositionIsKV'
  BY <1>1, <1>2, <1>3 DEF IInv, PositionIsKV
<1>6. CleanInv' /\ HolderInv'
  BY <1>2, <1>3 DEF IInv, CleanInv, HolderInv
<1>7. QueueInv'
  BY <1>1, <1>2, QueueFacts DEF QueueInv, Waiting, Once
<1> QED BY <1>4, <1>5, <1>6, <1>7 DEF IInv

\* close_slot: the sequence goes back clean, and no holder counts it any more.
LEMMA CloseSlotInv ==
    ASSUME IInv, NEW s \in SeqId, CloseSlot(s)
    PROVE  IInv'
<1> DEFINE j == slots[s]
<1>1. s \in Live /\ j \in Job /\ j # None /\ s \notin Range(free) /\ s \notin holders
  BY FreeFacts, NoneAssumption DEF CloseSlot, Live, IInv, TypeOK, OneOwner
<1>2. /\ free' \in Seq(SeqId) /\ Once(free') /\ Range(free') = Range(free) \cup {s}
  BY <1>1, FreeFacts, AppendOnce DEF CloseSlot
<1>3. /\ slots' \in [SeqId -> Job \cup {None}] /\ slots'[s] = None
      /\ \A t \in SeqId : t # s => slots'[t] = slots[t]
  BY DEF CloseSlot, IInv, TypeOK
<1>4. /\ slot' \in [Job -> Slot] /\ slot'[j].past = 0
      /\ \A k \in Job : k # j => slot'[k] = slot[k]
  BY <1>1, BlankType DEF CloseSlot, IInv, TypeOK
<1>5. /\ consumers' = [h \in SeqId |-> consumers[h] \ {s}]
      /\ shared' = [t \in SeqId |-> IF t = s THEN None ELSE shared[t]]
      /\ kv' = [t \in SeqId |-> IF t = s THEN <<>> ELSE kv[t]]
      /\ UNCHANGED <<queue, holders>>
  BY DEF CloseSlot, Recycled, Emptied
<1> HIDE DEF j
<1>6. Live' = Live \ {s} /\ Live \subseteq SeqId
  BY <1>3 DEF Live
<1>7. TypeOK'
  <2>1. <<>> \in Seq(Nat)
    OBVIOUS
  <2> QED BY <2>1, <1>2, <1>3, <1>4, <1>5 DEF IInv, TypeOK
<1>8. OneOwner'
  <2>1. \A t \in SeqId : /\ t \in Range(free') <=> t \notin Live' \cup holders'
                         /\ ~(t \in Live' /\ t \in holders')
    BY <1>1, <1>2, <1>5, <1>6, FreeFacts DEF IInv, OneOwner
  <2>2. \A t, u \in Live' : slots'[t] = slots'[u] => t = u
    BY <1>3, <1>6 DEF IInv, OneOwner
  <2>3. Cardinality(Live') <= MaxActive
    <3>1. IsFiniteSet(Live) /\ Cardinality(Live) \in Nat
      BY SeqIdFinite, <1>6
    <3>2. Cardinality(Live') = Cardinality(Live) - 1
      BY <3>1, <1>1, <1>6, FS_RemoveElement
    <3> QED BY <3>1, <3>2, Counts DEF IInv, OneOwner
  <2> QED BY <2>1, <2>2, <2>3, <1>2 DEF OneOwner, Once
<1>9. PositionIsKV'
  <2> SUFFICES ASSUME NEW t \in Live'
               PROVE  /\ kv'[t] = Cells(0, slot'[slots'[t]].past)
                      /\ shared'[t] # None => shared'[t] \in holders'
    BY DEF PositionIsKV, Cells
  <2>1. t \in Live /\ t \in SeqId /\ t # s /\ slots[t] \in Job
    BY <1>6 DEF IInv, TypeOK, Live
  <2>2. slots[t] # j
    BY <2>1, <1>1 DEF IInv, OneOwner, j
  <2> QED BY <2>1, <2>2, <1>3, <1>4, <1>5 DEF IInv, PositionIsKV
<1>10. CleanInv'
  BY <1>5, <1>6 DEF IInv, CleanInv
<1>11. HolderInv'
  <2>1. \A t \in SeqId : shared'[t] # None => t \in consumers'[shared'[t]]
    BY <1>5 DEF IInv, HolderInv, TypeOK
  <2>2. \A h \in SeqId : /\ consumers'[h] \subseteq Live'
                         /\ h \notin holders' => consumers'[h] = {}
    BY <1>5, <1>6 DEF IInv, HolderInv
  <2>3. \A h \in holders : h \in SeqId /\ h # s
    BY <1>1 DEF IInv, TypeOK
  <2>4. \A h \in holders' : shared'[h] = None /\ kv'[h] = Cells(0, Len(kv'[h]))
    BY <2>3, <1>5 DEF IInv, HolderInv
  <2> QED BY <2>1, <2>2, <2>4 DEF HolderInv, Cells
<1>12. QueueInv'
  <2>1. \A k \in Range(queue) : k # None /\ k # j /\ slot'[k] = slot[k]
    BY <1>1, <1>4, QueueFacts, NoneAssumption DEF j
  <2> QED BY <2>1, <1>3, <1>5, QueueFacts DEF QueueInv, Waiting, Once
<1> QED BY <1>7, <1>8, <1>9, <1>10, <1>11, <1>12 DEF IInv

\* Cells are shared with holders only.
LEMMA Shared ==
    ASSUME IInv, NEW t \in SeqId
    PROVE  shared[t] \in holders \cup {None}
BY DEF IInv, TypeOK, HolderInv

\* A slot whose position is set, and the others.
LEMMA PastSet ==
    ASSUME slot \in [Job -> Slot], NEW j \in Job, NEW n \in Nat,
           slot' = [slot EXCEPT ![j].past = n]
    PROVE  /\ slot' \in [Job -> Slot] /\ slot'[j].past = n
           /\ \A k \in Job : k # j => slot'[k] = slot[k]
<1>1. [slot[j] EXCEPT !.past = n] \in Slot /\ [slot[j] EXCEPT !.past = n].past = n
  BY DEF Slot
<1> QED BY <1>1

\* What a method leaves that changes the cells and the position of one slot,
\* and whose cells it shares.
LEMMA OneSlotInv ==
    ASSUME IInv, NEW s \in Live, NEW n \in Nat,
           UNCHANGED <<free, queue, slots, holders>>,
           kv' = [kv EXCEPT ![s] = Cells(0, n)],
           slot' = [slot EXCEPT ![slots[s]].past = n],
           shared' \in [SeqId -> holders \cup {None}],
           shared'[s] # None => s \in consumers'[shared'[s]],
           \A t \in SeqId \ {s} : shared'[t] = shared[t],
           consumers' \in [SeqId -> SUBSET SeqId],
           \A g \in SeqId : /\ consumers[g] \subseteq consumers'[g]
                            /\ consumers'[g] \subseteq Live
                            /\ g \notin holders => consumers'[g] = {}
    PROVE  IInv'
<1> DEFINE j == slots[s]
<1>1. s \in SeqId /\ j \in Job /\ j # None /\ s \notin holders
  BY NoneAssumption DEF Live, IInv, TypeOK, OneOwner
<1>2. /\ slot' \in [Job -> Slot] /\ slot'[j].past = n
      /\ \A k \in Job : k # j => slot'[k] = slot[k]
  BY <1>1, PastSet DEF IInv, TypeOK
<1>3. /\ kv' \in [SeqId -> Seq(Nat)] /\ kv'[s] = Cells(0, n)
      /\ \A t \in SeqId : t # s => kv'[t] = kv[t]
  BY <1>1, CellsType DEF IInv, TypeOK
<1>4. /\ shared' \in [SeqId -> SeqId \cup {None}]
      /\ \A t \in SeqId : t # s => shared'[t] = shared[t]
  BY <1>1 DEF IInv, TypeOK
<1> HIDE DEF j
<1>5. Live' = Live /\ Live \subseteq SeqId
  BY DEF Live
<1>6. TypeOK'
  BY <1>2, <1>3, <1>4 DEF IInv, TypeOK
<1>7. OneOwner'
  BY <1>5 DEF IInv, OneOwner
<1>8. PositionIsKV'
  <2> SUFFICES ASSUME NEW t \in Live
               PROVE  /\ kv'[t] = Cells(0, slot'[slots[t]].past)
                      /\ shared'[t] # None => shared'[t] \in holders
    BY <1>5 DEF PositionIsKV, Cells
  <2>1. CASE t = s
    BY <2>1, <1>1, <1>2, <1>3 DEF j
  <2>2. CASE t # s
    <3>1. t \in SeqId /\ slots[t] \in Job /\ slots[t] # j
      BY <2>2 DEF IInv, TypeOK, Live, OneOwner, j
    <3> QED BY <3>1, <2>2, <1>2, <1>3, <1>4 DEF IInv, PositionIsKV
  <2> QED BY <2>1, <2>2
<1>9. CleanInv'
  BY <1>3, <1>4, <1>5 DEF IInv, CleanInv
<1>10. HolderInv'
  <2>1. \A t \in SeqId : shared'[t] # None => t \in consumers'[shared'[t]]
    <3> SUFFICES ASSUME NEW t \in SeqId, shared'[t] # None
                 PROVE  t \in consumers'[shared'[t]]
      OBVIOUS
    <3>1. CASE t = s
      BY <3>1
    <3>2. CASE t # s
      <4>1. shared[t] \in SeqId /\ t \in consumers[shared[t]] /\ shared'[t] = shared[t]
        BY <3>2, <1>4 DEF IInv, HolderInv, TypeOK
      <4> QED BY <4>1
    <3> QED BY <3>1, <3>2
  <2>2. \A g \in holders : g \in SeqId /\ g # s
    BY <1>1 DEF IInv, TypeOK
  <2>3. \A g \in holders' : shared'[g] = None /\ kv'[g] = Cells(0, Len(kv'[g]))
    BY <2>2, <1>3, <1>4 DEF IInv, HolderInv
  <2> QED BY <2>1, <2>3, <1>5 DEF HolderInv, Cells
<1>11. QueueInv'
  <2>1. \A k \in Range(queue) : k # j /\ slot'[k] = slot[k]
    BY <1>1, <1>2, QueueFacts DEF j
  <2> QED BY <2>1, QueueFacts DEF QueueInv, Waiting, Once
<1> QED BY <1>6, <1>7, <1>8, <1>9, <1>10, <1>11 DEF IInv

\* load_slot_state: the position is set to fit the state.
LEMMA LoadStateInv ==
    ASSUME IInv, NEW s \in SeqId, NEW n \in Nat, LoadState(s, n)
    PROVE  IInv'
<1>1. s \in Live
  BY DEF LoadState
<1>2. /\ consumers' = consumers /\ consumers' \in [SeqId -> SUBSET SeqId]
      /\ \A g \in SeqId : /\ consumers[g] \subseteq consumers'[g]
                          /\ consumers'[g] \subseteq Live
                          /\ g \notin holders => consumers'[g] = {}
  BY DEF LoadState, IInv, TypeOK, HolderInv
<1>3. /\ kv' = [kv EXCEPT ![s] = Cells(0, n)]
      /\ slot' = [slot EXCEPT ![slots[s]].past = n]
      /\ UNCHANGED <<free, queue, slots, holders>>
  BY DEF LoadState
<1>4. \A t \in SeqId : shared[t] \in holders \cup {None}
  BY Shared
<1>5. /\ shared' \in [SeqId -> holders \cup {None}] /\ shared'[s] = None
      /\ \A t \in SeqId \ {s} : shared'[t] = shared[t]
  BY <1>4 DEF LoadState, IInv, TypeOK
<1> QED BY <1>1, <1>2, <1>3, <1>5, OneSlotInv

\* copy_prefix_to_slot: into a new slot, which becomes a consumer.
LEMMA CopyPrefixInv ==
    ASSUME IInv, NEW h \in holders, NEW s \in SeqId, kv[s] = <<>>,
           CopyPrefix(h, s, Len(kv[h]))
    PROVE  IInv'
<1>1. s \in Live /\ h \in SeqId /\ h # None
  BY NoneAssumption DEF CopyPrefix, IInv, TypeOK, SeqId
<1>2. kv[h] \in Seq(Nat) /\ Len(kv[h]) \in Nat /\ kv[h] = Cells(0, Len(kv[h]))
  BY <1>1 DEF IInv, TypeOK, HolderInv
<1>3. kv[s] \o kv[h] = Cells(0, Len(kv[h]))
  BY <1>2, ConcatEmptySeq
<1>4. kv' = [kv EXCEPT ![s] = Cells(0, Len(kv[h]))]
  BY <1>3 DEF CopyPrefix
<1>5. /\ consumers' = [consumers EXCEPT ![h] = @ \cup {s}]
      /\ consumers' \in [SeqId -> SUBSET SeqId]
      /\ \A g \in SeqId : consumers'[g] = IF g = h THEN consumers[g] \cup {s}
                                                  ELSE consumers[g]
  BY <1>1 DEF CopyPrefix, IInv, TypeOK
<1>6. \A g \in SeqId : /\ consumers[g] \subseteq consumers'[g]
                       /\ consumers'[g] \subseteq Live
                       /\ g \notin holders => consumers'[g] = {}
  BY <1>1, <1>5 DEF IInv, HolderInv
<1>7. s \in consumers'[h]
  BY <1>1, <1>5
<1>8. slot' = [slot EXCEPT ![slots[s]].past = Len(kv[h])]
  BY DEF CopyPrefix, Seeded
<1>9. \A t \in SeqId : shared[t] \in holders \cup {None}
  BY Shared
<1>10. /\ shared' \in [SeqId -> holders \cup {None}] /\ shared'[s] = h
       /\ \A t \in SeqId \ {s} : shared'[t] = shared[t]
  BY <1>9 DEF CopyPrefix, IInv, TypeOK
<1>11. UNCHANGED <<free, queue, slots, holders>>
  BY DEF CopyPrefix
<1> QED BY <1>1, <1>2, <1>4, <1>5, <1>6, <1>7, <1>8, <1>10, <1>11, OneSlotInv

\* reserve_prefix_holder: a free sequence is empty and shares nothing.
LEMMA ReserveInv ==
    ASSUME IInv, Reserve
    PROVE  IInv'
<1> DEFINE s == Head(free)
<1>1. /\ s \in SeqId /\ free' \in Seq(SeqId) /\ Once(free')
      /\ Range(free') = Range(free) \ {s} /\ s \in Range(free)
  BY FreeFacts, TailOnce DEF Reserve
<1>2. s \notin Live /\ s \notin holders /\ kv[s] = <<>> /\ shared[s] = None
  BY <1>1, FreeFacts DEF IInv, CleanInv
<1>3. holders' = holders \cup {s} /\ UNCHANGED <<queue, slots, slot, consumers, kv, shared>>
  BY DEF Reserve
<1> HIDE DEF s
<1>4. Live' = Live
  BY <1>3 DEF Live
<1>5. TypeOK'
  BY <1>1, <1>3 DEF IInv, TypeOK
<1>6. OneOwner'
  <2>1. \A t \in SeqId : /\ t \in Range(free') <=> t \notin Live' \cup holders'
                         /\ ~(t \in Live' /\ t \in holders')
    BY <1>1, <1>2, <1>3, <1>4, FreeFacts DEF IInv, OneOwner
  <2> QED BY <2>1, <1>1, <1>3, <1>4 DEF IInv, OneOwner, Once
<1>7. PositionIsKV' /\ CleanInv'
  BY <1>3, <1>4 DEF IInv, PositionIsKV, CleanInv
<1>8. HolderInv'
  <2>1. Len(kv[s]) = 0 /\ kv[s] = Cells(0, 0)
    BY <1>2, CellsEmpty
  <2> QED BY <2>1, <1>2, <1>3, <1>4 DEF IInv, HolderInv
<1>9. QueueInv'
  BY <1>3, QueueFacts DEF QueueInv, Waiting, Once
<1> QED BY <1>5, <1>6, <1>7, <1>8, <1>9 DEF IInv

\* warm_prefix: once, into an empty holder.
LEMMA WarmInv ==
    ASSUME IInv, NEW h \in holders, NEW n \in Nat, kv[h] = <<>>, Warm(h, n)
    PROVE  IInv'
<1>1. h \in SeqId /\ h \notin Live
  BY DEF IInv, TypeOK, OneOwner
<1>2. kv[h] \o Cells(0, n) = Cells(0, n) /\ Len(Cells(0, n)) = n
  BY CellsType, ConcatEmptySeq
<1>3. /\ kv' \in [SeqId -> Seq(Nat)] /\ kv'[h] = Cells(0, n)
      /\ \A t \in SeqId : t # h => kv'[t] = kv[t]
  BY <1>1, <1>2, CellsType DEF Warm, IInv, TypeOK
<1>4. UNCHANGED <<free, queue, slots, slot, holders, consumers, shared>>
  BY DEF Warm
<1>5. Live' = Live /\ Live \subseteq SeqId /\ holders \subseteq SeqId
  BY <1>4 DEF Live, IInv, TypeOK
<1>6. TypeOK' /\ OneOwner'
  BY <1>3, <1>4, <1>5 DEF IInv, TypeOK, OneOwner
<1>7. PositionIsKV' /\ CleanInv'
  BY <1>1, <1>3, <1>4, <1>5 DEF IInv, PositionIsKV, CleanInv
<1>8. HolderInv'
  <2>1. \A g \in holders : kv'[g] = Cells(0, Len(kv'[g]))
    BY <1>2, <1>3, <1>5 DEF IInv, HolderInv
  <2> QED BY <2>1, <1>4, <1>5 DEF IInv, HolderInv
<1>9. QueueInv'
  BY <1>4, QueueFacts DEF QueueInv, Waiting, Once
<1> QED BY <1>6, <1>7, <1>8, <1>9 DEF IInv

\* release_prefix_holder: nobody shares the cells that go.
LEMMA ReleaseHolderInv ==
    ASSUME IInv, NEW h \in holders, ReleaseHolder(h)
    PROVE  IInv'
<1>1. h \in SeqId /\ h \notin Live /\ h \notin Range(free) /\ consumers[h] = {}
  BY FreeFacts DEF ReleaseHolder, Releasable, IInv, TypeOK, OneOwner
<1>2. free' \in Seq(SeqId) /\ Once(free') /\ Range(free') = Range(free) \cup {h}
  BY <1>1, FreeFacts, AppendOnce DEF ReleaseHolder
<1>3. /\ consumers' = consumers
      /\ shared' = [shared EXCEPT ![h] = None]
      /\ kv' = [t \in SeqId |-> IF t = h THEN <<>> ELSE kv[t]]
      /\ holders' = holders \ {h}
      /\ UNCHANGED <<queue, slots, slot>>
  BY <1>1 DEF ReleaseHolder, Emptied, IInv, TypeOK
<1>4. Live' = Live /\ Live \subseteq SeqId
  BY <1>3 DEF Live
<1>5. \A t \in SeqId : shared[t] # h /\ (shared'[t] = IF t = h THEN None ELSE shared[t])
  BY <1>1, <1>3, NoneAssumption DEF IInv, TypeOK, HolderInv, SeqId
<1>6. TypeOK'
  <2>1. <<>> \in Seq(Nat)
    OBVIOUS
  <2> QED BY <2>1, <1>2, <1>3 DEF IInv, TypeOK
<1>7. OneOwner'
  <2>1. \A t \in SeqId : /\ t \in Range(free') <=> t \notin Live' \cup holders'
                         /\ ~(t \in Live' /\ t \in holders')
    BY <1>1, <1>2, <1>3, <1>4, FreeFacts DEF IInv, OneOwner
  <2> QED BY <2>1, <1>2, <1>3, <1>4 DEF IInv, OneOwner, Once
<1>8. PositionIsKV'
  <2>1. \A t \in Live : kv'[t] = kv[t] /\ shared'[t] = shared[t] /\ shared[t] # h
    BY <1>1, <1>3, <1>4, <1>5
  <2> QED BY <2>1, <1>3, <1>4 DEF IInv, PositionIsKV
<1>9. CleanInv'
  BY <1>1, <1>3, <1>4, <1>5 DEF IInv, CleanInv
<1>10. HolderInv'
  <2>1. \A t \in SeqId : shared'[t] # None => t \in consumers'[shared'[t]]
    BY <1>3, <1>5 DEF IInv, HolderInv
  <2>2. \A g \in SeqId : /\ consumers'[g] \subseteq Live'
                         /\ g \notin holders' => consumers'[g] = {}
    BY <1>1, <1>3, <1>4 DEF IInv, HolderInv
  <2>3. \A g \in holders' : g \in SeqId /\ g # h /\ g \in holders
    BY <1>3 DEF IInv, TypeOK
  <2>4. \A g \in holders' : shared'[g] = None /\ kv'[g] = Cells(0, Len(kv'[g]))
    BY <2>3, <1>3, <1>5 DEF IInv, HolderInv
  <2> QED BY <2>1, <2>2, <2>4 DEF HolderInv, Cells
<1>11. QueueInv'
  BY <1>3, QueueFacts DEF QueueInv, Waiting, Once
<1> QED BY <1>6, <1>7, <1>8, <1>9, <1>10, <1>11 DEF IInv

-----------------------------------------------------------------------------
(* The decode step.                                                         *)

\* The sequences that have a slot once the waiting requests are admitted.
Seated == {s \in SeqId : SlotsAdmitted[s] # None}

\* How many requests are admitted: no more than wait, than sequences are free,
\* and than may be active.
LEMMA AdmittedBounds ==
    ASSUME IInv
    PROVE  /\ Admitted \in Nat /\ Admitted <= Len(queue) /\ Admitted <= Len(free)
           /\ Cardinality(Live) + Admitted <= MaxActive
<1> DEFINE a == Len(queue)  b == Len(free)  c == MaxActive - Cardinality(Live)
<1>1. a \in Nat /\ b \in Nat
  BY FreeFacts, QueueFacts, LenProperties
<1>2. Cardinality(Live) \in Nat
  BY SeqIdFinite DEF Live
<1>3. c \in Nat
  BY <1>2, Counts DEF IInv, OneOwner
<1> HIDE DEF a, b, c
<1>4. \E x \in {a, b, c} : \A y \in {a, b, c} : x <= y
  BY <1>1, <1>3
<1>5. Min({a, b, c}) \in {a, b, c} /\ \A y \in {a, b, c} : Min({a, b, c}) <= y
  BY <1>4 DEF Min
<1>6. Admitted = Min({a, b, c})
  BY DEF Admitted, a, b, c
<1>7. Admitted \in Nat /\ Admitted <= a /\ Admitted <= b /\ Admitted <= c
  BY <1>1, <1>3, <1>5, <1>6
<1> QED BY <1>2, <1>7, Counts DEF a, b, c

\* Admission: the first of the queue get the first of the free sequences, one
\* each, which are clean.
LEMMA Admission ==
    ASSUME IInv
    PROVE  /\ SlotsAdmitted \in [SeqId -> Job \cup {None}]
           /\ Seated \cap holders = {} /\ Live \subseteq Seated
           /\ \A s \in Live : SlotsAdmitted[s] = slots[s]
           /\ \A s \in SeqId : s \in Seated \ Live <=>
                  \E i \in 1..Admitted : free[i] = s
           /\ \A s \in Seated \ Live :
                  /\ \E i \in 1..Admitted : SlotsAdmitted[s] = queue[i]
                  /\ kv[s] = <<>> /\ shared[s] = None
                  /\ slot[SlotsAdmitted[s]].past = 0
           /\ \A s, t \in Seated : SlotsAdmitted[s] = SlotsAdmitted[t] => s = t
           /\ Cardinality(Seated) <= MaxActive
<1> DEFINE n == Admitted  table == SlotsAdmitted
           In(s) == \E i \in 1..n : free[i] = s
           At(s) == CHOOSE i \in 1..n : free[i] = s
<1>1. /\ n \in Nat /\ n <= Len(queue) /\ n <= Len(free)
      /\ Cardinality(Live) + n <= MaxActive
  BY AdmittedBounds
<1>2. /\ Len(queue) \in Nat /\ Len(free) \in Nat
      /\ \A i \in 1..Len(free) : free[i] \in SeqId /\ free[i] \in Range(free)
      /\ \A i \in 1..Len(queue) : queue[i] \in Job /\ queue[i] \in Range(queue)
  BY FreeFacts, QueueFacts, LenProperties, InRange
<1>3. \A i \in 1..n : i \in 1..Len(free) /\ i \in 1..Len(queue)
  BY <1>1, <1>2
<1>4. table = [s \in SeqId |-> IF In(s) THEN queue[At(s)] ELSE slots[s]]
  BY DEF SlotsAdmitted
<1> HIDE DEF n, table
<1>5. \A s \in SeqId : In(s) => At(s) \in 1..n /\ free[At(s)] = s
  OBVIOUS
<1> HIDE DEF At
<1>6. ASSUME NEW s \in SeqId, In(s)
      PROVE  /\ s \notin Live /\ s \notin holders /\ table[s] = queue[At(s)]
             /\ table[s] \in Job /\ table[s] # None /\ table[s] \in Range(queue)
             /\ At(s) \in 1..n
  <2>1. s \in Range(free)
    BY <1>6, <1>2, <1>3
  <2>2. At(s) \in 1..n /\ table[s] = queue[At(s)]
    BY <1>4, <1>5, <1>6
  <2>3. queue[At(s)] \in Job /\ queue[At(s)] \in Range(queue)
    BY <2>2, <1>2, <1>3
  <2> QED BY <2>1, <2>2, <2>3, FreeFacts, NoneAssumption
<1>7. ASSUME NEW s \in SeqId, ~In(s) PROVE table[s] = slots[s]
  BY <1>4, <1>7
<1>8. \A s \in SeqId : slots[s] \in Job \cup {None}
  BY DEF IInv, TypeOK
<1>9. table \in [SeqId -> Job \cup {None}]
  <2>1. \A s \in SeqId : table[s] \in Job \cup {None}
    BY <1>6, <1>7, <1>8
  <2> QED BY <2>1, <1>4
<1> DEFINE seated == Seated
<1>10. \A s \in SeqId : s \in seated <=> table[s] # None
  BY DEF Seated, table
<1>11. \A s \in SeqId : s \in Live <=> slots[s] # None
  BY DEF Live
<1>12. seated \subseteq SeqId /\ Live \subseteq SeqId
  BY DEF Seated, Live
<1> HIDE DEF seated
<1>13. \A s \in SeqId : s \in seated <=> s \in Live \/ In(s)
  BY <1>6, <1>7, <1>10, <1>11
<1>14. \A s \in SeqId : In(s) => s \notin Live
  BY <1>6
<1>15. seated \cap holders = {}
  BY <1>6, <1>12, <1>13 DEF IInv, OneOwner
<1>16. \A s \in Live : table[s] = slots[s]
  BY <1>7, <1>12, <1>14
<1>17. \A s \in SeqId : s \in seated \ Live <=> In(s)
  BY <1>13, <1>14
<1>18. ASSUME NEW s \in seated \ Live
       PROVE  /\ \E i \in 1..n : table[s] = queue[i]
              /\ kv[s] = <<>> /\ shared[s] = None
              /\ slot[table[s]].past = 0
  <2>1. s \in SeqId /\ In(s)
    BY <1>12, <1>17
  <2> HIDE DEF In
  <2>2. s \notin Live /\ s \notin holders /\ table[s] \in Range(queue)
        /\ At(s) \in 1..n /\ table[s] = queue[At(s)]
    BY <2>1, <1>6
  <2>3. kv[s] = <<>> /\ shared[s] = None
    BY <2>1, <2>2 DEF IInv, CleanInv
  <2> QED BY <2>2, <2>3, QueueFacts
<1>19. ASSUME NEW s \in seated, NEW t \in seated, table[s] = table[t]
       PROVE  s = t
  <2>1. s \in SeqId /\ t \in SeqId
    BY <1>12
  <2>2. CASE s \in Live /\ t \in Live
    BY <2>2, <1>16, <1>19 DEF IInv, OneOwner
  <2>3. CASE In(s) /\ In(t)
    <3>1. /\ At(s) \in 1..n /\ At(t) \in 1..n /\ queue[At(s)] = queue[At(t)]
          /\ free[At(s)] = s /\ free[At(t)] = t
      BY <2>1, <2>3, <1>5, <1>6, <1>19
    <3>2. At(s) = At(t)
      BY <3>1, <1>3, QueueFacts DEF Once
    <3> QED BY <3>1, <3>2
  <2>4. ASSUME NEW u \in SeqId, NEW v \in SeqId, u \in Live, In(v), table[u] = table[v]
        PROVE  FALSE
    BY <2>4, <1>6, <1>16, QueueFacts
  <2> QED BY <2>1, <2>2, <2>3, <2>4, <1>13, <1>19
<1>20. Cardinality(seated) <= MaxActive
  <2> DEFINE F == {s \in SeqId : In(s)}  f == [i \in 1..n |-> free[i]]
  <2>1. F \subseteq SeqId /\ IsFiniteSet(F) /\ Cardinality(F) \in Nat
        /\ IsFiniteSet(Live) /\ Cardinality(Live) \in Nat
    BY SeqIdFinite, <1>12
  <2>2. f \in Surjection(1..n, F)
    BY <1>2, <1>3 DEF Surjection
  <2>3. Cardinality(F) <= n
    BY <2>2, <1>1, FS_SurjCardinalityBound DEF ExistsSurjection
  <2>4. seated = Live \cup F
    BY <1>12, <1>13
  <2>5. Live \cap F = {}
    BY <1>14, <1>12
  <2> HIDE DEF F, f
  <2>6. Cardinality(seated) = Cardinality(Live) + Cardinality(F) - Cardinality(Live \cap F)
    BY <2>1, <2>4, FS_Union
  <2>7. Cardinality(Live \cap F) = 0
    BY <2>5, FS_EmptySet
  <2> QED BY <2>1, <2>3, <2>6, <2>7, <1>1, Counts
<1> QED BY <1>9, <1>12, <1>13, <1>15, <1>16, <1>17, <1>18, <1>19, <1>20 DEF n, table, seated

\* What a step leaves, whether it decodes or fails: the sequences of gone are
\* given back, those of active have taken their pending tokens.
LEMMA AfterAdmission ==
    ASSUME IInv, NEW gone \in SUBSET Seated, NEW active \in SUBSET Seated,
           free' \in Seq(SeqId), Once(free'),
           \A s \in SeqId : s \in Range(free') <=>
              s \in gone \/ (s \in Range(free) /\ \A i \in 1..Admitted : free[i] # s),
           queue' = SubSeq(queue, Admitted + 1, Len(queue)),
           slots' = [s \in SeqId |-> IF s \in gone THEN None ELSE SlotsAdmitted[s]],
           slot' \in [Job -> Slot],
           \A s \in Seated \ gone :
              slot'[SlotsAdmitted[s]].past =
                 slot[SlotsAdmitted[s]].past
                 + (IF s \in active THEN slot[SlotsAdmitted[s]].pending ELSE 0),
           \A j \in Job : (\A s \in Seated : SlotsAdmitted[s] # j) => slot'[j] = slot[j],
           kv' = [s \in SeqId |->
                    IF s \in gone THEN <<>>
                    ELSE IF s \in active
                    THEN kv[s] \o Cells(slot[SlotsAdmitted[s]].past,
                                       slot[SlotsAdmitted[s]].pending)
                    ELSE kv[s]],
           consumers' = [h \in SeqId |-> consumers[h] \ gone],
           shared' = [s \in SeqId |-> IF s \in gone THEN None ELSE shared[s]],
           holders' = holders
    PROVE  IInv'
<1> DEFINE table == SlotsAdmitted  n == Admitted  seated == Seated
<1>1. /\ table \in [SeqId -> Job \cup {None}]
      /\ seated \cap holders = {} /\ Live \subseteq seated /\ seated \subseteq SeqId
      /\ \A s \in SeqId : s \in seated <=> table[s] # None
      /\ \A s, t \in seated : table[s] = table[t] => s = t
      /\ Cardinality(seated) <= MaxActive
  BY Admission DEF Seated
<1>2. /\ \A s \in Live : table[s] = slots[s]
      /\ \A s \in SeqId : s \in seated \ Live <=> \E i \in 1..n : free[i] = s
      /\ \A s \in seated \ Live : /\ \E i \in 1..n : table[s] = queue[i]
                                  /\ kv[s] = <<>> /\ shared[s] = None
                                  /\ slot[table[s]].past = 0
  BY Admission
<1>3. n \in 0..Len(queue) /\ Len(queue) \in Nat
  BY AdmittedBounds, QueueFacts, LenProperties
<1>4. /\ queue' \in Seq(Job) /\ Once(queue')
      /\ \A j : j \in Range(queue') <=> j \in Range(queue) /\ \A i \in 1..n : queue[i] # j
  <2> DEFINE d == SubSeq(queue, n + 1, Len(queue))
  <2>1. queue' = d
    OBVIOUS
  <2> HIDE DEF n
  <2>2. /\ d \in Seq(Job) /\ Once(d)
        /\ \A j : j \in Range(d) <=> j \in Range(queue) /\ \A i \in 1..n : queue[i] # j
    BY <1>3, QueueFacts, Dropped
  <2> HIDE DEF d
  <2> QED BY <2>1, <2>2
<1> HIDE DEF table, n, seated
<1>5. ASSUME NEW s \in seated
      PROVE  /\ s \in SeqId /\ table[s] \in Job /\ slot[table[s]] \in Slot
             /\ slot[table[s]].past \in Nat /\ slot[table[s]].pending \in Nat
             /\ kv[s] = Cells(0, slot[table[s]].past)
             /\ shared[s] # None => shared[s] \in holders
  <2>1. s \in SeqId /\ table[s] \in Job /\ slot[table[s]] \in Slot
    BY <1>1 DEF IInv, TypeOK
  <2>2. slot[table[s]].past \in Nat /\ slot[table[s]].pending \in Nat
    BY <2>1 DEF Slot
  <2>3. CASE s \in Live
    BY <2>1, <2>2, <2>3, <1>2 DEF IInv, PositionIsKV
  <2>4. CASE s \notin Live
    BY <2>1, <2>2, <2>4, <1>2, CellsEmpty
  <2> QED BY <2>3, <2>4
<1>6. gone \subseteq seated /\ active \subseteq seated
  BY DEF seated
<1>7. Live' = seated \ gone
  <2>1. \A s \in SeqId : slots'[s] = IF s \in gone THEN None ELSE table[s]
    BY DEF table
  <2> QED BY <2>1, <1>1 DEF Live
<1>8. \A s \in SeqId : slots'[s] = IF s \in gone THEN None ELSE table[s]
  BY DEF table
<1>9. TypeOK'
  <2>1. slots' \in [SeqId -> Job \cup {None}]
    BY <1>1 DEF table
  <2>2. kv' \in [SeqId -> Seq(Nat)]
    <3>1. \A s \in SeqId : kv[s] \in Seq(Nat) /\ <<>> \in Seq(Nat)
      BY DEF IInv, TypeOK
    <3>2. \A s \in active :
             kv[s] \o Cells(slot[table[s]].past, slot[table[s]].pending) \in Seq(Nat)
      BY <3>1, <1>5, <1>6, CellsType, ConcatProperties
    <3> QED BY <3>1, <3>2 DEF table
  <2>3. consumers' \in [SeqId -> SUBSET SeqId] /\ shared' \in [SeqId -> SeqId \cup {None}]
    BY DEF IInv, TypeOK
  <2> QED BY <2>1, <2>2, <2>3, <1>4 DEF IInv, TypeOK
<1>10. OneOwner'
  <2>1. \A s \in SeqId : /\ s \in Range(free') <=> s \notin Live' \cup holders'
                         /\ ~(s \in Live' /\ s \in holders')
    <3> TAKE s \in SeqId
    <3>1. s \in Range(free') <=>
             s \in gone \/ (s \notin Live /\ s \notin holders /\ s \notin seated \ Live)
      BY <1>2, FreeFacts DEF n
    <3> QED BY <3>1, <1>1, <1>6, <1>7
  <2>2. \A s, t \in Live' : slots'[s] = slots'[t] => s = t
    BY <1>1, <1>7, <1>8
  <2>3. Cardinality(Live') <= MaxActive
    <3>1. IsFiniteSet(seated) /\ Cardinality(seated) \in Nat
      BY <1>1, SeqIdFinite
    <3>2. Cardinality(Live') <= Cardinality(seated) /\ Cardinality(Live') \in Nat
      BY <3>1, <1>7, FS_Subset, FS_CardinalityType
    <3> QED BY <3>1, <3>2, <1>1, Counts
  <2> QED BY <2>1, <2>2, <2>3 DEF OneOwner, Once
<1>11. PositionIsKV'
  <2> SUFFICES ASSUME NEW s \in Live'
               PROVE  /\ kv'[s] = Cells(0, slot'[slots'[s]].past)
                      /\ shared'[s] # None => shared'[s] \in holders'
    BY DEF PositionIsKV, Cells
  <2>1. s \in seated /\ s \notin gone /\ s \in SeqId /\ slots'[s] = table[s]
    BY <1>1, <1>7, <1>8
  <2>2. slot'[table[s]].past = slot[table[s]].past
                               + (IF s \in active THEN slot[table[s]].pending ELSE 0)
    BY <2>1 DEF table, seated
  <2>3. kv'[s] = IF s \in active
                 THEN kv[s] \o Cells(slot[table[s]].past, slot[table[s]].pending)
                 ELSE kv[s]
    BY <2>1 DEF table
  <2>4. shared'[s] # None => shared'[s] \in holders'
    BY <2>1, <1>5
  <2>5. CASE s \in active
    <3> DEFINE a == slot[table[s]].past  b == slot[table[s]].pending
    <3>1. a \in Nat /\ b \in Nat /\ kv[s] = Cells(0, a)
      BY <2>1, <1>5
    <3>2. kv'[s] = kv[s] \o Cells(a, b) /\ slot'[slots'[s]].past = a + b
      BY <2>1, <2>2, <2>3, <2>5
    <3> HIDE DEF a, b
    <3> QED BY <3>1, <3>2, <2>4, CellsConcat
  <2>6. CASE s \notin active
    <3>1. slot'[table[s]].past = slot[table[s]].past
      BY <2>1, <2>2, <2>6, <1>5
    <3> QED BY <3>1, <2>1, <2>3, <2>6, <1>5
  <2> QED BY <2>5, <2>6
<1>12. CleanInv'
  <2> SUFFICES ASSUME NEW s \in SeqId, s \notin Live', s \notin holders
               PROVE  kv'[s] = <<>> /\ shared'[s] = None
    BY DEF CleanInv
  <2>1. CASE s \in gone
    BY <2>1
  <2>2. CASE s \notin gone
    <3>1. s \notin seated /\ s \notin Live /\ s \notin active
      BY <2>2, <1>1, <1>6, <1>7
    <3> QED BY <3>1, <2>2 DEF IInv, CleanInv
  <2> QED BY <2>1, <2>2
<1>13. HolderInv'
  <2>1. \A s \in SeqId : shared'[s] # None => s \in consumers'[shared'[s]]
    BY DEF IInv, HolderInv, TypeOK
  <2>2. \A h \in SeqId : /\ consumers'[h] \subseteq Live'
                         /\ h \notin holders' => consumers'[h] = {}
    BY <1>1, <1>7 DEF IInv, HolderInv
  <2>3. \A h \in holders : h \in SeqId /\ h \notin gone /\ h \notin active
    BY <1>1, <1>6 DEF IInv, TypeOK
  <2>4. \A h \in holders' : shared'[h] = None /\ kv'[h] = Cells(0, Len(kv'[h]))
    BY <2>3 DEF IInv, HolderInv
  <2> QED BY <2>1, <2>2, <2>4 DEF HolderInv, Cells
<1>14. QueueInv'
  <2> SUFFICES ASSUME NEW j \in Range(queue')
               PROVE  (\A s \in SeqId : slots'[s] # j) /\ slot'[j].past = 0
    BY <1>4 DEF QueueInv, Waiting, Once
  <2>1. j \in Range(queue) /\ j \in Job /\ j # None /\ \A i \in 1..n : queue[i] # j
    BY <1>4, QueueFacts, NoneAssumption
  <2>2. \A s \in seated : table[s] # j
    BY <2>1, <1>1, <1>2, QueueFacts
  <2>3. slot'[j] = slot[j]
    BY <2>1, <2>2 DEF table, seated
  <2> QED BY <2>1, <2>2, <2>3, <1>1, <1>8, QueueFacts
<1> QED BY <1>9, <1>10, <1>11, <1>12, <1>13, <1>14 DEF IInv

\* step, when decode() raises: admitted, and nothing else.
LEMMA StepFailsInv ==
    ASSUME IInv, StepFails
    PROVE  IInv'
<1>1. Admitted \in 0..Len(free) /\ Len(free) \in Nat
  BY AdmittedBounds, FreeFacts, LenProperties
<1>2. /\ free' \in Seq(SeqId) /\ Once(free')
      /\ \A s \in SeqId : s \in Range(free') <=>
            s \in Range(free) /\ \A i \in 1..Admitted : free[i] # s
  BY <1>1, FreeFacts, Dropped DEF StepFails
<1>3. slots' = [s \in SeqId |-> SlotsAdmitted[s]]
  BY DEF StepFails, SlotsAdmitted
<1>4. \A s \in Seated : slot[SlotsAdmitted[s]].past \in Nat
  <2>1. \A s \in Seated : SlotsAdmitted[s] \in Job
    BY Admission DEF Seated
  <2> QED BY <2>1 DEF IInv, TypeOK, Slot
<1>5. slot' = slot /\ slot' \in [Job -> Slot]
  BY DEF StepFails, IInv, TypeOK
<1>6. /\ kv' = [s \in SeqId |-> kv[s]]
      /\ consumers' = [h \in SeqId |-> consumers[h] \ {}]
      /\ shared' = [s \in SeqId |-> shared[s]]
      /\ holders' = holders
  BY DEF StepFails, IInv, TypeOK
<1>7. queue' = SubSeq(queue, Admitted + 1, Len(queue))
  BY DEF StepFails
<1> DEFINE gone == {}  active == {}
<1>8. gone \in SUBSET Seated /\ active \in SUBSET Seated
  OBVIOUS
<1>9. \A s \in SeqId : s \in Range(free') <=>
         s \in gone \/ (s \in Range(free) /\ \A i \in 1..Admitted : free[i] # s)
  BY <1>2
<1>10. /\ slots' = [s \in SeqId |-> IF s \in gone THEN None ELSE SlotsAdmitted[s]]
       /\ kv' = [s \in SeqId |->
                   IF s \in gone THEN <<>>
                   ELSE IF s \in active
                   THEN kv[s] \o Cells(slot[SlotsAdmitted[s]].past,
                                      slot[SlotsAdmitted[s]].pending)
                   ELSE kv[s]]
       /\ consumers' = [h \in SeqId |-> consumers[h] \ gone]
       /\ shared' = [s \in SeqId |-> IF s \in gone THEN None ELSE shared[s]]
  BY <1>3, <1>6
<1>11. \A s \in Seated \ gone :
          slot'[SlotsAdmitted[s]].past =
             slot[SlotsAdmitted[s]].past
             + (IF s \in active THEN slot[SlotsAdmitted[s]].pending ELSE 0)
  BY <1>4, <1>5
<1>12. \A j \in Job : (\A s \in Seated : SlotsAdmitted[s] # j) => slot'[j] = slot[j]
  BY <1>5
<1> HIDE DEF gone, active
<1> QED BY <1>2, <1>5, <1>6, <1>7, <1>8, <1>9, <1>10, <1>11, <1>12, AfterAdmission

\* What one sample makes of a slot.
LEMMA SampledType ==
    ASSUME NEW j \in Job, slot[j] \in Slot, NEW stop
    PROVE  /\ Sampled(j, stop) \in Slot
           /\ Sampled(j, stop).past = slot[j].past + slot[j].pending
<1> DEFINE o == slot[j]  p == o.past + o.pending  g == o.generated + 1
           over == Over(j, stop)
<1>1. /\ o \in [session : BOOLEAN, pending : Nat, generated : Nat, done : BOOLEAN, past : Nat]
      /\ over \in BOOLEAN
  BY DEF Slot, Over
<1>2. p \in Nat /\ g \in Nat
  BY <1>1
<1>3. Sampled(j, stop) = [o EXCEPT !.past = p, !.generated = g,
                                   !.pending = IF over THEN 0 ELSE 1, !.done = over]
  BY DEF Sampled, Advance
<1>4. o.past + o.pending = p
  OBVIOUS
<1> HIDE DEF o, p, g, over
<1>5. [o EXCEPT !.past = p, !.generated = g,
                !.pending = IF over THEN 0 ELSE 1, !.done = over] \in Slot
  BY <1>1, <1>2 DEF Slot
<1>6. [o EXCEPT !.past = p, !.generated = g,
                !.pending = IF over THEN 0 ELSE 1, !.done = over].past = p
  BY <1>1
<1> QED BY <1>3, <1>4, <1>5, <1>6 DEF o

\* step: every slot with pending tokens advances by them, and what is finished
\* and stateless gives its sequence back.
LEMMA StepInv ==
    ASSUME IInv, NEW stop, Step(stop)
    PROVE  IInv'
<1> DEFINE table == SlotsAdmitted
           active == Active(table)
           gone == {s \in active : Over(table[s], stop) /\ ~slot[table[s]].session}
<1>1. gone \subseteq active /\ active \subseteq Seated /\ Seated \subseteq SeqId
  BY DEF Active, Seated
<1>2. /\ \A s \in Seated : table[s] \in Job /\ slot[table[s]] \in Slot
      /\ \A s, t \in Seated : table[s] = table[t] => s = t
  BY Admission DEF Seated, IInv, TypeOK
<1>3. /\ queue' = SubSeq(queue, Admitted + 1, Len(queue))
      /\ slots' = [s \in SeqId |-> IF s \in gone THEN None ELSE table[s]]
      /\ slot' = [j \in Job |-> IF \E s \in gone : table[s] = j THEN Blank
                               ELSE IF \E s \in active : table[s] = j
                               THEN Sampled(j, stop) ELSE slot[j]]
      /\ holders' = holders
  BY DEF Step
<1>4. kv' = [s \in SeqId |->
               IF s \in gone THEN <<>>
               ELSE IF s \in active
               THEN kv[s] \o Cells(slot[table[s]].past, slot[table[s]].pending)
               ELSE kv[s]]
  BY <1>1 DEF Step, Emptied
<1>5. /\ consumers' = [h \in SeqId |-> consumers[h] \ gone]
      /\ shared' = [s \in SeqId |-> IF s \in gone THEN None ELSE shared[s]]
  BY DEF Step, Recycled
<1>6. PICK order \in [1..Cardinality(gone) -> gone] :
         /\ Range(order) = gone
         /\ free' = SubSeq(free, Admitted + 1, Len(free)) \o order
  BY DEF Step
<1> HIDE DEF table, active, gone
<1>7. slot' \in [Job -> Slot]
  <2>1. \A j \in Job : slot[j] \in Slot
    BY DEF IInv, TypeOK
  <2> QED BY <2>1, <1>3, BlankType, SampledType
<1>8. \A s \in Seated \ gone :
         slot'[table[s]].past =
            slot[table[s]].past + (IF s \in active THEN slot[table[s]].pending ELSE 0)
  <2> TAKE s \in Seated \ gone
  <2>1. table[s] \in Job /\ slot[table[s]] \in Slot /\ ~\E t \in gone : table[t] = table[s]
    BY <1>1, <1>2
  <2>2. CASE s \in active
    BY <2>1, <2>2, <1>3, SampledType
  <2>3. CASE s \notin active
    <3>1. ~\E t \in active : table[t] = table[s]
      BY <2>3, <1>1, <1>2
    <3>2. slot[table[s]].past \in Nat
      BY <2>1 DEF Slot
    <3> QED BY <3>1, <3>2, <2>1, <2>3, <1>3
  <2> QED BY <2>2, <2>3
<1>9. \A j \in Job : (\A s \in Seated : table[s] # j) => slot'[j] = slot[j]
  BY <1>1, <1>3
<1>10. /\ free' \in Seq(SeqId) /\ Once(free')
       /\ \A s \in SeqId : s \in Range(free') <=>
             s \in gone \/ (s \in Range(free) /\ \A i \in 1..Admitted : free[i] # s)
  <2> DEFINE rest == SubSeq(free, Admitted + 1, Len(free))
  <2>1. Admitted \in 0..Len(free)
    BY AdmittedBounds, FreeFacts, LenProperties
  <2>2. /\ rest \in Seq(SeqId) /\ Once(rest)
        /\ \A s : s \in Range(rest) <=>
              s \in Range(free) /\ \A i \in 1..Admitted : free[i] # s
    BY <2>1, FreeFacts, Dropped
  <2>3. order \in Seq(SeqId) /\ Once(order) /\ Range(order) = gone
    <3>1. gone \in SUBSET SeqId /\ IsFiniteSet(gone)
      BY <1>1, SeqIdFinite
    <3> QED BY <3>1, <1>6, OrderOnce
  <2>0. free' = rest \o order
    BY <1>6
  <2> HIDE DEF rest
  <2>4. Range(rest) \cap Range(order) = {}
    <3> SUFFICES ASSUME NEW s \in Range(rest), s \in gone PROVE FALSE
      BY <2>3
    <3>1. s \in SeqId /\ s \in Seated /\ s \notin Live
      BY <2>2, <1>1, FreeFacts
    <3>2. \E i \in 1..Admitted : free[i] = s
      BY <3>1, Admission
    <3> QED BY <3>2, <2>2
  <2>5. /\ free' \in Seq(SeqId) /\ Once(free')
        /\ Range(free') = Range(rest) \cup Range(order)
    BY <2>0, <2>2, <2>3, <2>4, ConcatOnce
  <2> QED BY <2>2, <2>3, <2>5
<1>11. gone \in SUBSET Seated /\ active \in SUBSET Seated
  BY <1>1
<1> QED BY <1>3, <1>4, <1>5, <1>7, <1>8, <1>9, <1>10, <1>11, AfterAdmission DEF table

\* A step leaves the holders alone, and what is in their sequences.
LEMMA StepKeepsHolders ==
    ASSUME IInv, NEW stop, Step(stop)
    PROVE  holders' = holders /\ \A h \in holders : kv'[h] = kv[h]
<1> DEFINE table == SlotsAdmitted
           active == Active(table)
           gone == {s \in active : Over(table[s], stop) /\ ~slot[table[s]].session}
<1>1. gone \subseteq active /\ active \subseteq Seated
  BY DEF Active, Seated
<1>2. kv' = [s \in SeqId |->
               IF s \in gone THEN Emptied(gone)[s]
               ELSE IF s \in active
               THEN kv[s] \o Cells(slot[table[s]].past, slot[table[s]].pending)
               ELSE kv[s]]
  BY DEF Step
<1> HIDE DEF gone, active, table
<1>3. \A h \in holders : h \in SeqId /\ h \notin Seated
  BY Admission DEF IInv, TypeOK
<1>4. \A h \in holders : h \in SeqId /\ h \notin active /\ h \notin gone
  BY <1>1, <1>3
<1> QED BY <1>2, <1>4 DEF Step

\* A step for sessions alone, with nothing in the queue: every slot stays where
\* it is, and a session's slot stays a session's.
LEMMA StepOfSessions ==
    ASSUME IInv, queue = <<>>, \A s \in Live : slot[slots[s]].session,
           NEW stop, Step(stop)
    PROVE  /\ queue' = <<>> /\ slots' = slots
           /\ \A s \in Live : slot'[slots[s]].session
<1> DEFINE table == SlotsAdmitted
           active == Active(table)
           gone == {s \in active : Over(table[s], stop) /\ ~slot[table[s]].session}
<1>1. Admitted = 0
  BY AdmittedBounds, EmptySeq
<1>2. table = slots
  BY <1>1 DEF SlotsAdmitted, IInv, TypeOK
<1>3. gone = {}
  BY <1>2 DEF Active, Live
<1>4. slots' = [s \in SeqId |-> IF s \in gone THEN None ELSE table[s]]
  BY DEF Step
<1>5. slot' = [j \in Job |-> IF \E s \in gone : table[s] = j THEN Blank
                              ELSE IF \E s \in active : table[s] = j
                              THEN Sampled(j, stop) ELSE slot[j]]
  BY DEF Step
<1>6. queue' = SubSeq(queue, 1, Len(queue))
  BY <1>1 DEF Step
<1> HIDE DEF gone, active, table
<1>7. slots' = slots
  BY <1>2, <1>3, <1>4 DEF IInv, TypeOK
<1>8. queue' = <<>>
  BY <1>6, EmptySeq
<1>9. \A j \in Job : slot'[j] = Sampled(j, stop) \/ slot'[j] = slot[j]
  BY <1>3, <1>5
<1>10. \A j \in Job : Sampled(j, stop).session = slot[j].session
  <2> TAKE j \in Job
  <2>1. slot[j] \in [session : BOOLEAN, pending : Nat, generated : Nat, done : BOOLEAN, past : Nat]
    BY DEF IInv, TypeOK, Slot
  <2> QED BY <2>1 DEF Sampled
<1>11. \A s \in Live : slots[s] \in Job
  BY DEF Live, IInv, TypeOK
<1> QED BY <1>7, <1>8, <1>9, <1>10, <1>11

-----------------------------------------------------------------------------
(* The theorems.                                                            *)

\* Every step preserves the invariant.
LEMMA StepInvariant == IInv /\ [Next]_vars => IInv'
<1> SUFFICES ASSUME IInv, [Next]_vars PROVE IInv'
  OBVIOUS
<1>1. \A s \in SeqId : s \in Live => slots[s] \in Job
  BY DEF Live, IInv, TypeOK
<1>2. \A n \in 1..NCtx : n \in Nat
  BY Counts
<1>3. CASE UNCHANGED vars
  BY <1>3 DEF vars, IInv, TypeOK, OneOwner, PositionIsKV, CleanInv, HolderInv, QueueInv,
              Live, Waiting, Cells
<1>4. ASSUME NEW j \in Job, OpenSlot(j) PROVE IInv'
  BY <1>4, OpenSlotInv
<1>5. ASSUME NEW j \in Job, NEW n \in Input, Submit(j, n) PROVE IInv'
  BY <1>5, SubmitInv, Counts
<1>6. ASSUME NEW s \in Live, CloseSlot(s) PROVE IInv'
  BY <1>6, CloseSlotInv DEF Live
<1>7. ASSUME NEW s \in Live, NEW n \in Input, Feed({slots[s]}, [j \in Job |-> n])
      PROVE  IInv'
  <2> DEFINE input == [j \in Job |-> n]
  <2>1. \A j \in Job : input[j] \in Nat
    BY Counts
  <2> HIDE DEF input
  <2> QED BY <2>1, <1>7, FeedInv DEF input
<1>8. ASSUME NEW s \in Live, NEW n \in 1..NCtx, LoadState(s, n) PROVE IInv'
  BY <1>8, <1>2, LoadStateInv DEF Live
<1>9. ASSUME NEW s \in Live, NEW h \in holders, kv[s] = <<>>, CopyPrefix(h, s, Len(kv[h]))
      PROVE  IInv'
  BY <1>9, CopyPrefixInv DEF Live
<1>10. CASE Reserve
  BY <1>10, ReserveInv
<1>11. ASSUME NEW h \in holders, NEW n \in Input, kv[h] = <<>>, Warm(h, n) PROVE IInv'
  BY <1>11, WarmInv, Counts
<1>12. ASSUME NEW h \in holders, ReleaseHolder(h) PROVE IInv'
  BY <1>12, ReleaseHolderInv
<1>13. ASSUME NEW stop, Step(stop) PROVE IInv'
  BY <1>13, StepInv
<1>14. CASE StepFails
  BY <1>14, StepFailsInv
<1> QED BY <1>3, <1>4, <1>5, <1>6, <1>7, <1>8, <1>9, <1>10, <1>11, <1>12, <1>13, <1>14
        DEF Next

\* The bookkeeping of the scheduler and what the backend holds agree in every
\* reachable state.
THEOREM InductiveInvariant == Spec => []IInv
<1> QED BY InitInv, StepInvariant, PTL DEF Spec

\* A sequence is free, a slot's or a holder, never two of them and never lost,
\* for any number of sequences and slots.
THEOREM SequencesOwned == Spec => []OneOwner
<1>1. IInv => OneOwner
  BY DEF IInv
<1> QED BY <1>1, InductiveInvariant, PTL

\* A decode begins where the KV of its sequence ends, and the cells a slot
\* shares stay as long as it does.
THEOREM PositionsTrue == Spec => []PositionIsKV
<1>1. IInv => PositionIsKV
  BY DEF IInv
<1> QED BY <1>1, InductiveInvariant, PTL
=============================================================================
