-------------------------- MODULE AuditLogProofs --------------------------
(***************************************************************************)
(* What holds of the audit log for every number of processes and rows,     *)
(* every anchor_every and any number of crashes, outages and failed        *)
(* commits: the chain is linear, the anchor names a committed row, the log *)
(* implements AppendOnlyLog, an "ok" of verify() stays true, and the rows  *)
(* beyond the anchor are bounded by the handles opened and the faults.     *)
(***************************************************************************)
EXTENDS AuditLog, SequenceTheorems, FiniteSetTheorems, TLAPS

-----------------------------------------------------------------------------
(* Sequences of rows.                                                      *)

LEMMA ConcatRows ==
    ASSUME NEW s \in Seq(Row), NEW t \in Seq(Row)
    PROVE  /\ s \o t \in Seq(Row)
           /\ Len(s \o t) = Len(s) + Len(t)
           /\ \A i \in 1..Len(s) : (s \o t)[i] = s[i]
           /\ \A i \in 1..Len(t) : (s \o t)[Len(s) + i] = t[i]
BY ConcatProperties

LEMMA NoRows == ASSUME NEW s \in Seq(Row) PROVE s \o <<>> = s
OBVIOUS

LEMMA AppendRow ==
    ASSUME NEW s \in Seq(Row), NEW r \in Row PROVE Append(s, r) # <<>>
BY AppendProperties

LEMMA ConcatAppend ==
    ASSUME NEW s \in Seq(Row), NEW t \in Seq(Row), NEW r \in Row
    PROVE  s \o Append(t, r) = Append(s \o t, r)
OBVIOUS

LEMMA PrefixOfConcat ==
    ASSUME NEW s \in Seq(Row), NEW t \in Seq(Row)
    PROVE  SubSeq(s \o t, 1, Len(s)) = s
<1>1. CASE s = <<>>
  BY <1>1, SubSeqEmpty
<1>2. CASE s # <<>>
  <2>1. 1 \in 1..Len(s) /\ Len(s) \in 1..Len(s)
    BY <1>2
  <2>2. SubSeq(s \o t, 1, Len(s)) = SubSeq(s, 1, Len(s))
    BY <2>1, SubSeqOfConcat1
  <2> QED BY <2>2, SubSeqFull
<1> QED BY <1>1, <1>2

\* A row that names the head extends a linear chain to a linear chain.
LEMMA LinearAppend ==
    ASSUME NEW s \in Seq(Row), NEW r \in Row, Linear(s), r.prev = HeadOf(s)
    PROVE  Linear(Append(s, r))
BY DEF Linear, HeadOf, HashBefore

\* A prefix of a linear chain is linear.
LEMMA LinearPrefix ==
    ASSUME NEW s \in Seq(Row), NEW t \in Seq(Row), Linear(s \o t)
    PROVE  Linear(s)
<1>1. /\ Len(s \o t) = Len(s) + Len(t) /\ Len(s) \in Nat /\ Len(t) \in Nat
      /\ \A i \in 1..Len(s) : (s \o t)[i] = s[i]
  BY ConcatRows
<1> QED BY <1>1 DEF Linear, HashBefore

LEMMA HeadIsARow ==
    ASSUME NEW s \in Seq(Row), s # <<>>
    PROVE  /\ HeadOf(s) \in Hashes(s)
           /\ HeadOf(s) \in Nat
           /\ Len(s) \in 1..Len(s) /\ s[Len(s)].hash = HeadOf(s)
<1>1. Len(s) \in 1..Len(s) /\ s[Len(s)] \in Row
  OBVIOUS
<1> QED BY <1>1 DEF HeadOf, Hashes, Row

LEMMA HashesGrow ==
    ASSUME NEW s \in Seq(Row), NEW t \in Seq(Row)
    PROVE  Hashes(s) \subseteq Hashes(s \o t)
<1>1. /\ Len(s \o t) = Len(s) + Len(t) /\ Len(s) \in Nat /\ Len(t) \in Nat
      /\ \A i \in 1..Len(s) : (s \o t)[i] = s[i]
  BY ConcatRows
<1> QED BY <1>1 DEF Hashes

-----------------------------------------------------------------------------
(* The type invariant.                                                     *)

LEMMA ViewType == ASSUME TypeOK, NEW p \in Proc PROVE View(p) \in Seq(Row)
BY ConcatRows DEF TypeOK, View

LEMMA HeadType == ASSUME NEW s \in Seq(Row) PROVE HeadOf(s) \in Nat
BY HeadIsARow DEF HeadOf, Genesis

LEMMA FaultsType ==
    ASSUME TypeOK, NEW f \in Fault
    PROVE  [faults EXCEPT ![f] = @ + 1] \in [Fault -> Nat]
BY DEF TypeOK

LEMMA FaultNames == "opens" \in Fault /\ "crashes" \in Fault
                    /\ "outages" \in Fault /\ "commits" \in Fault
BY DEF Fault

LEMMA TypeStep == TypeOK /\ [Next]_vars => TypeOK'
<1> SUFFICES ASSUME TypeOK, [Next]_vars PROVE TypeOK'
  OBVIOUS
<1>0. CASE UNCHANGED vars
  BY <1>0 DEF TypeOK, vars, logVars, procVars, verifyVars
<1>a. ASSUME NEW p \in Proc, Open(p) PROVE TypeOK'
  <2>0. faults' \in [Fault -> Nat]
    BY <1>a, FaultsType, FaultNames DEF Open, TypeOK
  <2> QED BY <1>a, <2>0 DEF TypeOK, Open, Forget, logVars, verifyVars, Genesis
<1>b. ASSUME NEW p \in Proc, Acquire(p) PROVE TypeOK'
  BY <1>b DEF TypeOK, Acquire, logVars, verifyVars
<1>c. ASSUME NEW p \in Proc, ReadHead(p) PROVE TypeOK'
  BY <1>c, ViewType, HeadType DEF TypeOK, ReadHead, logVars, verifyVars
<1>d. ASSUME NEW p \in Proc, Insert(p) PROVE TypeOK'
  <2>1. [prev |-> prev[p], hash |-> drawn + 1] \in Row
    BY DEF TypeOK, Row
  <2>2. txn' \in [Proc -> Seq(Row)]
    BY <1>d, <2>1 DEF TypeOK, Insert
  <2>3. UNCHANGED <<db, anchor, xlock, last, since, vpc, snap, verdict, faults>>
    BY <1>d DEF Insert, verifyVars
  <2>4. drawn' \in Nat /\ prev' \in [Proc -> Nat]
        /\ pc' \in [Proc -> {"closed", "idle", "record", "hashed", "inserted",
                            "anchoring", "close"}]
    BY <1>d DEF Insert, TypeOK, Genesis
  <2> QED BY <2>2, <2>3, <2>4 DEF TypeOK
<1>e. ASSUME NEW p \in Proc, InsertBusy(p) PROVE TypeOK'
  BY <1>e DEF TypeOK, InsertBusy, Release, logVars, verifyVars, Genesis
<1>f. ASSUME NEW p \in Proc, Commit(p) PROVE TypeOK'
  <2>1. View(p) \in Seq(Row) /\ HeadOf(View(p)) \in Nat
    BY ViewType, HeadType
  <2>2. db' \in Seq(Row) /\ txn' \in [Proc -> Seq(Row)]
    BY <1>f, <2>1 DEF TypeOK, Commit
  <2>3. last' \in [Proc -> Nat] /\ since' \in [Proc -> Nat]
    BY <1>f, <2>1 DEF TypeOK, Commit
  <2>4. /\ xlock' \in Proc \cup {Nobody} /\ prev' \in [Proc -> Nat]
        /\ pc' \in [Proc -> {"closed", "idle", "record", "hashed", "inserted",
                            "anchoring", "close"}]
    <3>1. CASE AnchorDue(p)
      BY <1>f, <3>1 DEF TypeOK, Commit
    <3>2. CASE ~AnchorDue(p)
      <4>1. Release(p, "idle")
        BY <1>f, <3>2 DEF Commit
      <4> QED BY <4>1 DEF TypeOK, Release, Genesis
    <3> QED BY <3>1, <3>2
  <2>5. UNCHANGED <<anchor, vpc, snap, verdict, drawn, faults>>
    BY <1>f DEF Commit, verifyVars
  <2> QED BY <2>2, <2>3, <2>4, <2>5 DEF TypeOK
<1>g. ASSUME NEW p \in Proc, CommitFails(p) PROVE TypeOK'
  <2>0. faults' \in [Fault -> Nat]
    BY <1>g, FaultsType, FaultNames DEF CommitFails, TypeOK
  <2>1. txn' \in [Proc -> Seq(Row)]
    <3>1. txn' = txn \/ txn' = [txn EXCEPT ![p] = <<>>]
      BY <1>g DEF CommitFails
    <3>2. <<>> \in Seq(Row)
      OBVIOUS
    <3> QED BY <3>1, <3>2 DEF TypeOK
  <2>2. /\ xlock' = Nobody /\ prev' \in [Proc -> Nat]
        /\ pc' \in [Proc -> {"closed", "idle", "record", "hashed", "inserted",
                            "anchoring", "close"}]
    BY <1>g DEF CommitFails, Release, TypeOK, Genesis
  <2>3. UNCHANGED <<db, anchor, last, since, vpc, snap, verdict, drawn>>
    BY <1>g DEF CommitFails, verifyVars
  <2> QED BY <2>0, <2>1, <2>2, <2>3 DEF TypeOK
<1>h. ASSUME NEW p \in Proc, StoreAnchor(p) PROVE TypeOK'
  BY <1>h DEF TypeOK, StoreAnchor, Release, verifyVars, Genesis
<1>i. ASSUME NEW p \in Proc, AnchorFails(p) PROVE TypeOK'
  <2>0. faults' \in [Fault -> Nat]
    BY <1>i, FaultsType, FaultNames DEF AnchorFails, TypeOK
  <2> QED BY <1>i, <2>0 DEF TypeOK, AnchorFails, Release, logVars, verifyVars, Genesis
<1>j. ASSUME NEW p \in Proc, Close(p) PROVE TypeOK'
  <2>0. faults' \in [Fault -> Nat]
    BY <1>j, FaultsType, FaultNames DEF Close, TypeOK
  <2> QED BY <1>j, <2>0 DEF TypeOK, Close, Release, Forget, verifyVars, Genesis
<1>k. ASSUME NEW p \in Proc, Crash(p) PROVE TypeOK'
  <2>0. faults' \in [Fault -> Nat]
    BY <1>k, FaultsType, FaultNames DEF Crash, TypeOK
  <2> QED BY <1>k, <2>0 DEF TypeOK, Crash, Forget, Genesis
<1>l. ASSUME NEW p \in Proc, VerifyRead(p) PROVE TypeOK'
  BY <1>l, ViewType DEF TypeOK, VerifyRead, logVars, procVars
<1>m. ASSUME NEW p \in Proc, VerifyJudge(p) PROVE TypeOK'
  <2>0. faults' \in [Fault -> Nat]
    BY <1>m, FaultsType, FaultNames DEF VerifyJudge, TypeOK
  <2>1. \A rows, a : Verdict(rows, a) \in {"ok", "unanchored", "lag",
                                           "replaced", "broken"}
    BY DEF Verdict
  <2>2. verdict' \in [Proc -> {"none", "ok", "unanchored", "lag",
                              "replaced", "broken"}]
    <3>1. \E a : verdict' = [verdict EXCEPT ![p] = Verdict(snap[p], a)]
      BY <1>m DEF VerifyJudge
    <3> QED BY <2>1, <3>1 DEF TypeOK
  <2>3. vpc' \in [Proc -> {"idle", "read"}]
    BY <1>m DEF TypeOK, VerifyJudge
  <2>4. UNCHANGED <<db, txn, anchor, xlock, pc, prev, last, since, snap, drawn>>
    BY <1>m DEF VerifyJudge, logVars, procVars
  <2> QED BY <2>0, <2>2, <2>3, <2>4 DEF TypeOK
<1> QED
  BY <1>0, <1>a, <1>b, <1>c, <1>d, <1>e, <1>f, <1>g, <1>h, <1>i, <1>j,
     <1>k, <1>l, <1>m DEF Next

\* The state of every handle, lock and verification stays well formed.
THEOREM TypeCorrect == Spec => []TypeOK
<1>1. Init => TypeOK
  BY DEF Init, TypeOK, Fault, Genesis
<1> QED BY <1>1, TypeStep, PTL DEF Spec

-----------------------------------------------------------------------------
(* What each kind of step does to the views.  A step is quiet (it touches  *)
(* no row), an insert, a commit, or drops an open transaction.             *)

LEMMA DropView ==
    ASSUME TypeOK, NEW p \in Proc, UNCHANGED db,
           txn' = [txn EXCEPT ![p] = <<>>], NEW q \in Proc
    PROVE  View(q)' = IF q = p THEN db ELSE View(q)
<1>1. View(q)' = db \o txn'[q]
  BY DEF View
<1>2. CASE q = p
  BY <1>1, <1>2, NoRows DEF TypeOK
<1>3. CASE q # p
  BY <1>1, <1>3 DEF TypeOK, View
<1> QED BY <1>2, <1>3

LEMMA IdleView ==
    ASSUME TypeOK, NEW p \in Proc, txn[p] = <<>>
    PROVE  View(p) = db
BY NoRows DEF TypeOK, View

LEMMA InsertView ==
    ASSUME TypeOK, NEW p \in Proc, Insert(p), NEW q \in Proc
    PROVE  View(q)' = IF q = p
                      THEN Append(View(p), [prev |-> prev[p], hash |-> drawn + 1])
                      ELSE View(q)
<1> DEFINE r == [prev |-> prev[p], hash |-> drawn + 1]
<1>1. r \in Row
  BY DEF TypeOK, Row
<1>2. db' = db /\ txn' = [txn EXCEPT ![p] = Append(txn[p], r)]
  BY DEF Insert
<1> HIDE DEF r
<1>3. CASE q = p
  <2>1. View(q)' = db \o Append(txn[p], r)
    BY <1>2, <1>3 DEF View, TypeOK
  <2>2. db \o Append(txn[p], r) = Append(db \o txn[p], r)
    BY <1>1, ConcatAppend DEF TypeOK
  <2> QED BY <2>1, <2>2, <1>3 DEF View, r
<1>4. CASE q # p
  BY <1>2, <1>4 DEF View, TypeOK
<1> QED BY <1>3, <1>4 DEF r

LEMMA CommitView ==
    ASSUME TypeOK, TxnInv, NEW p \in Proc, Commit(p), NEW q \in Proc
    PROVE  View(q)' = View(p)
<1>1. db' = View(p) /\ txn' = [txn EXCEPT ![p] = <<>>]
  BY DEF Commit
<1>2. txn'[q] = <<>>
  BY <1>1 DEF TxnInv, Commit, TypeOK
<1>3. View(q)' = View(p) \o <<>>
  BY <1>1, <1>2 DEF View
<1> QED BY <1>3, ViewType, NoRows

\* Dropping rows from the end keeps a chain linear and its hashes distinct.
LEMMA DistinctPrefix ==
    ASSUME NEW s \in Seq(Row), NEW t \in Seq(Row), Distinct(s \o t)
    PROVE  Distinct(s)
<1>1. /\ Len(s \o t) = Len(s) + Len(t) /\ Len(s) \in Nat /\ Len(t) \in Nat
      /\ \A i \in 1..Len(s) : (s \o t)[i] = s[i]
  BY ConcatRows
<1> QED BY <1>1 DEF Distinct

LEMMA DbLinear ==
    ASSUME TypeOK, ChainLinear, DistinctInv, NEW p \in Proc
    PROVE  Linear(db) /\ Distinct(db)
<1>1. Linear(db \o txn[p]) /\ Distinct(db \o txn[p])
  BY DEF ChainLinear, DistinctInv, View
<1> QED BY <1>1, LinearPrefix, DistinctPrefix DEF TypeOK

Drop(p) == UNCHANGED <<db, drawn>> /\ txn' = [txn EXCEPT ![p] = <<>>]

LEMMA Shape ==
    ASSUME TypeOK, [Next]_vars
    PROVE  \/ UNCHANGED <<db, txn, drawn>>
           \/ \E p \in Proc : Insert(p) \/ Commit(p) \/ Drop(p)
<1>1. ASSUME NEW p \in Proc,
             Open(p) \/ Acquire(p) \/ ReadHead(p) \/ InsertBusy(p)
             \/ StoreAnchor(p) \/ AnchorFails(p)
             \/ VerifyRead(p) \/ VerifyJudge(p)
      PROVE  UNCHANGED <<db, txn, drawn>>
  BY <1>1 DEF Open, Acquire, ReadHead, InsertBusy, StoreAnchor, AnchorFails,
              VerifyRead, VerifyJudge, logVars
<1>2. ASSUME NEW p \in Proc, CommitFails(p) \/ Close(p) \/ Crash(p)
      PROVE  UNCHANGED <<db, txn, drawn>> \/ Drop(p)
  BY <1>2 DEF CommitFails, Close, Crash, Drop
<1>3. CASE UNCHANGED vars
  BY <1>3 DEF vars, logVars
<1> QED BY <1>1, <1>2, <1>3 DEF Next

-----------------------------------------------------------------------------
(* Preservation of the inductive invariant, conjunct by conjunct.          *)

LEMMA LockStep == TypeOK /\ LockInv /\ [Next]_vars => LockInv'
<1> SUFFICES ASSUME TypeOK, LockInv, [Next]_vars, NEW q \in Proc
             PROVE  (pc[q] \in {"record", "hashed", "inserted", "anchoring",
                                "close"} <=> xlock = q)'
  BY DEF LockInv
<1> USE ProcAssumption DEF TypeOK, LockInv
<1>1. ASSUME NEW p \in Proc, Open(p) \/ Acquire(p) \/ ReadHead(p) \/ Insert(p)
      PROVE  (pc[q] \in {"record", "hashed", "inserted", "anchoring",
                         "close"} <=> xlock = q)'
  BY <1>1 DEF Open, Acquire, LockFree, ReadHead, Insert
<1>2. ASSUME NEW p \in Proc, InsertBusy(p) \/ CommitFails(p)
                             \/ StoreAnchor(p) \/ AnchorFails(p) \/ Close(p)
      PROVE  (pc[q] \in {"record", "hashed", "inserted", "anchoring",
                         "close"} <=> xlock = q)'
  BY <1>2 DEF InsertBusy, CommitFails, StoreAnchor, AnchorFails, Close, Release
<1>3. ASSUME NEW p \in Proc, Commit(p)
      PROVE  (pc[q] \in {"record", "hashed", "inserted", "anchoring",
                         "close"} <=> xlock = q)'
  <2>1. pc[p] = "inserted"
        /\ \/ pc' = [pc EXCEPT ![p] = "anchoring"] /\ xlock' = xlock
           \/ pc' = [pc EXCEPT ![p] = "idle"] /\ xlock' = Nobody
    BY <1>3 DEF Commit, Release
  <2> QED BY <2>1
<1>4. ASSUME NEW p \in Proc, Crash(p)
      PROVE  (pc[q] \in {"record", "hashed", "inserted", "anchoring",
                         "close"} <=> xlock = q)'
  BY <1>4 DEF Crash
<1>5. ASSUME NEW p \in Proc, VerifyRead(p) \/ VerifyJudge(p)
      PROVE  (pc[q] \in {"record", "hashed", "inserted", "anchoring",
                         "close"} <=> xlock = q)'
  BY <1>5 DEF VerifyRead, VerifyJudge, procVars
<1>6. CASE UNCHANGED vars
  BY <1>6 DEF vars, procVars
<1> QED BY <1>1, <1>2, <1>3, <1>4, <1>5, <1>6 DEF Next

LEMMA TxnStep == TypeOK /\ TxnInv /\ [Next]_vars => TxnInv'
<1> SUFFICES ASSUME TypeOK, TxnInv, [Next]_vars PROVE TxnInv'
  OBVIOUS
<1>1. (\A p, q \in Proc : txn[p] # <<>> /\ txn[q] # <<>> => p = q)'
  <2>1. CASE UNCHANGED <<db, txn, drawn>>
    BY <2>1 DEF TxnInv
  <2>2. ASSUME NEW p \in Proc, Insert(p)
        PROVE  (\A x, y \in Proc : txn[x] # <<>> /\ txn[y] # <<>> => x = y)'
    BY <2>2 DEF Insert, TypeOK
  <2>3. ASSUME NEW p \in Proc, Commit(p) \/ Drop(p)
        PROVE  (\A x, y \in Proc : txn[x] # <<>> /\ txn[y] # <<>> => x = y)'
    <3>1. txn' = [txn EXCEPT ![p] = <<>>]
      BY <2>3 DEF Commit, Drop
    <3> QED BY <3>1 DEF TxnInv, TypeOK
  <2> QED BY <2>1, <2>2, <2>3, Shape
<1>2. (\A p \in Proc : pc[p] = "inserted" => txn[p] # <<>>)'
  <2> USE DEF TypeOK, TxnInv
  <2>1. ASSUME NEW p \in Proc, Open(p) \/ Acquire(p) \/ ReadHead(p)
                               \/ VerifyRead(p) \/ VerifyJudge(p)
        PROVE  (\A q \in Proc : pc[q] = "inserted" => txn[q] # <<>>)'
    BY <2>1 DEF Open, Acquire, ReadHead, VerifyRead, VerifyJudge, logVars,
                procVars
  <2>2. ASSUME NEW p \in Proc, InsertBusy(p) \/ StoreAnchor(p) \/ AnchorFails(p)
        PROVE  (\A q \in Proc : pc[q] = "inserted" => txn[q] # <<>>)'
    BY <2>2 DEF InsertBusy, StoreAnchor, AnchorFails, Release, logVars
  <2>3. ASSUME NEW p \in Proc, Insert(p)
        PROVE  (\A q \in Proc : pc[q] = "inserted" => txn[q] # <<>>)'
    <3>1. pc' = [pc EXCEPT ![p] = "inserted"]
          /\ txn' = [txn EXCEPT ![p] = Append(txn[p],
                       [prev |-> prev[p], hash |-> drawn + 1])]
      BY <2>3 DEF Insert
    <3>2. txn[p] \in Seq(Row)
      OBVIOUS
    <3>r. [prev |-> prev[p], hash |-> drawn + 1] \in Row
      BY DEF Row
    <3>3. Append(txn[p], [prev |-> prev[p], hash |-> drawn + 1]) # <<>>
      BY <3>2, <3>r, AppendRow
    <3> QED BY <3>1, <3>3
  <2>4. ASSUME NEW p \in Proc, Commit(p) \/ CommitFails(p) \/ Close(p) \/ Crash(p)
        PROVE  (\A q \in Proc : pc[q] = "inserted" => txn[q] # <<>>)'
    <3>1. /\ \A q \in Proc \ {p} : pc'[q] = pc[q] /\ txn'[q] = txn[q]
          /\ pc'[p] # "inserted"
      <4>1. CASE Commit(p)
        <5>1. txn' = [txn EXCEPT ![p] = <<>>]
              /\ \/ pc' = [pc EXCEPT ![p] = "anchoring"]
                 \/ pc' = [pc EXCEPT ![p] = "idle"]
          BY <4>1 DEF Commit, Release
        <5> QED BY <5>1
      <4>2. CASE CommitFails(p)
        <5>1. /\ txn' = txn \/ txn' = [txn EXCEPT ![p] = <<>>]
              /\ pc' = [pc EXCEPT ![p] = "idle"]
          BY <4>2 DEF CommitFails, Release
        <5> QED BY <5>1
      <4>3. CASE Close(p) \/ Crash(p)
        <5>1. /\ txn' = [txn EXCEPT ![p] = <<>>]
              /\ pc' = [pc EXCEPT ![p] = "closed"]
          BY <4>3 DEF Close, Crash, Release
        <5> QED BY <5>1
      <4> QED BY <2>4, <4>1, <4>2, <4>3
    <3> QED BY <3>1
  <2>5. CASE UNCHANGED vars
    BY <2>5 DEF vars, logVars, procVars
  <2> QED BY <2>1, <2>2, <2>3, <2>4, <2>5 DEF Next
<1> QED BY <1>1, <1>2 DEF TxnInv

LEMMA ChainStep ==
    TypeOK /\ TxnInv /\ ReadInv /\ DistinctInv /\ ChainLinear /\ [Next]_vars
        => DistinctInv' /\ ChainLinear'
<1> SUFFICES ASSUME TypeOK, TxnInv, ReadInv, DistinctInv, ChainLinear,
                    [Next]_vars, NEW q \in Proc
             PROVE  Distinct(View(q))' /\ Linear(View(q)')
  BY DEF DistinctInv, ChainLinear
<1>1. Distinct(View(q)) /\ Linear(View(q)) /\ View(q) \in Seq(Row)
  BY ViewType DEF DistinctInv, ChainLinear
<1>2. CASE UNCHANGED <<db, txn, drawn>>
  BY <1>1, <1>2 DEF View, Distinct
<1>3. ASSUME NEW p \in Proc, Insert(p)
      PROVE  Distinct(View(q))' /\ Linear(View(q)')
  <2> DEFINE r == [prev |-> prev[p], hash |-> drawn + 1]
  <2>1. drawn \in Nat /\ drawn' = drawn + 1
    BY <1>3 DEF Insert, TypeOK
  <2>2. CASE q = p
    <3>1. View(q)' = Append(View(q), r)
      BY <1>3, <2>2, InsertView
    <3>2. r \in Row /\ r.prev = HeadOf(View(q)) /\ r.hash = drawn + 1
      BY <1>3, <2>2 DEF Insert, ReadInv, TypeOK, Row
    <3> HIDE DEF r
    <3>3. Linear(View(q)')
      BY <1>1, <3>1, <3>2, LinearAppend
    <3>4. \A i \in 1..Len(View(q)) : View(q)[i].hash \in 1..drawn
      BY <1>1 DEF Distinct
    <3>5. Distinct(View(q))'
      BY <1>1, <2>1, <3>1, <3>2, <3>4 DEF Distinct
    <3> QED BY <3>3, <3>5
  <2>3. CASE q # p
    <3>1. View(q)' = View(q)
      BY <1>3, <2>3, InsertView
    <3> QED BY <1>1, <2>1, <3>1 DEF Distinct
  <2> QED BY <2>2, <2>3
<1>4. ASSUME NEW p \in Proc, Commit(p)
      PROVE  Distinct(View(q))' /\ Linear(View(q)')
  <2>1. View(q)' = View(p) /\ drawn' = drawn
    BY <1>4, CommitView DEF Commit
  <2> QED BY <2>1 DEF DistinctInv, ChainLinear, Distinct
<1>5. ASSUME NEW p \in Proc, Drop(p)
      PROVE  Distinct(View(q))' /\ Linear(View(q)')
  <2>1. drawn' = drawn /\ View(q)' = IF q = p THEN db ELSE View(q)
    BY <1>5, DropView DEF Drop
  <2> QED BY <1>1, <2>1, DbLinear DEF Distinct
<1> QED BY <1>2, <1>3, <1>4, <1>5, Shape

LEMMA ReadStep ==
    TypeOK /\ LockInv /\ TxnInv /\ ReadInv /\ [Next]_vars => ReadInv'
<1> SUFFICES ASSUME TypeOK, LockInv, TxnInv, ReadInv, [Next]_vars,
                    NEW q \in Proc, (pc[q] = "hashed")'
             PROVE  prev'[q] = HeadOf(View(q)')
  BY DEF ReadInv
<1> USE DEF TypeOK
<1>1. ASSUME NEW p \in Proc, Open(p) \/ Acquire(p)
                             \/ VerifyRead(p) \/ VerifyJudge(p)
      PROVE  prev'[q] = HeadOf(View(q)')
  <2>1. UNCHANGED <<db, txn, prev>> /\ pc[q] = "hashed"
    BY <1>1 DEF Open, Acquire, VerifyRead, VerifyJudge, logVars, procVars
  <2> QED BY <2>1 DEF ReadInv, View
<1>2. ASSUME NEW p \in Proc, ReadHead(p)
      PROVE  prev'[q] = HeadOf(View(q)')
  <2>1. UNCHANGED <<db, txn>> /\ prev' = [prev EXCEPT ![p] = HeadOf(View(p))]
        /\ pc' = [pc EXCEPT ![p] = "hashed"]
    BY <1>2 DEF ReadHead, logVars
  <2>2. View(q)' = View(q)
    BY <2>1 DEF View
  <2> QED BY <2>1, <2>2 DEF ReadInv
<1>3. ASSUME NEW p \in Proc, InsertBusy(p) \/ StoreAnchor(p) \/ AnchorFails(p)
      PROVE  prev'[q] = HeadOf(View(q)')
  <2>1. UNCHANGED <<db, txn>> /\ prev' = [prev EXCEPT ![p] = Genesis]
        /\ pc' = [pc EXCEPT ![p] = "idle"]
    BY <1>3 DEF InsertBusy, StoreAnchor, AnchorFails, Release, logVars
  <2> QED BY <2>1 DEF ReadInv, View
<1>4. ASSUME NEW p \in Proc,
             Insert(p) \/ Commit(p) \/ CommitFails(p) \/ Close(p)
      PROVE  FALSE
  <2>1. pc[p] \in {"hashed", "inserted", "close"} /\ xlock = p
    BY <1>4 DEF Insert, Commit, CommitFails, Close, LockInv
  <2>2. \A x \in Proc \ {p} : pc'[x] = pc[x]
    <3>1. \E v \in {"inserted", "anchoring", "idle", "closed"} :
             pc' = [pc EXCEPT ![p] = v]
      BY <1>4 DEF Insert, Commit, CommitFails, Close, Release
    <3> QED BY <3>1
  <2>3. pc'[p] # "hashed"
    <3>1. \E v \in {"inserted", "anchoring", "idle", "closed"} :
             pc' = [pc EXCEPT ![p] = v]
      BY <1>4 DEF Insert, Commit, CommitFails, Close, Release
    <3> QED BY <3>1
  <2> QED BY <2>1, <2>2, <2>3 DEF LockInv
<1>5. ASSUME NEW p \in Proc, Crash(p)
      PROVE  prev'[q] = HeadOf(View(q)')
  <2>1. UNCHANGED db /\ txn' = [txn EXCEPT ![p] = <<>>]
        /\ prev' = [prev EXCEPT ![p] = Genesis]
        /\ pc' = [pc EXCEPT ![p] = "closed"]
    BY <1>5 DEF Crash
  <2>2. q # p /\ pc[q] = "hashed" /\ prev'[q] = prev[q]
    BY <2>1
  <2> QED BY <2>1, <2>2, DropView DEF ReadInv
<1>6. CASE UNCHANGED vars
  BY <1>6 DEF vars, logVars, procVars, ReadInv, View
<1> QED BY <1>1, <1>2, <1>3, <1>4, <1>5, <1>6 DEF Next

LEMMA HashOfDb ==
    ASSUME TypeOK, NEW p \in Proc, Distinct(View(p)),
           NEW h \in Hashes(db), h = HeadOf(View(p)), View(p) # <<>>
    PROVE  txn[p] = <<>> /\ db # <<>> /\ h = HeadOf(db)
<1>1. /\ Len(View(p)) = Len(db) + Len(txn[p])
      /\ Len(db) \in Nat /\ Len(txn[p]) \in Nat
      /\ \A i \in 1..Len(db) : View(p)[i] = db[i]
  BY ConcatRows DEF TypeOK, View
<1>2. PICK i \in 1..Len(db) : db[i].hash = h
  BY DEF Hashes
<1>3. View(p)[Len(View(p))].hash = h /\ Len(View(p)) \in 1..Len(View(p))
  BY ViewType, HeadIsARow
<1>4. i = Len(View(p))
  <2>1. i \in 1..Len(View(p)) /\ View(p)[i].hash = h
    BY <1>1, <1>2
  <2> QED BY <1>3, <2>1 DEF Distinct
<1>5. Len(txn[p]) = 0 /\ Len(db) # 0 /\ i = Len(db)
  BY <1>1, <1>2, <1>4
<1> QED BY <1>2, <1>5 DEF TypeOK, HeadOf

LEMMA LastStep ==
    TypeOK /\ LockInv /\ TxnInv /\ LastInv /\ [Next]_vars => LastInv'
<1> SUFFICES ASSUME TypeOK, LockInv, TxnInv, LastInv, [Next]_vars,
                    NEW q \in Proc
             PROVE  /\ last'[q] # Genesis => last'[q] \in Hashes(db')
                    /\ pc'[q] = "anchoring" => db' # <<>> /\ last'[q] = HeadOf(db')
  BY DEF LastInv
<1> USE DEF TypeOK
<1>1. ASSUME NEW p \in Proc, Acquire(p) \/ ReadHead(p) \/ Insert(p)
                             \/ VerifyRead(p) \/ VerifyJudge(p)
      PROVE  /\ last'[q] # Genesis => last'[q] \in Hashes(db')
             /\ pc'[q] = "anchoring" => db' # <<>> /\ last'[q] = HeadOf(db')
  <2>1. UNCHANGED <<db, last>> /\ (pc'[q] = "anchoring" => pc[q] = "anchoring")
    BY <1>1 DEF Acquire, ReadHead, Insert, VerifyRead, VerifyJudge, logVars,
                procVars
  <2> QED BY <2>1 DEF LastInv
<1>2. ASSUME NEW p \in Proc, InsertBusy(p) \/ CommitFails(p)
                             \/ StoreAnchor(p) \/ AnchorFails(p)
      PROVE  /\ last'[q] # Genesis => last'[q] \in Hashes(db')
             /\ pc'[q] = "anchoring" => db' # <<>> /\ last'[q] = HeadOf(db')
  <2>1. UNCHANGED <<db, last>> /\ pc' = [pc EXCEPT ![p] = "idle"]
    BY <1>2 DEF InsertBusy, CommitFails, StoreAnchor, AnchorFails, Release,
                logVars
  <2> QED BY <2>1 DEF LastInv
<1>3. ASSUME NEW p \in Proc, Open(p) \/ Close(p) \/ Crash(p)
      PROVE  /\ last'[q] # Genesis => last'[q] \in Hashes(db')
             /\ pc'[q] = "anchoring" => db' # <<>> /\ last'[q] = HeadOf(db')
  <2>1. /\ UNCHANGED db /\ last' = [last EXCEPT ![p] = Genesis]
        /\ \E v \in {"idle", "closed"} : pc' = [pc EXCEPT ![p] = v]
    BY <1>3 DEF Open, Close, Crash, Forget, Release, logVars
  <2> QED BY <2>1 DEF LastInv
<1>4. ASSUME NEW p \in Proc, Commit(p)
      PROVE  /\ last'[q] # Genesis => last'[q] \in Hashes(db')
             /\ pc'[q] = "anchoring" => db' # <<>> /\ last'[q] = HeadOf(db')
  <2>1. /\ pc[p] = "inserted" /\ db' = View(p)
        /\ last' = [last EXCEPT ![p] = HeadOf(View(p))]
    BY <1>4 DEF Commit
  <2>2. \E v \in {"idle", "anchoring"} : pc' = [pc EXCEPT ![p] = v]
    BY <1>4 DEF Commit, Release
  <2>3. xlock = p /\ txn[p] # <<>>
    BY <2>1 DEF LockInv, TxnInv
  <2>4. View(p) \in Seq(Row) /\ View(p) # <<>> /\ Hashes(db) \subseteq Hashes(View(p))
    <3>1. Len(View(p)) = Len(db) + Len(txn[p]) /\ Len(db) \in Nat
          /\ Len(txn[p]) \in Nat \ {0}
      BY <2>3, ConcatRows DEF View
    <3> QED BY <3>1, ViewType, HashesGrow DEF View
  <2>5. CASE q = p
    BY <2>1, <2>4, <2>5, HeadIsARow
  <2>6. CASE q # p
    <3>1. pc'[q] # "anchoring"
      BY <2>2, <2>3, <2>6 DEF LockInv
    <3> QED BY <2>1, <2>4, <2>6, <3>1 DEF LastInv
  <2> QED BY <2>5, <2>6
<1>5. CASE UNCHANGED vars
  BY <1>5 DEF vars, logVars, procVars, LastInv
<1> QED BY <1>1, <1>2, <1>3, <1>4, <1>5 DEF Next

LEMMA AnchorStep ==
    TypeOK /\ TxnInv /\ LastInv /\ AnchorCommitted /\ [Next]_vars
        => AnchorCommitted'
<1> SUFFICES ASSUME TypeOK, TxnInv, LastInv, AnchorCommitted, [Next]_vars
             PROVE  AnchorCommitted'
  OBVIOUS
<1>1. CASE UNCHANGED <<db, anchor>>
  BY <1>1 DEF AnchorCommitted
<1>2. ASSUME NEW p \in Proc, Commit(p) PROVE AnchorCommitted'
  <2>1. db' = View(p) /\ anchor' = anchor
    BY <1>2 DEF Commit
  <2>2. Hashes(db) \subseteq Hashes(View(p))
    BY HashesGrow DEF View, TypeOK
  <2> QED BY <2>1, <2>2 DEF AnchorCommitted
<1>3. ASSUME NEW p \in Proc, StoreAnchor(p) \/ Close(p) PROVE AnchorCommitted'
  <2>1. db' = db /\ (anchor' = anchor \/ anchor' = last[p])
    BY <1>3 DEF StoreAnchor, Close
  <2> QED BY <2>1 DEF AnchorCommitted, LastInv
<1>4. ASSUME NEW p \in Proc,
             Open(p) \/ Acquire(p) \/ ReadHead(p) \/ Insert(p) \/ InsertBusy(p)
             \/ CommitFails(p) \/ AnchorFails(p) \/ Crash(p)
             \/ VerifyRead(p) \/ VerifyJudge(p)
      PROVE  UNCHANGED <<db, anchor>>
  BY <1>4 DEF Open, Acquire, ReadHead, Insert, InsertBusy, CommitFails,
              AnchorFails, Crash, VerifyRead, VerifyJudge, logVars
<1>5. UNCHANGED vars => UNCHANGED <<db, anchor>>
  BY DEF vars, logVars
<1> QED BY <1>1, <1>2, <1>3, <1>4, <1>5 DEF Next

-----------------------------------------------------------------------------
(* The theorems.                                                           *)

\* The inductive invariant holds: lock, transactions, chain and anchor agree.
THEOREM InductiveInvariant == Spec => []IInv
<1>1. Init => IInv
  <2> SUFFICES ASSUME Init PROVE IInv
    OBVIOUS
  <2>1. TypeOK
    BY DEF Init, TypeOK, Fault, Genesis
  <2>2. \A p \in Proc : View(p) = <<>>
    BY NoRows DEF Init, View
  <2>3. LockInv /\ TxnInv /\ ReadInv /\ LastInv /\ AnchorCommitted
    BY ProcAssumption DEF Init, LockInv, TxnInv, ReadInv, LastInv,
                          AnchorCommitted
  <2>4. DistinctInv /\ ChainLinear
    BY <2>2 DEF DistinctInv, ChainLinear, Distinct, Linear
  <2> QED BY <2>1, <2>3, <2>4 DEF IInv
<1>2. IInv /\ [Next]_vars => IInv'
  BY TypeStep, LockStep, TxnStep, ReadStep, ChainStep, LastStep, AnchorStep
  DEF IInv
<1> QED BY <1>1, <1>2, PTL DEF Spec

\* Two rows never name the same head, for any number of writing processes.
THEOREM ChainIsLinear == Spec => []ChainLinear
BY InductiveInvariant, PTL DEF IInv

\* The keychain never names a row that the database does not hold.
THEOREM AnchorIsCommitted == Spec => []AnchorCommitted
BY InductiveInvariant, PTL DEF IInv

-----------------------------------------------------------------------------
(* Refinement: AuditLog implements AppendOnlyLog, the anchor read as the   *)
(* number of rows it covers.                                               *)

LEMMA AnchorPosIs ==
    ASSUME TypeOK, Distinct(db), NEW i \in 1..Len(db), db[i].hash = anchor
    PROVE  AnchorPos = i
<1>1. anchor # Genesis
  BY DEF Distinct, Genesis, TypeOK
<1>2. \A j \in 1..Len(db) : db[j].hash = anchor => j = i
  BY DEF Distinct
<1>3. (CHOOSE j \in 1..Len(db) : db[j].hash = anchor) = i
  BY <1>2
<1> QED BY <1>1, <1>3 DEF AnchorPos

LEMMA AnchorPosRange ==
    ASSUME TypeOK, Distinct(db), AnchorCommitted
    PROVE  AnchorPos \in 0..Len(db)
<1>1. CASE anchor = Genesis
  BY <1>1 DEF AnchorPos, TypeOK
<1>2. CASE anchor # Genesis
  <2>1. PICK i \in 1..Len(db) : db[i].hash = anchor
    BY <1>2 DEF AnchorCommitted, Hashes
  <2> QED BY <2>1, AnchorPosIs DEF TypeOK
<1> QED BY <1>1, <1>2

\* Anchoring the head covers the whole log.
LEMMA AnchorCoversAll ==
    ASSUME IInv, NEW p \in Proc, db # <<>>, anchor' = HeadOf(db), UNCHANGED db
    PROVE  AnchorPos' = Len(db)
<1>1. TypeOK /\ Distinct(db)
  BY DbLinear DEF IInv
<1>2. Len(db) \in 1..Len(db) /\ db[Len(db)].hash = anchor'
  BY <1>1, HeadIsARow DEF TypeOK
<1>3. anchor' # Genesis
  <2>1. anchor' \in 1..drawn /\ drawn \in Nat
    BY <1>1, <1>2 DEF Distinct, TypeOK
  <2> QED BY <2>1 DEF Genesis
<1>4. \A j \in 1..Len(db) : db[j].hash = anchor' => j = Len(db)
  BY <1>1, <1>2 DEF Distinct
<1>5. (CHOOSE j \in 1..Len(db) : db[j].hash = anchor') = Len(db)
  BY <1>2, <1>4
<1> QED BY <1>3, <1>5 DEF AnchorPos

\* Anchoring the head moves the mark to the end of the log, or leaves it.
LEMMA AnchorTheHead ==
    ASSUME IInv, NEW p \in Proc, db # <<>>, anchor' = HeadOf(db), UNCHANGED db
    PROVE  Abstract!Next \/ UNCHANGED <<db, AnchorPos>>
<1>1. TypeOK /\ Distinct(db) /\ AnchorCommitted
  BY DbLinear DEF IInv
<1>2. AnchorPos \in 0..Len(db) /\ Len(db) \in Nat
  BY <1>1, AnchorPosRange DEF TypeOK
<1>4. AnchorPos' = Len(db)
  BY AnchorCoversAll
<1>5. CASE AnchorPos = Len(db)
  BY <1>4, <1>5
<1>6. CASE AnchorPos # Len(db)
  BY <1>2, <1>4, <1>6 DEF Abstract!Next, Abstract!Advance
<1> QED BY <1>5, <1>6

\* A commit leaves the anchored row where it is.
LEMMA CommitKeepsMark ==
    ASSUME IInv, NEW p \in Proc, Commit(p)
    PROVE  AnchorPos' = AnchorPos
<1>1. TypeOK /\ Distinct(View(p)) /\ Distinct(db) /\ AnchorCommitted
  BY DbLinear DEF IInv, DistinctInv
<1>2. db' = View(p) /\ anchor' = anchor
  BY DEF Commit
<1>3. CASE anchor = Genesis
  BY <1>2, <1>3 DEF AnchorPos
<1>4. CASE anchor # Genesis
  <2>1. PICK i \in 1..Len(db) : db[i].hash = anchor
    BY <1>1, <1>4 DEF AnchorCommitted, Hashes
  <2>2. AnchorPos = i
    BY <1>1, <2>1, AnchorPosIs
  <2>3. i \in 1..Len(db') /\ db'[i].hash = anchor'
    <3>1. /\ Len(View(p)) = Len(db) + Len(txn[p])
          /\ Len(db) \in Nat /\ Len(txn[p]) \in Nat
          /\ \A k \in 1..Len(db) : View(p)[k] = db[k]
      BY <1>1, ConcatRows DEF TypeOK, View
    <3> QED BY <1>2, <2>1, <3>1
  <2>4. \A j \in 1..Len(db') : db'[j].hash = anchor' => j = i
    BY <1>1, <1>2, <2>3 DEF Distinct
  <2>5. (CHOOSE j \in 1..Len(db') : db'[j].hash = anchor') = i
    BY <2>3, <2>4
  <2> QED BY <1>2, <1>4, <2>2, <2>5 DEF AnchorPos
<1> QED BY <1>3, <1>4

LEMMA CommitExtends ==
    ASSUME IInv, NEW p \in Proc, Commit(p)
    PROVE  Abstract!Extend
<1>1. TypeOK /\ TxnInv /\ Linear(View(p)) /\ View(p) \in Seq(Row)
  BY ViewType DEF IInv, ChainLinear
<1>2. db' = View(p) /\ txn[p] # <<>>
  BY <1>1 DEF Commit, TxnInv
<1>3. /\ Len(View(p)) = Len(db) + Len(txn[p])
      /\ Len(db) \in Nat /\ Len(txn[p]) \in Nat \ {0}
      /\ \A i \in 1..Len(db) : View(p)[i] = db[i]
  BY <1>1, <1>2, ConcatRows DEF TypeOK, View
<1>4. SubSeq(db', 1, Len(db)) = db
  BY <1>1, <1>2, PrefixOfConcat DEF TypeOK, View
<1>5. AnchorPos' = AnchorPos
  BY CommitKeepsMark
<1>6. Abstract!Linear(db')
  BY <1>1, <1>2 DEF Linear, HashBefore, Abstract!Linear, Abstract!HashBefore,
                    Genesis, Abstract!Genesis
<1> QED BY <1>2, <1>3, <1>4, <1>5, <1>6 DEF Abstract!Extend

LEMMA StepRefines ==
    IInv /\ [Next]_vars => [Abstract!Next]_<<db, AnchorPos>>
<1> SUFFICES ASSUME IInv, [Next]_vars
             PROVE  Abstract!Next \/ UNCHANGED <<db, AnchorPos>>
  OBVIOUS
<1>1. CASE UNCHANGED <<db, anchor>>
  BY <1>1 DEF AnchorPos
<1>2. ASSUME NEW p \in Proc, Commit(p) PROVE Abstract!Next
  BY <1>2, CommitExtends DEF Abstract!Next
<1>3. ASSUME NEW p \in Proc, StoreAnchor(p)
      PROVE  Abstract!Next \/ UNCHANGED <<db, AnchorPos>>
  <2>1. UNCHANGED db /\ db # <<>> /\ anchor' = HeadOf(db)
    BY <1>3 DEF StoreAnchor, IInv, LastInv
  <2> QED BY <2>1, AnchorTheHead
<1>4. ASSUME NEW p \in Proc, Close(p), anchor' # anchor
      PROVE  Abstract!Next \/ UNCHANGED <<db, AnchorPos>>
  <2>1. UNCHANGED db /\ anchor' = last[p] /\ last[p] # Genesis
        /\ HeadOf(View(p)) = last[p]
    BY <1>4 DEF Close, MayAnchorOnClose
  <2>2. View(p) # <<>>
    BY <2>1 DEF HeadOf
  <2>3. db # <<>> /\ last[p] = HeadOf(db)
    BY <2>1, <2>2, HashOfDb DEF IInv, LastInv, DistinctInv
  <2> QED BY <2>1, <2>3, AnchorTheHead
<1>5. ASSUME NEW p \in Proc,
             Open(p) \/ Acquire(p) \/ ReadHead(p) \/ Insert(p) \/ InsertBusy(p)
             \/ CommitFails(p) \/ AnchorFails(p) \/ Crash(p)
             \/ VerifyRead(p) \/ VerifyJudge(p)
      PROVE  UNCHANGED <<db, anchor>>
  BY <1>5 DEF Open, Acquire, ReadHead, Insert, InsertBusy, CommitFails,
              AnchorFails, Crash, VerifyRead, VerifyJudge, logVars
<1>6. ASSUME NEW p \in Proc, Close(p), anchor' = anchor
      PROVE  UNCHANGED <<db, anchor>>
  BY <1>6 DEF Close
<1>7. UNCHANGED vars => UNCHANGED <<db, anchor>>
  BY DEF vars, logVars
<1> QED BY <1>1, <1>2, <1>3, <1>4, <1>5, <1>6, <1>7 DEF Next

\* Rows are only added at the end and chained, and the anchor never moves back.
THEOREM Refinement == Spec => ImplementsAppendOnlyLog
<1>1. Init => Abstract!Init
  BY DEF Init, Abstract!Init, AnchorPos
<1> QED BY <1>1, StepRefines, InductiveInvariant, PTL
        DEF Spec, ImplementsAppendOnlyLog, Abstract!Spec

-----------------------------------------------------------------------------
(* What verify() read stays comparable with the log, and an "ok" stays true. *)

LEMMA PrefixesAgree ==
    ASSUME NEW s \in Seq(Row), NEW t \in Seq(Row), Distinct(s \o t)
    PROVE  Agree(s, s \o t) /\ Agree(s \o t, s) /\ Agree(s \o t, s \o t)
<1> DEFINE u == s \o t
<1>1. /\ Len(u) = Len(s) + Len(t) /\ Len(s) \in Nat /\ Len(t) \in Nat
      /\ \A i \in 1..Len(s) : u[i] = s[i]
  BY ConcatRows
<1>2. \A i, j \in 1..Len(u) : u[i].hash = u[j].hash => i = j
  BY DEF Distinct
<1> HIDE DEF u
<1>3. Agree(s, u)
  BY <1>1, <1>2 DEF Agree
<1>4. Agree(u, s)
  BY <1>1, <1>2 DEF Agree
<1>5. Agree(u, u)
  BY <1>1, <1>2 DEF Agree
<1> QED BY <1>3, <1>4, <1>5 DEF u

\* At most one connection has an open transaction, so of two views one is a
\* prefix of the other.
LEMMA ViewsAgree ==
    ASSUME TypeOK, TxnInv, DistinctInv, NEW p \in Proc, NEW q \in Proc
    PROVE  Agree(View(p), View(q))
<1>1. ASSUME NEW x \in Proc
      PROVE  Agree(db, View(x)) /\ Agree(View(x), db) /\ Agree(View(x), View(x))
  BY <1>1, PrefixesAgree DEF TypeOK, DistinctInv, View
<1>2. CASE p = q
  BY <1>1, <1>2
<1>3. CASE p # q
  <2>1. txn[p] = <<>> \/ txn[q] = <<>>
    BY <1>3 DEF TxnInv
  <2> QED BY <1>1, <2>1, IdleView
<1> QED BY <1>2, <1>3

\* Agreement with the rows of a prefix is agreement with the prefix.
LEMMA AgreePrefix ==
    ASSUME NEW s \in Seq(Row), NEW t \in Seq(Row), NEW r \in Seq(Row),
           Agree(r, s \o t)
    PROVE  Agree(r, s)
<1>1. /\ Len(s \o t) = Len(s) + Len(t) /\ Len(s) \in Nat /\ Len(t) \in Nat
      /\ \A i \in 1..Len(s) : (s \o t)[i] = s[i]
  BY ConcatRows
<1> SUFFICES ASSUME NEW i \in 1..Len(r), NEW j \in 1..Len(s),
                    r[i].hash = s[j].hash
             PROVE  i = j /\ \A k \in 1..i : r[k] = s[k]
  BY DEF Agree
<1>2. j \in 1..Len(s \o t) /\ r[i].hash = (s \o t)[j].hash
  BY <1>1
<1>3. i = j /\ \A k \in 1..i : r[k] = (s \o t)[k]
  BY <1>2 DEF Agree
<1>4. \A k \in 1..i : k \in 1..Len(s)
  BY <1>1, <1>3
<1> QED BY <1>1, <1>3, <1>4

LEMMA SnapMoves ==
    ASSUME TypeOK, [Next]_vars, NEW p \in Proc
    PROVE  \/ snap'[p] = snap[p]
           \/ snap'[p] = <<>> /\ verdict'[p] = "none"
           \/ snap'[p] = View(p) /\ verdict'[p] = "none"
              /\ UNCHANGED <<db, txn, drawn>>
<1>1. ASSUME NEW q \in Proc,
             Open(q) \/ Acquire(q) \/ ReadHead(q) \/ Insert(q) \/ InsertBusy(q)
             \/ Commit(q) \/ CommitFails(q) \/ StoreAnchor(q) \/ AnchorFails(q)
             \/ Close(q) \/ VerifyJudge(q)
      PROVE  snap' = snap
  BY <1>1 DEF Open, Acquire, ReadHead, Insert, InsertBusy, Commit, CommitFails,
              StoreAnchor, AnchorFails, Close, VerifyJudge, verifyVars
<1>2. ASSUME NEW q \in Proc, Crash(q)
      PROVE  \/ snap'[p] = snap[p]
             \/ snap'[p] = <<>> /\ verdict'[p] = "none"
  <2>1. snap' = [snap EXCEPT ![q] = <<>>] /\ verdict' = [verdict EXCEPT ![q] = "none"]
    BY <1>2 DEF Crash
  <2>2. snap \in [Proc -> Seq(Row)] /\ verdict \in [Proc -> {"none", "ok",
                        "unanchored", "lag", "replaced", "broken"}]
    BY DEF TypeOK
  <2>3. snap'[p] = (IF p = q THEN <<>> ELSE snap[p])
    BY <2>1, <2>2
  <2>4. p = q => verdict'[p] = "none"
    BY <2>1, <2>2
  <2> QED BY <2>3, <2>4
<1>3. ASSUME NEW q \in Proc, VerifyRead(q)
      PROVE  \/ snap'[p] = snap[p]
             \/ snap'[p] = View(p) /\ verdict'[p] = "none"
                /\ UNCHANGED <<db, txn, drawn>>
  BY <1>3 DEF VerifyRead, TypeOK, logVars
<1>4. UNCHANGED vars => snap' = snap
  BY DEF vars, verifyVars
<1> QED BY <1>1, <1>2, <1>3, <1>4 DEF Next

LEMMA DrawnGrows ==
    ASSUME TypeOK, [Next]_vars PROVE drawn' \in Nat /\ drawn <= drawn'
<1>1. ASSUME NEW p \in Proc, Insert(p) \/ Commit(p) \/ Drop(p)
      PROVE  drawn' = drawn \/ drawn' = drawn + 1
  BY <1>1 DEF Insert, Commit, Drop
<1>2. drawn' = drawn \/ drawn' = drawn + 1
  BY <1>1, Shape
<1> QED BY <1>2 DEF TypeOK

LEMMA SnapDrawnStep ==
    TypeOK /\ DistinctInv /\ SnapDrawn /\ [Next]_vars => SnapDrawn'
<1> SUFFICES ASSUME TypeOK, DistinctInv, SnapDrawn, [Next]_vars,
                    NEW p \in Proc, NEW i \in 1..Len(snap'[p])
             PROVE  snap'[p][i].hash <= drawn'
  BY DEF SnapDrawn
<1>1. drawn \in Nat /\ drawn' \in Nat /\ drawn <= drawn'
  BY DrawnGrows DEF TypeOK
<1>2. CASE snap'[p] = snap[p]
  <2>1. snap[p][i] \in Row /\ snap[p][i].hash <= drawn
    BY <1>2 DEF SnapDrawn, TypeOK
  <2> QED BY <1>1, <1>2, <2>1 DEF Row
<1>3. CASE snap'[p] = <<>>
  BY <1>3
<1>4. CASE snap'[p] = View(p)
  BY <1>1, <1>4 DEF DistinctInv, Distinct
<1> QED BY <1>2, <1>3, <1>4, SnapMoves

\* Nothing that was read before a row was hashed carries that row's hash.
LEMMA AgreeAppend ==
    ASSUME NEW s \in Seq(Row), NEW t \in Seq(Row), NEW r \in Row,
           Agree(s, t), \A i \in 1..Len(s) : s[i].hash # r.hash
    PROVE  Agree(s, Append(t, r))
<1>1. /\ Len(Append(t, r)) = Len(t) + 1 /\ Len(t) \in Nat /\ Len(s) \in Nat
      /\ \A i \in 1..Len(t) : Append(t, r)[i] = t[i]
      /\ Append(t, r)[Len(t) + 1] = r
  BY AppendProperties
<1> SUFFICES ASSUME NEW i \in 1..Len(s), NEW j \in 1..Len(Append(t, r)),
                    s[i].hash = Append(t, r)[j].hash
             PROVE  i = j /\ \A k \in 1..i : s[k] = Append(t, r)[k]
  BY DEF Agree
<1>2. j \in 1..Len(t) /\ s[i].hash = t[j].hash
  BY <1>1
<1>3. i = j /\ \A k \in 1..i : s[k] = t[k]
  BY <1>2 DEF Agree
<1>4. \A k \in 1..i : k \in 1..Len(t)
  BY <1>1, <1>2, <1>3
<1> QED BY <1>1, <1>3, <1>4

LEMMA SnapAgreesStep ==
    TypeOK /\ TxnInv /\ DistinctInv /\ SnapDrawn /\ SnapAgrees /\ [Next]_vars
        => SnapAgrees'
<1> SUFFICES ASSUME TypeOK, TxnInv, DistinctInv, SnapDrawn, SnapAgrees,
                    [Next]_vars, NEW p \in Proc, NEW q \in Proc
             PROVE  Agree(snap'[p], View(q)')
  BY DEF SnapAgrees
<1>1. CASE snap'[p] = <<>>
  BY <1>1 DEF Agree
<1>2. CASE snap'[p] = View(p) /\ UNCHANGED <<db, txn, drawn>>
  <2>1. View(q)' = View(q)
    BY <1>2 DEF View
  <2> QED BY <1>2, <2>1, ViewsAgree
<1>3. CASE snap'[p] = snap[p]
  <2>1. snap[p] \in Seq(Row) /\ View(q) \in Seq(Row)
        /\ \A x \in Proc : Agree(snap[p], View(x))
    BY ViewType DEF SnapAgrees, TypeOK
  <2>2. CASE UNCHANGED <<db, txn, drawn>>
    BY <1>3, <2>1, <2>2 DEF View
  <2>3. ASSUME NEW x \in Proc, Insert(x)
        PROVE  Agree(snap[p], View(q)')
    <3> DEFINE r == [prev |-> prev[x], hash |-> drawn + 1]
    <3>1. r \in Row /\ r.hash = drawn + 1 /\ drawn \in Nat
      BY DEF TypeOK, Row
    <3>2. View(q)' = IF q = x THEN Append(View(x), r) ELSE View(q)
      BY <2>3, InsertView
    <3> HIDE DEF r
    <3>3. \A i \in 1..Len(snap[p]) : snap[p][i].hash # r.hash
      <4>1. \A i \in 1..Len(snap[p]) : snap[p][i] \in Row /\ snap[p][i].hash <= drawn
        BY <2>1 DEF SnapDrawn
      <4> QED BY <3>1, <4>1 DEF Row
    <3> QED BY <2>1, <3>1, <3>2, <3>3, AgreeAppend
  <2>4. ASSUME NEW x \in Proc, Commit(x)
        PROVE  Agree(snap[p], View(q)')
    BY <2>1, <2>4, CommitView
  <2>5. ASSUME NEW x \in Proc, Drop(x)
        PROVE  Agree(snap[p], View(q)')
    <3>1. Agree(snap[p], db)
      BY <2>1, AgreePrefix DEF TypeOK, View
    <3>2. View(q)' = IF q = x THEN db ELSE View(q)
      BY <2>5, DropView DEF Drop
    <3> QED BY <2>1, <3>1, <3>2
  <2> QED BY <1>3, <2>2, <2>3, <2>4, <2>5, Shape
<1> QED BY <1>1, <1>2, <1>3, SnapMoves

\* The committed log only grows at its end.
LEMMA DbGrows ==
    ASSUME TypeOK, [Next]_vars
    PROVE  Len(db) \in Nat /\ Len(db') \in Nat /\ Len(db) <= Len(db')
           /\ \A k \in 1..Len(db) : db'[k] = db[k]
<1>1. ASSUME NEW p \in Proc, Commit(p)
      PROVE  db' = View(p)
  BY <1>1 DEF Commit
<1>2. ASSUME NEW p \in Proc, Insert(p) \/ Drop(p)
      PROVE  db' = db
  BY <1>2 DEF Insert, Drop
<1>3. \A p \in Proc : /\ Len(View(p)) = Len(db) + Len(txn[p])
                      /\ Len(db) \in Nat /\ Len(txn[p]) \in Nat
                      /\ \A i \in 1..Len(db) : View(p)[i] = db[i]
  BY ConcatRows DEF TypeOK, View
<1>4. Len(db) \in Nat
  BY DEF TypeOK
<1> QED BY <1>1, <1>2, <1>3, <1>4, Shape

\* "ok" is only said when the anchor is the last row that was read; that row is
\* committed, so everything before it is what was read.
LEMMA OkIsAPrefix ==
    ASSUME TypeOK, DistinctInv, SnapAgrees, AnchorCommitted, NEW p \in Proc,
           NEW a \in {anchor, Genesis}, Verdict(snap[p], a) = "ok"
    PROVE  /\ Len(snap[p]) <= Len(db)
           /\ \A k \in 1..Len(snap[p]) : db[k] = snap[p][k]
<1>1. a # Genesis /\ a = HeadOf(snap[p]) /\ a = anchor
  BY DEF Verdict
<1>2. snap[p] \in Seq(Row) /\ snap[p] # <<>>
  BY <1>1 DEF TypeOK, HeadOf
<1>3. Len(snap[p]) \in 1..Len(snap[p]) /\ snap[p][Len(snap[p])].hash = anchor
  BY <1>1, <1>2, HeadIsARow
<1>4. PICK j \in 1..Len(db) : db[j].hash = anchor
  BY <1>1 DEF AnchorCommitted, Hashes
<1>5. Agree(snap[p], db)
  <2>1. Agree(snap[p], View(p))
    BY DEF SnapAgrees
  <2> QED BY <1>2, <2>1, AgreePrefix DEF TypeOK, View
<1>6. Len(snap[p]) = j /\ \A k \in 1..Len(snap[p]) : snap[p][k] = db[k]
  BY <1>3, <1>4, <1>5 DEF Agree
<1> QED BY <1>4, <1>6 DEF TypeOK

LEMMA OkStep ==
    TypeOK /\ DistinctInv /\ AnchorCommitted /\ SnapAgrees /\ OkStays
    /\ [Next]_vars => OkStays'
<1> SUFFICES ASSUME TypeOK, DistinctInv, AnchorCommitted, SnapAgrees, OkStays,
                    [Next]_vars, NEW p \in Proc, verdict'[p] = "ok"
             PROVE  /\ Len(snap'[p]) <= Len(db')
                    /\ \A k \in 1..Len(snap'[p]) : db'[k] = snap'[p][k]
  BY DEF OkStays
<1>1. snap'[p] = snap[p]
  BY SnapMoves
<1>2. verdict[p] = "ok" \/ \E a \in {anchor, Genesis} : Verdict(snap[p], a) = "ok"
  <2>1. ASSUME NEW q \in Proc,
               Open(q) \/ Acquire(q) \/ ReadHead(q) \/ Insert(q) \/ InsertBusy(q)
               \/ Commit(q) \/ CommitFails(q) \/ StoreAnchor(q) \/ AnchorFails(q)
               \/ Close(q)
        PROVE  verdict' = verdict
    BY <2>1 DEF Open, Acquire, ReadHead, Insert, InsertBusy, Commit,
                CommitFails, StoreAnchor, AnchorFails, Close, verifyVars
  <2>2. ASSUME NEW q \in Proc, Crash(q) \/ VerifyRead(q)
        PROVE  verdict' = [verdict EXCEPT ![q] = "none"]
    BY <2>2 DEF Crash, VerifyRead
  <2>3. ASSUME NEW q \in Proc, VerifyJudge(q)
        PROVE  \E a \in {anchor, Genesis} :
                  verdict' = [verdict EXCEPT ![q] = Verdict(snap[q], a)]
    BY <2>3 DEF VerifyJudge
  <2>4. UNCHANGED vars => verdict' = verdict
    BY DEF vars, verifyVars
  <2>5. \/ verdict' = verdict
        \/ \E q \in Proc : verdict' = [verdict EXCEPT ![q] = "none"]
        \/ \E q \in Proc, a \in {anchor, Genesis} :
              verdict' = [verdict EXCEPT ![q] = Verdict(snap[q], a)]
    BY <2>1, <2>2, <2>3, <2>4 DEF Next
  <2> QED BY <2>5 DEF TypeOK
<1>3. /\ Len(snap[p]) <= Len(db)
      /\ \A k \in 1..Len(snap[p]) : db[k] = snap[p][k]
  BY <1>2, OkIsAPrefix DEF OkStays
<1>4. Len(db) \in Nat /\ Len(db') \in Nat /\ Len(db) <= Len(db')
      /\ \A k \in 1..Len(db) : db'[k] = db[k]
  BY DbGrows
<1>5. Len(snap[p]) \in Nat
  BY DEF TypeOK
<1> QED BY <1>1, <1>3, <1>4, <1>5

\* What a verify() has read, and every "ok" it gave, stays true of the log.
THEOREM SnapInvariant == Spec => []SnapInv
<1>1. Init => SnapInv
  BY DEF Init, SnapInv, SnapDrawn, SnapAgrees, OkStays, Agree
<1>2. IInv /\ SnapInv /\ [Next]_vars => SnapInv'
  BY SnapDrawnStep, SnapAgreesStep, OkStep DEF IInv, SnapInv
<1> QED BY <1>1, <1>2, InductiveInvariant, PTL DEF Spec

\* A verdict "ok, anchored" is never taken back: the rows it is about are, and
\* remain, the beginning of the committed log.
THEOREM VerdictIsDurable == Spec => []OkIsDurable
<1>1. IInv /\ SnapInv => OkIsDurable
  <2> SUFFICES ASSUME TypeOK, OkStays, NEW p \in Proc, verdict[p] = "ok"
               PROVE  /\ Len(snap[p]) <= Len(db)
                      /\ SubSeq(db, 1, Len(snap[p])) = snap[p]
    BY DEF IInv, SnapInv, OkIsDurable
  <2>1. /\ Len(snap[p]) <= Len(db) /\ Len(snap[p]) \in Nat /\ Len(db) \in Nat
        /\ \A k \in 1..Len(snap[p]) : db[k] = snap[p][k]
    BY DEF OkStays, TypeOK
  <2> DEFINE pre == SubSeq(db, 1, Len(snap[p]))
  <2>2. pre \in Seq(Row) /\ Len(pre) = Len(snap[p])
        /\ \A k \in 1..Len(pre) : pre[k] = db[k]
    BY <2>1 DEF TypeOK
  <2>3. \A k \in 1..Len(pre) : pre[k] = snap[p][k]
    BY <2>1, <2>2
  <2> HIDE DEF pre
  <2>4. pre = snap[p]
    BY <2>2, <2>3, SeqEqual DEF TypeOK
  <2> QED BY <2>1, <2>4 DEF pre
<1> QED BY <1>1, SnapInvariant, InductiveInvariant, PTL

-----------------------------------------------------------------------------
(* The unanchored tail is paid for by the handles opened and the faults.   *)

\* Several rows of the faults counter are numbers.
LEMMA Counters == TypeOK => /\ \A f \in Fault : faults[f] \in Nat
                            /\ Faulty \in Nat
                            /\ faults["opens"] \in Nat /\ faults["commits"] \in Nat
                            /\ faults["crashes"] \in Nat /\ faults["outages"] \in Nat
BY FaultNames DEF TypeOK, Faulty

\* What a step may do to the counters and to the set of open handles.
LEMMA CountersStep ==
    ASSUME TypeOK, [Next]_vars
    PROVE  /\ faults["commits"]' >= faults["commits"]
           /\ faults["crashes"]' >= faults["crashes"]
           /\ faults["outages"]' >= faults["outages"]
           /\ Faulty' >= Faulty
           /\ \/ /\ faults["opens"]' = faults["opens"] + 1
                 /\ \E p \in Proc : Open(p)
              \/ faults["opens"]' = faults["opens"]
<1> USE FaultNames
<1>0. faults \in [Fault -> Nat]
  BY DEF TypeOK
<1>1. ASSUME NEW p \in Proc,
             Acquire(p) \/ ReadHead(p) \/ Insert(p) \/ InsertBusy(p)
             \/ Commit(p) \/ StoreAnchor(p) \/ VerifyRead(p)
      PROVE  faults' = faults
  BY <1>1 DEF Acquire, ReadHead, Insert, InsertBusy, Commit, StoreAnchor, VerifyRead
<1>2. ASSUME NEW p \in Proc, Open(p)
      PROVE  faults' = [faults EXCEPT !["opens"] = @ + 1]
  BY <1>2 DEF Open
<1>3. ASSUME NEW p \in Proc, CommitFails(p)
      PROVE  faults' = [faults EXCEPT !["commits"] = @ + 1]
  BY <1>3 DEF CommitFails
<1>4. ASSUME NEW p \in Proc, AnchorFails(p) \/ Close(p) \/ VerifyJudge(p)
      PROVE  \/ faults' = faults
             \/ faults' = [faults EXCEPT !["outages"] = @ + 1]
  BY <1>4 DEF AnchorFails, Close, VerifyJudge
<1>5. ASSUME NEW p \in Proc, Crash(p)
      PROVE  faults' = [faults EXCEPT !["crashes"] = @ + 1]
  BY <1>5 DEF Crash
<1>6. UNCHANGED vars => faults' = faults
  BY DEF vars
<1>7. \/ faults' = faults
      \/ faults' = [faults EXCEPT !["opens"] = @ + 1] /\ \E p \in Proc : Open(p)
      \/ faults' = [faults EXCEPT !["commits"] = @ + 1]
      \/ faults' = [faults EXCEPT !["outages"] = @ + 1]
      \/ faults' = [faults EXCEPT !["crashes"] = @ + 1]
  BY <1>1, <1>2, <1>3, <1>4, <1>5, <1>6 DEF Next
<1> QED BY <1>0, <1>7 DEF Faulty

\* Only Open makes a handle open.
LEMMA HandlesMove ==
    ASSUME TypeOK, [Next]_vars
    PROVE  \/ \E p \in Proc : Open(p) /\ OpenHandles' = OpenHandles \cup {p}
           \/ OpenHandles' \subseteq OpenHandles
<1> USE DEF OpenHandles
<1>0. pc \in [Proc -> {"closed", "idle", "record", "hashed", "inserted",
                       "anchoring", "close"}]
  BY DEF TypeOK
<1>1. ASSUME NEW p \in Proc, Open(p)
      PROVE  OpenHandles' = OpenHandles \cup {p}
  <2>1. pc' = [pc EXCEPT ![p] = "idle"]
    BY <1>1 DEF Open
  <2> QED BY <1>0, <2>1
<1>2. ASSUME NEW p \in Proc,
             Acquire(p) \/ ReadHead(p) \/ Insert(p) \/ InsertBusy(p) \/ Commit(p)
             \/ CommitFails(p) \/ StoreAnchor(p) \/ AnchorFails(p) \/ Close(p)
             \/ Crash(p)
      PROVE  OpenHandles' \subseteq OpenHandles
  <2>1. pc[p] # "closed"
    BY <1>2 DEF Acquire, ReadHead, Insert, InsertBusy, Commit, CommitFails,
                StoreAnchor, AnchorFails, Close, Crash
  <2>2. \E v : pc' = [pc EXCEPT ![p] = v]
    BY <1>2 DEF Acquire, ReadHead, Insert, InsertBusy, Commit, CommitFails,
                StoreAnchor, AnchorFails, Close, Crash, Release
  <2> QED BY <1>0, <2>1, <2>2
<1>3. ASSUME NEW p \in Proc, VerifyRead(p) \/ VerifyJudge(p)
      PROVE  pc' = pc
  BY <1>3 DEF VerifyRead, VerifyJudge, procVars
<1>4. UNCHANGED vars => pc' = pc
  BY DEF vars, procVars
<1> QED BY <1>1, <1>2, <1>3, <1>4 DEF Next

LEMMA HandlesStep == TypeOK /\ HandlesInv /\ [Next]_vars => HandlesInv'
<1> SUFFICES ASSUME TypeOK, HandlesInv, [Next]_vars PROVE HandlesInv'
  OBVIOUS
<1>1. /\ IsFiniteSet(OpenHandles) /\ Cardinality(OpenHandles) \in Nat
      /\ Cardinality(OpenHandles) <= faults["opens"] /\ faults["opens"] \in Nat
  BY FS_CardinalityType, Counters DEF HandlesInv
<1>2. CASE OpenHandles' \subseteq OpenHandles
  <2>1. IsFiniteSet(OpenHandles') /\ Cardinality(OpenHandles') <= Cardinality(OpenHandles)
        /\ Cardinality(OpenHandles') \in Nat
    BY <1>1, <1>2, FS_Subset, FS_CardinalityType
  <2>2. faults["opens"]' \in {faults["opens"], faults["opens"] + 1}
    BY CountersStep
  <2> QED BY <1>1, <2>1, <2>2 DEF HandlesInv
<1>3. ASSUME NEW p \in Proc, Open(p), OpenHandles' = OpenHandles \cup {p}
      PROVE  HandlesInv'
  <2>1. IsFiniteSet(OpenHandles') /\ Cardinality(OpenHandles') \in Nat
        /\ Cardinality(OpenHandles') <= Cardinality(OpenHandles) + 1
    BY <1>1, <1>3, FS_AddElement, FS_CardinalityType
  <2>2. faults["opens"]' = faults["opens"] + 1
    <3>1. faults' = [faults EXCEPT !["opens"] = @ + 1] /\ faults \in [Fault -> Nat]
      BY <1>3 DEF Open, TypeOK
    <3> QED BY <3>1, FaultNames
  <2> QED BY <1>1, <2>1, <2>2 DEF HandlesInv
<1> QED BY <1>2, <1>3, HandlesMove

\* Rows in flight are in the open transaction, so no count is negative.
LEMMA LeftOpenNat == TypeOK /\ TxnInv => \A p \in Proc : LeftOpen(p) \in Nat
<1> SUFFICES ASSUME TypeOK, TxnInv, NEW p \in Proc PROVE LeftOpen(p) \in Nat
  OBVIOUS
<1>1. txn[p] \in Seq(Row) /\ (pc[p] = "inserted" => txn[p] # <<>>)
  BY DEF TypeOK, TxnInv
<1>2. Len(txn[p]) \in Nat /\ (txn[p] # <<>> => Len(txn[p]) > 0)
  BY <1>1
<1> QED BY <1>1, <1>2 DEF LeftOpen, InFlight

LEMMA LeftOpenStep ==
    TypeOK /\ LockInv /\ TxnInv /\ LeftOpenInv /\ [Next]_vars => LeftOpenInv'
<1> SUFFICES ASSUME TypeOK, LockInv, TxnInv, LeftOpenInv, [Next]_vars,
                    NEW q \in Proc
             PROVE  /\ LeftOpen(q)' <= faults["commits"]'
                    /\ (\E p \in Proc : pc[p] = "anchoring")' => txn'[q] = <<>>
  BY DEF LeftOpenInv
<1>0. /\ faults["commits"] \in Nat /\ faults["commits"]' \in Nat
      /\ faults["commits"] <= faults["commits"]'
      /\ LeftOpen(q) \in Nat /\ LeftOpen(q) <= faults["commits"]
      /\ pc \in [Proc -> {"closed", "idle", "record", "hashed", "inserted",
                          "anchoring", "close"}]
      /\ txn \in [Proc -> Seq(Row)]
  <2>1. TypeOK'
    BY TypeStep
  <2>2. TypeOK' => faults["commits"]' \in Nat
    BY FaultNames DEF TypeOK
  <2> QED BY <2>1, <2>2, Counters, CountersStep, LeftOpenNat DEF LeftOpenInv, TypeOK
<1>1. ASSUME NEW p \in Proc, Open(p) \/ Acquire(p) \/ ReadHead(p) \/ InsertBusy(p)
                             \/ StoreAnchor(p) \/ AnchorFails(p)
      PROVE  /\ LeftOpen(q)' <= faults["commits"]'
             /\ (\E x \in Proc : pc[x] = "anchoring")' => txn'[q] = <<>>
  <2>1. txn' = txn /\ pc[p] # "inserted"
        /\ \E v \in {"idle", "record", "close", "hashed"} : pc' = [pc EXCEPT ![p] = v]
    BY <1>1 DEF Open, Acquire, ReadHead, InsertBusy, StoreAnchor, AnchorFails,
                Release, logVars
  <2>2. \A x \in Proc : pc'[x] \in {"inserted", "anchoring"} => pc[x] = pc'[x]
    BY <1>0, <2>1
  <2>3. LeftOpen(q)' = LeftOpen(q)
    BY <1>0, <2>1 DEF LeftOpen, InFlight
  <2> QED BY <1>0, <2>1, <2>2, <2>3 DEF LeftOpenInv
<1>2. ASSUME NEW p \in Proc, Insert(p)
      PROVE  /\ LeftOpen(q)' <= faults["commits"]'
             /\ (\E x \in Proc : pc[x] = "anchoring")' => txn'[q] = <<>>
  <2> DEFINE r == [prev |-> prev[p], hash |-> drawn + 1]
  <2>1. txn' = [txn EXCEPT ![p] = Append(txn[p], r)] /\ pc[p] = "hashed"
        /\ pc' = [pc EXCEPT ![p] = "inserted"]
    BY <1>2 DEF Insert
  <2> HIDE DEF r
  <2>2. LeftOpen(q)' = LeftOpen(q)
    <3>1. CASE q = p
      <4>1. Len(txn'[q]) = Len(txn[q]) + 1 /\ Len(txn[q]) \in Nat
        BY <1>0, <2>1, <3>1
      <4>2. pc'[q] = "inserted" /\ pc[q] = "hashed"
        BY <1>0, <2>1, <3>1
      <4>3. InFlight(q) = 0 /\ InFlight(q)' = 1
        BY <4>2 DEF InFlight
      <4> QED BY <4>1, <4>3 DEF LeftOpen
    <3>2. CASE q # p
      <4>1. txn'[q] = txn[q] /\ pc'[q] = pc[q]
        BY <1>0, <2>1, <3>2
      <4> QED BY <4>1 DEF LeftOpen, InFlight
    <3> QED BY <3>1, <3>2
  <2>3. \A x \in Proc : pc'[x] # "anchoring"
    BY <1>0, <2>1 DEF LockInv
  <2> QED BY <1>0, <2>2, <2>3
<1>3. ASSUME NEW p \in Proc, Commit(p)
      PROVE  /\ LeftOpen(q)' <= faults["commits"]'
             /\ (\E x \in Proc : pc[x] = "anchoring")' => txn'[q] = <<>>
  <2>1. txn' = [txn EXCEPT ![p] = <<>>] /\ pc[p] = "inserted"
        /\ \E v \in {"idle", "anchoring"} : pc' = [pc EXCEPT ![p] = v]
    BY <1>3 DEF Commit, Release
  <2>2. txn'[q] = <<>>
    BY <1>0, <2>1 DEF TxnInv
  <2>3. pc'[q] # "inserted"
    BY <1>0, <2>1 DEF LockInv
  <2>4. LeftOpen(q)' = Len(txn'[q]) /\ Len(txn'[q]) = 0
    BY <2>2, <2>3 DEF LeftOpen, InFlight
  <2> QED BY <1>0, <2>2, <2>4
<1>4. ASSUME NEW p \in Proc, CommitFails(p)
      PROVE  /\ LeftOpen(q)' <= faults["commits"]'
             /\ (\E x \in Proc : pc[x] = "anchoring")' => txn'[q] = <<>>
  <2>1. (txn' = txn \/ txn' = [txn EXCEPT ![p] = <<>>]) /\ pc[p] = "inserted"
        /\ pc' = [pc EXCEPT ![p] = "idle"]
        /\ faults["commits"]' = faults["commits"] + 1
    <3>1. faults' = [faults EXCEPT !["commits"] = @ + 1] /\ faults \in [Fault -> Nat]
      BY <1>4 DEF CommitFails, TypeOK
    <3> QED BY <1>4, <3>1, FaultNames DEF CommitFails, Release
  <2>2. \A x \in Proc : pc'[x] # "anchoring"
    BY <1>0, <2>1 DEF LockInv
  <2>3. Len(txn'[q]) <= Len(txn[q]) /\ Len(txn'[q]) \in Nat /\ Len(txn[q]) \in Nat
    <3>1. txn'[q] = txn[q] \/ txn'[q] = <<>>
      BY <1>0, <2>1
    <3> QED BY <1>0, <3>1
  <2>4. LeftOpen(q)' <= LeftOpen(q) + 1 /\ LeftOpen(q)' \in Int
    <3>1. InFlight(q) \in {0, 1} /\ InFlight(q)' \in {0, 1}
      BY DEF InFlight
    <3>2. LeftOpen(q) = Len(txn[q]) - InFlight(q)
          /\ LeftOpen(q)' = Len(txn'[q]) - InFlight(q)'
      BY DEF LeftOpen
    <3> QED BY <2>3, <3>1, <3>2
  <2> QED BY <1>0, <2>1, <2>2, <2>4
<1>5. ASSUME NEW p \in Proc, Close(p) \/ Crash(p)
      PROVE  /\ LeftOpen(q)' <= faults["commits"]'
             /\ (\E x \in Proc : pc[x] = "anchoring")' => txn'[q] = <<>>
  <2>1. txn' = [txn EXCEPT ![p] = <<>>] /\ pc' = [pc EXCEPT ![p] = "closed"]
    BY <1>5 DEF Close, Crash, Release
  <2>2. \A x \in Proc : pc'[x] = "anchoring" => pc[x] = "anchoring"
    BY <1>0, <2>1
  <2>3. CASE q = p
    <3>1. txn'[q] = <<>> /\ pc'[q] = "closed"
      BY <1>0, <2>1, <2>3
    <3> QED BY <1>0, <3>1 DEF LeftOpen, InFlight
  <2>4. CASE q # p
    <3>1. txn'[q] = txn[q] /\ pc'[q] = pc[q]
      BY <1>0, <2>1, <2>4
    <3>2. LeftOpen(q)' = LeftOpen(q)
      BY <3>1 DEF LeftOpen, InFlight
    <3> QED BY <1>0, <2>2, <3>1, <3>2 DEF LeftOpenInv
  <2> QED BY <2>3, <2>4
<1>6. CASE (\E p \in Proc : VerifyRead(p) \/ VerifyJudge(p)) \/ UNCHANGED vars
  <2>1. txn' = txn /\ pc' = pc
    BY <1>6 DEF VerifyRead, VerifyJudge, vars, logVars, procVars
  <2>2. LeftOpen(q)' = LeftOpen(q)
    BY <2>1 DEF LeftOpen, InFlight
  <2> QED BY <1>0, <2>1, <2>2 DEF LeftOpenInv
<1> QED BY <1>1, <1>2, <1>3, <1>4, <1>5, <1>6 DEF Next

-----------------------------------------------------------------------------
(* The credit: how many rows the open handles may still leave unanchored.  *)

\* What the handles opened so far pay for, and that everything counted is a number.
Paid == faults["opens"] * (AnchorEvery - 1)

Counted ==
    /\ Paid \in Nat
    /\ IsFiniteSet(Credit) /\ Cardinality(Credit) \in Nat
    /\ Cardinality(Credit) <= Paid
    /\ Cardinality(Anchoring) \in {0, 1}
    /\ \A p \in Proc : pc[p] = "anchoring" => Cardinality(Anchoring) = 1
    /\ (\A p \in Proc : pc[p] # "anchoring") => Cardinality(Anchoring) = 0
    /\ Faulty \in Nat /\ faults["opens"] \in Nat
    /\ Len(db) \in Nat
    /\ \A p \in Proc : LeftOpen(p) \in Nat /\ AnchorPos \in 0..Len(db)

LEMMA Monotone ==
    ASSUME NEW a \in Nat, NEW b \in Nat, NEW k \in Nat, a <= b
    PROVE  a * k <= b * k /\ a * k \in Nat /\ (a + 1) * k = a * k + k
OBVIOUS

LEMMA CountedHolds == IInv /\ HandlesInv => Counted
<1> SUFFICES ASSUME IInv, HandlesInv PROVE Counted
  OBVIOUS
<1>1. TypeOK /\ LockInv /\ TxnInv /\ AnchorCommitted
  BY DEF IInv
<1>2. /\ IsFiniteSet(OpenHandles) /\ Cardinality(OpenHandles) \in Nat
      /\ Cardinality(OpenHandles) <= faults["opens"]
      /\ faults["opens"] \in Nat /\ Faulty \in Nat
  BY <1>1, FS_CardinalityType, Counters DEF HandlesInv
<1>3. AnchorEvery - 1 \in Nat
  BY AnchorEveryAssumption
<1>4. Paid \in Nat /\ Cardinality(OpenHandles) * (AnchorEvery - 1) <= Paid
  BY <1>2, <1>3, Monotone DEF Paid
<1>5. /\ IsFiniteSet(Credit) /\ Cardinality(Credit) \in Nat
      /\ Cardinality(Credit) <= Paid
  <2> DEFINE All == OpenHandles \X (1..(AnchorEvery - 1))
  <2>1. IsFiniteSet(1..(AnchorEvery - 1))
        /\ Cardinality(1..(AnchorEvery - 1)) = AnchorEvery - 1
    BY <1>3, FS_Interval
  <2>2. IsFiniteSet(All)
        /\ Cardinality(All) = Cardinality(OpenHandles) * (AnchorEvery - 1)
    BY <1>2, <2>1, FS_Product
  <2>3. Credit \in SUBSET All
    BY DEF Credit
  <2> HIDE DEF All
  <2>4. IsFiniteSet(Credit) /\ Cardinality(Credit) <= Cardinality(All)
    BY <2>2, <2>3, FS_Subset
  <2>5. Cardinality(Credit) \in Nat /\ Cardinality(All) \in Nat
    BY <2>2, <2>4, FS_CardinalityType
  <2> QED BY <1>4, <2>2, <2>4, <2>5
<1>6. /\ Cardinality(Anchoring) \in {0, 1}
      /\ \A p \in Proc : pc[p] = "anchoring" => Cardinality(Anchoring) = 1
      /\ (\A p \in Proc : pc[p] # "anchoring") => Cardinality(Anchoring) = 0
  <2>1. CASE \A p \in Proc : pc[p] # "anchoring"
    <3>1. Anchoring = {}
      BY <2>1 DEF Anchoring
    <3> QED BY <2>1, <3>1, FS_EmptySet
  <2>2. ASSUME NEW p \in Proc, pc[p] = "anchoring"
        PROVE  Cardinality(Anchoring) = 1
    <3>1. Anchoring = {p}
      BY <1>1, <2>2 DEF Anchoring, LockInv
    <3> QED BY <3>1, FS_Singleton
  <2> QED BY <2>1, <2>2
<1>7. \A p \in Proc : LeftOpen(p) \in Nat /\ AnchorPos \in 0..Len(db)
  <2> TAKE p \in Proc
  <2>1. Distinct(db)
    BY DbLinear DEF IInv
  <2> QED BY <1>1, <2>1, AnchorPosRange, LeftOpenNat
<1>8. Len(db) \in Nat
  BY <1>1 DEF TypeOK
<1> QED BY <1>2, <1>4, <1>5, <1>6, <1>7, <1>8 DEF Counted

\* The rows of q's view beyond the anchor, the one in flight apart.
Unanchored(q) == Len(db) + LeftOpen(q) - AnchorPos

Bound(q) == Unanchored(q) + Cardinality(Credit) <=
                Paid + Faulty + Cardinality(Anchoring)

LEMMA CreditShrinks ==
    ASSUME Counted, Counted', Credit' \subseteq Credit
    PROVE  Cardinality(Credit') <= Cardinality(Credit)
BY FS_Subset DEF Counted

\* A step that moves one open handle between states other than "closed", and
\* writes no counter, leaves the credit.
LEMMA CreditKept ==
    ASSUME TypeOK, since' = since,
           \/ pc' = pc
           \/ \E p \in Proc : \E v : pc' = [pc EXCEPT ![p] = v] /\ v # "closed"
                                     /\ pc[p] # "closed"
    PROVE  Credit' = Credit
<1>1. OpenHandles' = OpenHandles
  BY DEF TypeOK, OpenHandles
<1> QED BY <1>1 DEF Credit

\* The handle that leaves takes its credit with it.
LEMMA CreditLeaves ==
    ASSUME TypeOK, NEW p \in Proc, pc' = [pc EXCEPT ![p] = "closed"],
           since' = [since EXCEPT ![p] = 0]
    PROVE  Credit' \subseteq Credit
<1>1. OpenHandles' = OpenHandles \ {p}
  BY DEF TypeOK, OpenHandles
<1>2. \A q \in Proc \ {p} : since'[q] = since[q]
  BY DEF TypeOK
<1>3. OpenHandles \subseteq Proc
  BY DEF OpenHandles
<1> QED BY <1>1, <1>2, <1>3 DEF Credit

\* A handle that opens brings anchor_every - 1.
LEMMA CreditOpens ==
    ASSUME TypeOK, Counted, Counted', NEW p \in Proc, Open(p)
    PROVE  Cardinality(Credit') <= Cardinality(Credit) + (AnchorEvery - 1)
<1> DEFINE New == {p} \X (1..(AnchorEvery - 1))
<1>1. pc' = [pc EXCEPT ![p] = "idle"] /\ since' = [since EXCEPT ![p] = 0]
  BY DEF Open, Forget
<1>2. OpenHandles' = OpenHandles \cup {p}
  BY <1>1 DEF TypeOK, OpenHandles
<1>3. Credit' \in SUBSET (Credit \cup New)
  <2>1. \A q \in Proc \ {p} : since'[q] = since[q]
    BY <1>1 DEF TypeOK
  <2>2. OpenHandles \subseteq Proc
    BY DEF OpenHandles
  <2> QED BY <1>2, <2>1, <2>2 DEF Credit
<1>4. IsFiniteSet(New) /\ Cardinality(New) = AnchorEvery - 1
      /\ AnchorEvery - 1 \in Nat
  <2>1. AnchorEvery - 1 \in Nat
    BY AnchorEveryAssumption
  <2>2. IsFiniteSet(1..(AnchorEvery - 1))
        /\ Cardinality(1..(AnchorEvery - 1)) = AnchorEvery - 1
    BY <2>1, FS_Interval
  <2>3. IsFiniteSet({p}) /\ Cardinality({p}) = 1
    BY FS_Singleton
  <2>4. IsFiniteSet(New) /\ Cardinality(New) = 1 * (AnchorEvery - 1)
    BY <2>2, <2>3, FS_Product
  <2> QED BY <2>1, <2>4
<1> HIDE DEF New
<1>5. IsFiniteSet(Credit) /\ Cardinality(Credit) \in Nat /\ Cardinality(Credit') \in Nat
  BY DEF Counted
<1>6. /\ IsFiniteSet(Credit \cup New)
      /\ Cardinality(Credit \cup New) =
            Cardinality(Credit) + Cardinality(New) - Cardinality(Credit \cap New)
      /\ Cardinality(Credit \cap New) \in Nat
  <2>1. IsFiniteSet(Credit \cap New)
    BY <1>5, FS_Subset
  <2> QED BY <1>4, <1>5, <2>1, FS_Union, FS_CardinalityType
<1>7. Cardinality(Credit') <= Cardinality(Credit \cup New)
  BY <1>3, <1>6, FS_Subset
<1> QED BY <1>4, <1>5, <1>6, <1>7

\* A counted commit that is not yet due spends one.
LEMMA CreditSpent ==
    ASSUME TypeOK, Counted, Counted', NEW p \in Proc, Commit(p), ~AnchorDue(p)
    PROVE  Cardinality(Credit') <= Cardinality(Credit) - 1
<1> DEFINE one == <<p, since[p] + 1>>
<1>1. pc[p] = "inserted" /\ pc' = [pc EXCEPT ![p] = "idle"]
      /\ since' = [since EXCEPT ![p] = since[p] + 1]
  BY DEF Commit, Release
<1>2. since[p] \in Nat /\ since[p] + 1 \in 1..(AnchorEvery - 1)
  BY AnchorEveryAssumption DEF TypeOK, AnchorDue
<1>3. OpenHandles' = OpenHandles /\ p \in OpenHandles /\ OpenHandles \subseteq Proc
  BY <1>1 DEF TypeOK, OpenHandles
<1>4. \A q \in Proc : since'[q] = IF q = p THEN since[p] + 1 ELSE since[q]
  BY <1>1 DEF TypeOK
<1>5. one \in Credit
  BY <1>2, <1>3 DEF Credit
<1>6. Credit' \subseteq Credit \ {one}
  <2> SUFFICES ASSUME NEW x \in Credit' PROVE x \in Credit /\ x # one
    OBVIOUS
  <2>1. x \in OpenHandles \X (1..(AnchorEvery - 1)) /\ since'[x[1]] < x[2]
    BY <1>3 DEF Credit
  <2>2. x[1] \in Proc /\ since[x[1]] \in Nat /\ x[2] \in Int
    BY <1>3, <2>1 DEF TypeOK
  <2>3. since[x[1]] < x[2]
    BY <1>2, <1>4, <2>1, <2>2
  <2>4. x # one
    BY <1>2, <1>4, <2>1, <2>2
  <2> QED BY <2>1, <2>3, <2>4 DEF Credit
<1> HIDE DEF one
<1>7. IsFiniteSet(Credit) /\ Cardinality(Credit) \in Nat /\ Cardinality(Credit') \in Nat
  BY DEF Counted
<1>8. IsFiniteSet(Credit \ {one}) /\ Cardinality(Credit \ {one}) = Cardinality(Credit) - 1
  BY <1>5, <1>7, FS_RemoveElement
<1>9. Cardinality(Credit') <= Cardinality(Credit \ {one})
  BY <1>6, <1>8, FS_Subset
<1> QED BY <1>7, <1>8, <1>9

-----------------------------------------------------------------------------
(* The bound on the unanchored rows, action by action.                     *)

Ints(q) == /\ Unanchored(q) \in Int
           /\ Cardinality(Credit) \in Nat /\ Cardinality(Anchoring) \in Nat
           /\ Paid \in Nat /\ Faulty \in Nat

LEMMA IntsAre ==
    ASSUME Counted, Counted', NEW q \in Proc
    PROVE  Ints(q) /\ Ints(q)'
<1>1. Unanchored(q) \in Int
  BY DEF Counted, Unanchored
<1>2. Unanchored(q)' \in Int
  BY DEF Counted, Unanchored
<1>3. Ints(q)
  BY <1>1 DEF Counted, Ints
<1>4. Ints(q)'
  BY <1>2 DEF Counted, Ints
<1> QED BY <1>3, <1>4

\* The sizes a step may change.
LEMMA UnanchoredKept ==
    ASSUME Counted, Counted', NEW q \in Proc, UNCHANGED <<db, anchor>>,
           LeftOpen(q)' <= LeftOpen(q)
    PROVE  Unanchored(q)' <= Unanchored(q)
<1>1. AnchorPos' = AnchorPos /\ Len(db') = Len(db)
  BY DEF AnchorPos
<1>2. LeftOpen(q) \in Nat /\ AnchorPos \in Nat /\ Len(db) \in Nat
  BY DEF Counted
<1>3. LeftOpen(q)' \in Nat
  BY DEF Counted
<1> QED BY <1>1, <1>2, <1>3 DEF Unanchored

LEMMA LeftOpenKept ==
    ASSUME Counted, NEW q \in Proc, LeftOpen(q)' = LeftOpen(q)
    PROVE  LeftOpen(q)' <= LeftOpen(q)
BY DEF Counted

LEMMA ClosedIsHead ==
    ASSUME IInv, NEW p \in Proc, MayAnchorOnClose(p)
    PROVE  db # <<>> /\ last[p] = HeadOf(db) /\ txn[p] = <<>>
<1>1. last[p] # Genesis /\ HeadOf(View(p)) = last[p]
  BY DEF MayAnchorOnClose
<1>2. View(p) # <<>>
  BY <1>1 DEF HeadOf
<1> QED BY <1>1, <1>2, HashOfDb DEF IInv, LastInv, DistinctInv

LEMMA AnchoringKept ==
    ASSUME TypeOK,
           \/ pc' = pc
           \/ \E p \in Proc : \E v : pc' = [pc EXCEPT ![p] = v] /\ v # "anchoring"
                                     /\ pc[p] # "anchoring"
    PROVE  Anchoring' = Anchoring
BY DEF TypeOK, Anchoring

\* What pays for the unanchored rows only grows, except that an anchoring in
\* progress may end.
LEMMA PaidGrows ==
    ASSUME TypeOK, Counted, Counted', [Next]_vars
    PROVE  /\ Faulty' >= Faulty
           /\ \/ Paid' = Paid + (AnchorEvery - 1) /\ \E p \in Proc : Open(p)
              \/ Paid' = Paid
<1>1. AnchorEvery - 1 \in Nat /\ faults["opens"] \in Nat
  BY AnchorEveryAssumption DEF Counted
<1>2. (faults["opens"] + 1) * (AnchorEvery - 1)
        = faults["opens"] * (AnchorEvery - 1) + (AnchorEvery - 1)
  BY <1>1, Monotone
<1> QED BY <1>2, CountersStep DEF Paid

\* Steps that move no row, no anchor and no counter.
LEMMA BoundCalm ==
    ASSUME TypeOK, Counted, Counted', [Next]_vars, NEW q \in Proc, Bound(q),
           UNCHANGED <<db, txn, anchor, since>>, Paid' = Paid,
           \/ pc' = pc
           \/ \E p \in Proc, v \in {"idle", "record", "close", "hashed"} :
                 /\ pc' = [pc EXCEPT ![p] = v]
                 /\ pc[p] \notin {"closed", "inserted", "anchoring"}
    PROVE  Bound(q)'
<1>1. Credit' = Credit /\ Anchoring' = Anchoring
  BY CreditKept, AnchoringKept
<1>2. LeftOpen(q)' = LeftOpen(q)
  BY DEF LeftOpen, InFlight, TypeOK
<1>3. Unanchored(q)' <= Unanchored(q)
  BY <1>2, LeftOpenKept, UnanchoredKept
<1>4. Faulty' >= Faulty
  BY PaidGrows
<1>5. Ints(q) /\ Ints(q)'
  BY IntsAre
<1> QED BY <1>1, <1>3, <1>4, <1>5 DEF Bound, Ints

LEMMA BoundOpen ==
    ASSUME TypeOK, Counted, Counted', [Next]_vars, NEW q \in Proc, Bound(q),
           NEW p \in Proc, Open(p)
    PROVE  Bound(q)'
<1>1. pc' = [pc EXCEPT ![p] = "idle"] /\ pc[p] = "closed"
      /\ UNCHANGED <<db, txn, anchor>>
      /\ faults' = [faults EXCEPT !["opens"] = @ + 1]
  BY DEF Open, logVars
<1>2. Cardinality(Credit') <= Cardinality(Credit) + (AnchorEvery - 1)
  BY CreditOpens
<1>3. Anchoring' = Anchoring
  BY <1>1, AnchoringKept
<1>4. LeftOpen(q)' = LeftOpen(q)
  BY <1>1 DEF LeftOpen, InFlight, TypeOK
<1>5. Unanchored(q)' <= Unanchored(q)
  BY <1>1, <1>4, LeftOpenKept, UnanchoredKept
<1>6. Faulty' >= Faulty /\ Paid' = Paid + (AnchorEvery - 1)
  <2>1. faults["opens"]' = faults["opens"] + 1
    BY <1>1, FaultNames DEF TypeOK
  <2>2. AnchorEvery - 1 \in Nat /\ faults["opens"] \in Nat
    BY AnchorEveryAssumption DEF Counted
  <2> QED BY <2>1, <2>2, PaidGrows, Monotone DEF Paid
<1>7. AnchorEvery \in Nat /\ AnchorEvery - 1 \in Nat
  BY AnchorEveryAssumption
<1>8. Ints(q) /\ Ints(q)'
  BY IntsAre
<1> QED BY <1>2, <1>3, <1>5, <1>6, <1>7, <1>8 DEF Bound, Ints

\* Every action but Open opens no handle.
LEMMA PaidKept ==
    ASSUME TypeOK, Counted, Counted', [Next]_vars, NEW p \in Proc,
           pc[p] # "closed", \E v : pc' = [pc EXCEPT ![p] = v]
    PROVE  Paid' = Paid
<1>1. ASSUME NEW x \in Proc, Open(x) PROVE FALSE
  <2>1. pc[x] = "closed" /\ pc' = [pc EXCEPT ![x] = "idle"]
    BY <1>1 DEF Open
  <2> QED BY <2>1 DEF TypeOK
<1> QED BY <1>1, PaidGrows

LEMMA BoundInsert ==
    ASSUME TypeOK, LockInv, Counted, Counted', [Next]_vars, NEW q \in Proc,
           Bound(q), NEW p \in Proc, Insert(p)
    PROVE  Bound(q)'
<1> DEFINE r == [prev |-> prev[p], hash |-> drawn + 1]
<1>1. /\ txn' = [txn EXCEPT ![p] = Append(txn[p], r)] /\ pc[p] = "hashed"
      /\ pc' = [pc EXCEPT ![p] = "inserted"]
      /\ UNCHANGED <<db, anchor, since, faults>>
  BY DEF Insert
<1> HIDE DEF r
<1>2. Credit' = Credit /\ Anchoring' = Anchoring
  BY <1>1, CreditKept, AnchoringKept
<1>3. LeftOpen(q)' = LeftOpen(q)
  <2>1. CASE q = p
    <3>1. Len(txn'[q]) = Len(txn[q]) + 1 /\ Len(txn[q]) \in Nat
      BY <1>1, <2>1 DEF TypeOK
    <3>2. pc'[q] = "inserted" /\ pc[q] = "hashed"
      BY <1>1, <2>1 DEF TypeOK
    <3>3. InFlight(q) = 0 /\ InFlight(q)' = 1
      BY <3>2 DEF InFlight
    <3> QED BY <3>1, <3>3 DEF LeftOpen
  <2>2. CASE q # p
    <3>1. txn'[q] = txn[q] /\ pc'[q] = pc[q]
      BY <1>1, <2>2 DEF TypeOK
    <3> QED BY <3>1 DEF LeftOpen, InFlight
  <2> QED BY <2>1, <2>2
<1>4. Unanchored(q)' <= Unanchored(q)
  BY <1>1, <1>3, LeftOpenKept, UnanchoredKept
<1>5. Faulty' = Faulty /\ Paid' = Paid
  BY <1>1 DEF Faulty, Paid
<1>6. Ints(q) /\ Ints(q)'
  BY IntsAre
<1> QED BY <1>2, <1>4, <1>5, <1>6 DEF Bound, Ints

\* A committed row is paid for by the credit, or by the anchoring that starts.
LEMMA BoundCommit ==
    ASSUME IInv, Counted, Counted', [Next]_vars, NEW q \in Proc,
           NEW p \in Proc, Bound(p), Commit(p)
    PROVE  Bound(q)'
<1> TypeOK /\ LockInv /\ TxnInv
  BY DEF IInv
<1>1. /\ pc[p] = "inserted" /\ db' = View(p) /\ txn' = [txn EXCEPT ![p] = <<>>]
      /\ since' = [since EXCEPT ![p] = since[p] + 1] /\ UNCHANGED faults
  BY DEF Commit
<1>2. AnchorPos' = AnchorPos /\ Faulty' = Faulty /\ Paid' = Paid
  BY <1>1, CommitKeepsMark DEF Faulty, Paid
<1>3. LeftOpen(q)' = 0
  <2>1. txn'[q] = <<>>
    BY <1>1 DEF TxnInv, TypeOK
  <2>2. pc'[q] # "inserted"
    <3>1. \E v \in {"idle", "anchoring"} : pc' = [pc EXCEPT ![p] = v]
      BY DEF Commit, Release
    <3> QED BY <1>1, <3>1 DEF LockInv, TypeOK
  <2> QED BY <2>1, <2>2 DEF LeftOpen, InFlight
<1>4. Len(db') = Len(db) + LeftOpen(p) + 1
  <2>0. db \in Seq(Row) /\ txn[p] \in Seq(Row) /\ db' = db \o txn[p]
    BY <1>1 DEF View, TypeOK
  <2>1. Len(db') = Len(db) + Len(txn[p]) /\ Len(txn[p]) \in Nat /\ Len(db) \in Nat
    BY <2>0, ConcatRows
  <2> QED BY <1>1, <2>1 DEF LeftOpen, InFlight
<1>5. Cardinality(Credit') - Cardinality(Anchoring') <=
         Cardinality(Credit) - Cardinality(Anchoring) - 1
  <2>1. CASE ~AnchorDue(p)
    <3>1. pc' = [pc EXCEPT ![p] = "idle"]
      BY <2>1 DEF Commit, Release
    <3>2. Anchoring' = Anchoring
      BY <1>1, <3>1, AnchoringKept
    <3>3. Cardinality(Credit') <= Cardinality(Credit) - 1
      BY <2>1, CreditSpent
    <3> QED BY <3>2, <3>3, IntsAre DEF Ints
  <2>2. CASE AnchorDue(p)
    <3>1. pc' = [pc EXCEPT ![p] = "anchoring"]
      BY <2>2 DEF Commit
    <3>2. Cardinality(Anchoring) = 0
      <4>1. \A x \in Proc : pc[x] # "anchoring"
        BY <1>1 DEF LockInv
      <4> QED BY <4>1 DEF Counted
    <3>3. Cardinality(Anchoring') = 1
      <4>1. pc'[p] = "anchoring"
        BY <3>1 DEF TypeOK
      <4> QED BY <4>1 DEF Counted
    <3>4. Credit' \subseteq Credit
      <4>1. OpenHandles' = OpenHandles /\ OpenHandles \subseteq Proc
        BY <1>1, <3>1 DEF TypeOK, OpenHandles
      <4>2. \A x \in Proc : since[x] \in Nat
                            /\ since'[x] \in {since[x], since[x] + 1}
        BY <1>1 DEF TypeOK
      <4>3. \A x \in Proc, n \in Int : since'[x] < n => since[x] < n
        BY <4>2
      <4> QED BY <4>1, <4>3 DEF Credit
    <3>5. Cardinality(Credit') <= Cardinality(Credit)
      BY <3>4, CreditShrinks
    <3> QED BY <3>2, <3>3, <3>5 DEF Counted
  <2> QED BY <2>1, <2>2
<1>6. Unanchored(q)' = Unanchored(p) + 1
  <2>1. LeftOpen(p) \in Nat /\ AnchorPos \in Nat /\ Len(db) \in Nat
    BY DEF Counted
  <2> QED BY <1>2, <1>3, <1>4, <2>1 DEF Unanchored
<1>7. Ints(p) /\ Ints(q)'
  BY IntsAre
<1> QED BY <1>2, <1>5, <1>6, <1>7 DEF Bound, Ints

LEMMA BoundCommitFails ==
    ASSUME TypeOK, LockInv, Counted, Counted', [Next]_vars, NEW q \in Proc,
           Bound(q), NEW p \in Proc, CommitFails(p)
    PROVE  Bound(q)'
<1>1. /\ pc[p] = "inserted" /\ pc' = [pc EXCEPT ![p] = "idle"]
      /\ (txn' = txn \/ txn' = [txn EXCEPT ![p] = <<>>])
      /\ UNCHANGED <<db, anchor, since>>
      /\ faults' = [faults EXCEPT !["commits"] = @ + 1]
  BY DEF CommitFails, Release
<1>2. Credit' = Credit /\ Anchoring' = Anchoring
  BY <1>1, CreditKept, AnchoringKept
<1>3. AnchorPos' = AnchorPos /\ Len(db') = Len(db)
  BY <1>1 DEF AnchorPos
<1>6. Paid' = Paid
  BY <1>1, PaidKept
<1>4. Faulty' = Faulty + 1
  BY <1>1, FaultNames DEF TypeOK, Faulty
<1>5. LeftOpen(q)' <= LeftOpen(q) + 1
  <2>1. Len(txn'[q]) <= Len(txn[q]) /\ Len(txn'[q]) \in Nat /\ Len(txn[q]) \in Nat
    <3>1. txn'[q] = txn[q] \/ txn'[q] = <<>>
      BY <1>1 DEF TypeOK
    <3> QED BY <3>1 DEF TypeOK
  <2>2. InFlight(q) \in {0, 1} /\ InFlight(q)' \in {0, 1}
    BY DEF InFlight
  <2>3. LeftOpen(q) = Len(txn[q]) - InFlight(q)
        /\ LeftOpen(q)' = Len(txn'[q]) - InFlight(q)'
    BY DEF LeftOpen
  <2> QED BY <2>1, <2>2, <2>3
<1>7. Unanchored(q)' <= Unanchored(q) + 1
  <2>1. LeftOpen(q) \in Nat /\ AnchorPos \in Nat /\ Len(db) \in Nat
    BY DEF Counted
  <2>2. LeftOpen(q)' \in Nat
    BY DEF Counted
  <2> QED BY <1>3, <1>5, <2>1, <2>2 DEF Unanchored
<1>8. Ints(q) /\ Ints(q)'
  BY IntsAre
<1> QED BY <1>2, <1>4, <1>6, <1>7, <1>8 DEF Bound, Ints

\* Once the head is anchored only the credit and leftovers of failed commits
\* are counted.
LEMMA BoundAnchored ==
    ASSUME IInv, Counted, Counted', LeftOpenInv', [Next]_vars, NEW q \in Proc,
           db # <<>>, UNCHANGED db, anchor' = HeadOf(db)
    PROVE  Bound(q)'
<1>1. AnchorPos' = Len(db)
  BY AnchorCoversAll
<1>2. LeftOpen(q)' <= Faulty'
  <2>1. LeftOpen(q)' <= faults["commits"]'
    BY DEF LeftOpenInv
  <2>2. TypeOK'
    BY TypeStep DEF IInv
  <2>3. faults["commits"]' \in Nat /\ faults["crashes"]' \in Nat /\ faults["outages"]' \in Nat
    BY <2>2, FaultNames DEF TypeOK
  <2>4. LeftOpen(q)' \in Nat
    BY DEF Counted
  <2> QED BY <2>1, <2>3, <2>4 DEF Faulty
<1>3. Unanchored(q)' <= Faulty'
  <2>1. Len(db') = Len(db) /\ Len(db) \in Nat
    BY DEF Counted
  <2>2. LeftOpen(q)' \in Nat
    BY DEF Counted
  <2> QED BY <1>1, <1>2, <2>1, <2>2 DEF Unanchored
<1>4. Cardinality(Credit') <= Paid' /\ Cardinality(Anchoring') \in Nat
  BY DEF Counted
<1>5. Ints(q)'
  BY IntsAre
<1> QED BY <1>3, <1>4, <1>5 DEF Bound, Ints

LEMMA BoundAnchorFails ==
    ASSUME TypeOK, LockInv, Counted, Counted', [Next]_vars, NEW q \in Proc,
           Bound(q), NEW p \in Proc, AnchorFails(p)
    PROVE  Bound(q)'
<1>1. /\ pc[p] = "anchoring" /\ pc' = [pc EXCEPT ![p] = "idle"]
      /\ UNCHANGED <<db, txn, anchor, since>>
      /\ faults' = [faults EXCEPT !["outages"] = @ + 1]
  BY DEF AnchorFails, Release, logVars
<1>2. Credit' = Credit
  BY <1>1, CreditKept
<1>3. Paid' = Paid
  BY <1>1, PaidKept
<1>4. Faulty' = Faulty + 1
  BY <1>1, FaultNames DEF TypeOK, Faulty
<1>5. LeftOpen(q)' = LeftOpen(q)
  BY <1>1 DEF LeftOpen, InFlight, TypeOK
<1>6. Unanchored(q)' <= Unanchored(q)
  BY <1>1, <1>5, LeftOpenKept, UnanchoredKept
<1>7. Cardinality(Anchoring') \in {0, 1} /\ Cardinality(Anchoring) \in {0, 1}
  BY DEF Counted
<1>8. Ints(q) /\ Ints(q)'
  BY IntsAre
<1> QED BY <1>2, <1>3, <1>4, <1>6, <1>7, <1>8 DEF Bound, Ints

LEMMA BoundLeaves ==
    ASSUME TypeOK, LockInv, Counted, Counted', [Next]_vars, NEW q \in Proc,
           Bound(q), NEW p \in Proc, pc[p] # "closed",
           pc' = [pc EXCEPT ![p] = "closed"], since' = [since EXCEPT ![p] = 0],
           txn' = [txn EXCEPT ![p] = <<>>], UNCHANGED <<db, anchor>>,
           pc[p] = "close" \/ Faulty' = Faulty + 1
    PROVE  Bound(q)'
<1>1. Cardinality(Credit') <= Cardinality(Credit)
  BY CreditLeaves, CreditShrinks
<1>2. Paid' = Paid /\ Faulty' >= Faulty
  BY PaidKept, PaidGrows
<1>3. LeftOpen(q)' <= LeftOpen(q)
  <2>1. CASE q = p
    <3>1. txn'[q] = <<>> /\ pc'[q] = "closed"
      BY <2>1 DEF TypeOK
    <3>2. LeftOpen(q)' = 0
      BY <3>1 DEF LeftOpen, InFlight
    <3> QED BY <3>2 DEF Counted
  <2>2. CASE q # p
    <3>1. txn'[q] = txn[q] /\ pc'[q] = pc[q]
      BY <2>2 DEF TypeOK
    <3>2. LeftOpen(q)' = LeftOpen(q)
      BY <3>1 DEF LeftOpen, InFlight
    <3> QED BY <3>2 DEF Counted
  <2> QED BY <2>1, <2>2
<1>4. Unanchored(q)' <= Unanchored(q)
  BY <1>3, UnanchoredKept
<1>5. Ints(q) /\ Ints(q)'
  BY IntsAre
<1>6. CASE Faulty' = Faulty + 1
  <2>1. Cardinality(Anchoring') \in {0, 1} /\ Cardinality(Anchoring) \in {0, 1}
    BY DEF Counted
  <2> QED BY <1>1, <1>2, <1>4, <1>5, <1>6, <2>1 DEF Bound, Ints
<1>7. CASE pc[p] = "close"
  <2>1. Anchoring' = Anchoring
    BY <1>7, AnchoringKept
  <2> QED BY <1>1, <1>2, <1>4, <1>5, <2>1 DEF Bound, Ints
<1> QED BY <1>6, <1>7

LEMMA CreditStep ==
    /\ IInv /\ IInv' /\ HandlesInv /\ HandlesInv' /\ LeftOpenInv'
    /\ CreditInv /\ [Next]_vars
    => CreditInv'
<1> SUFFICES ASSUME IInv, IInv', HandlesInv, HandlesInv', LeftOpenInv',
                    CreditInv, [Next]_vars
             PROVE  CreditInv'
  OBVIOUS
<1>0. Counted /\ Counted' /\ TypeOK /\ LockInv /\ LeftOpenInv'
  <2>1. Counted /\ Counted'
    BY CountedHolds, PTL
  <2> QED BY <2>1 DEF IInv
<1>b. \A p \in Proc : Bound(p)
  BY DEF CreditInv, Bound, Paid, Unanchored
<1>1. ASSUME NEW q \in Proc PROVE Bound(q)'
  <2>1. ASSUME NEW p \in Proc, Open(p) PROVE Bound(q)'
    BY <1>0, <1>b, <2>1, BoundOpen
  <2>2. ASSUME NEW p \in Proc, Acquire(p) \/ ReadHead(p) \/ InsertBusy(p)
        PROVE  Bound(q)'
    <3>1. UNCHANGED <<db, txn, anchor, since, faults>>
          /\ \E v \in {"idle", "record", "close", "hashed"} :
                /\ pc' = [pc EXCEPT ![p] = v]
                /\ pc[p] \notin {"closed", "inserted", "anchoring"}
      BY <2>2 DEF Acquire, ReadHead, InsertBusy, Release, logVars
    <3>2. Paid' = Paid
      BY <3>1 DEF Paid
    <3> QED BY <1>0, <1>b, <3>1, <3>2, BoundCalm
  <2>3. ASSUME NEW p \in Proc, Insert(p) PROVE Bound(q)'
    BY <1>0, <1>b, <2>3, BoundInsert
  <2>4. ASSUME NEW p \in Proc, Commit(p) PROVE Bound(q)'
    BY <1>0, <1>b, <2>4, BoundCommit
  <2>5. ASSUME NEW p \in Proc, CommitFails(p) PROVE Bound(q)'
    BY <1>0, <1>b, <2>5, BoundCommitFails
  <2>6. ASSUME NEW p \in Proc, StoreAnchor(p) PROVE Bound(q)'
    <3>1. UNCHANGED db /\ db # <<>> /\ anchor' = HeadOf(db)
      BY <2>6 DEF StoreAnchor, IInv, LastInv
    <3> QED BY <1>0, <3>1, BoundAnchored
  <2>7. ASSUME NEW p \in Proc, AnchorFails(p) PROVE Bound(q)'
    BY <1>0, <1>b, <2>7, BoundAnchorFails
  <2>8. ASSUME NEW p \in Proc, Close(p) PROVE Bound(q)'
    <3>1. /\ pc[p] = "close" /\ pc' = [pc EXCEPT ![p] = "closed"]
          /\ txn' = [txn EXCEPT ![p] = <<>>] /\ since' = [since EXCEPT ![p] = 0]
          /\ UNCHANGED db
          /\ anchor' = anchor \/ (MayAnchorOnClose(p) /\ anchor' = last[p])
      BY <2>8 DEF Close, Release, Forget
    <3>2. CASE anchor' = anchor
      BY <1>0, <1>b, <3>1, <3>2, BoundLeaves
    <3>3. CASE MayAnchorOnClose(p) /\ anchor' = last[p]
      <4>1. db # <<>> /\ anchor' = HeadOf(db)
        BY <3>3, ClosedIsHead
      <4> QED BY <1>0, <3>1, <4>1, BoundAnchored
    <3> QED BY <3>1, <3>2, <3>3
  <2>9. ASSUME NEW p \in Proc, Crash(p) PROVE Bound(q)'
    <3>1. /\ pc[p] # "closed" /\ pc' = [pc EXCEPT ![p] = "closed"]
          /\ txn' = [txn EXCEPT ![p] = <<>>] /\ since' = [since EXCEPT ![p] = 0]
          /\ UNCHANGED <<db, anchor>>
          /\ faults' = [faults EXCEPT !["crashes"] = @ + 1]
      BY <2>9 DEF Crash, Forget
    <3>2. Faulty' = Faulty + 1
      BY <1>0, <3>1, FaultNames DEF TypeOK, Faulty
    <3> QED BY <1>0, <1>b, <3>1, <3>2, BoundLeaves
  <2>10. ASSUME NEW p \in Proc, VerifyRead(p) \/ VerifyJudge(p)
         PROVE  Bound(q)'
    <3>1. UNCHANGED <<db, txn, anchor, since, pc>>
      BY <2>10 DEF VerifyRead, VerifyJudge, logVars, procVars
    <3>2. Paid' = Paid
      <4>1. \/ faults' = faults
            \/ faults' = [faults EXCEPT !["outages"] = @ + 1]
        BY <2>10 DEF VerifyRead, VerifyJudge
      <4> QED BY <1>0, <4>1, FaultNames DEF TypeOK, Paid
    <3> QED BY <1>0, <1>b, <3>1, <3>2, BoundCalm
  <2>11. CASE UNCHANGED vars
    <3>1. UNCHANGED <<db, txn, anchor, since, pc>> /\ Paid' = Paid
      BY <2>11 DEF vars, logVars, procVars, Paid
    <3> QED BY <1>0, <1>b, <3>1, BoundCalm
  <2> QED BY <2>1, <2>2, <2>3, <2>4, <2>5, <2>6, <2>7, <2>8, <2>9, <2>10,
             <2>11 DEF Next
<1>2. Proc = {} => db' = <<>>
  <2>1. Proc = {} => UNCHANGED vars
    BY DEF Next
  <2> QED BY <2>1 DEF vars, logVars, CreditInv
<1> QED BY <1>1, <1>2 DEF CreditInv, Bound, Paid, Unanchored

-----------------------------------------------------------------------------
(* The head is anchored, or its writer is still open.                      *)

\* Without a fault, the writer of the head is open or the head is anchored.
LEMMA HeadStep ==
    IInv /\ LeftOpenInv /\ HeadInv /\ [Next]_vars => HeadInv'
<1> SUFFICES ASSUME IInv, LeftOpenInv, HeadInv, [Next]_vars, Faulty' = 0
             PROVE  (anchor = HeadOf(db))' \/ (\E p \in OpenHandles : last[p] = HeadOf(db))'
  BY DEF HeadInv
<1> DEFINE Covered == anchor = HeadOf(db) \/ \E p \in OpenHandles : last[p] = HeadOf(db)
<1>0. TypeOK /\ LockInv /\ TxnInv /\ AnchorCommitted
  BY DEF IInv
<1>1. Faulty = 0 /\ faults["commits"] = 0 /\ faults["crashes"] = 0 /\ faults["outages"] = 0
  <2>1. TypeOK'
    BY <1>0, TypeStep
  <2>2. faults["commits"]' \in Nat /\ faults["crashes"]' \in Nat /\ faults["outages"]' \in Nat
    BY <2>1, FaultNames DEF TypeOK
  <2>3. faults["commits"]' = 0 /\ faults["crashes"]' = 0 /\ faults["outages"]' = 0
    BY <2>2 DEF Faulty
  <2>4. faults["commits"] \in Nat /\ faults["crashes"] \in Nat /\ faults["outages"] \in Nat
    BY <1>0, FaultNames DEF TypeOK
  <2>5. /\ faults["commits"]' >= faults["commits"]
        /\ faults["crashes"]' >= faults["crashes"]
        /\ faults["outages"]' >= faults["outages"]
    BY <1>0, CountersStep
  <2> QED BY <2>3, <2>4, <2>5 DEF Faulty
<1>2. Covered
  BY <1>1 DEF HeadInv
<1>3. ASSUME UNCHANGED <<db, anchor>>,
             \A p \in OpenHandles : p \in OpenHandles' /\ last'[p] = last[p]
      PROVE  Covered'
  BY <1>2, <1>3
<1>4. ASSUME NEW p \in Proc, Open(p) PROVE Covered'
  <2>1. /\ pc[p] = "closed" /\ pc' = [pc EXCEPT ![p] = "idle"]
        /\ last' = [last EXCEPT ![p] = Genesis] /\ UNCHANGED <<db, anchor>>
    BY <1>4 DEF Open, Forget, logVars
  <2>2. \A x \in OpenHandles : x \in OpenHandles' /\ last'[x] = last[x]
    BY <1>0, <2>1 DEF TypeOK, OpenHandles
  <2> QED BY <1>3, <2>1, <2>2
<1>5. ASSUME NEW p \in Proc,
             Acquire(p) \/ ReadHead(p) \/ Insert(p) \/ InsertBusy(p)
             \/ CommitFails(p) \/ AnchorFails(p)
      PROVE  Covered'
  <2>1. /\ UNCHANGED <<db, anchor, last>>
        /\ \E v : pc' = [pc EXCEPT ![p] = v] /\ v # "closed"
    BY <1>5 DEF Acquire, ReadHead, Insert, InsertBusy, CommitFails, AnchorFails,
                Release, logVars
  <2>2. \A x \in OpenHandles : x \in OpenHandles'
    BY <1>0, <2>1 DEF TypeOK, OpenHandles
  <2> QED BY <1>3, <2>1, <2>2
<1>6. ASSUME NEW p \in Proc, Commit(p) PROVE Covered'
  <2>1. /\ db' = View(p) /\ last' = [last EXCEPT ![p] = HeadOf(View(p))]
        /\ \E v \in {"idle", "anchoring"} : pc' = [pc EXCEPT ![p] = v]
    BY <1>6 DEF Commit, Release
  <2>2. p \in OpenHandles' /\ last'[p] = HeadOf(db')
    BY <1>0, <2>1 DEF TypeOK, OpenHandles
  <2> QED BY <2>2
<1>7. ASSUME NEW p \in Proc, StoreAnchor(p) PROVE Covered'
  BY <1>7 DEF StoreAnchor, IInv, LastInv
<1>8. ASSUME NEW p \in Proc, Close(p) PROVE Covered'
  <2>1. /\ pc[p] = "close" /\ pc' = [pc EXCEPT ![p] = "closed"]
        /\ last' = [last EXCEPT ![p] = Genesis] /\ db' = db
    BY <1>8 DEF Close, Release, Forget
  <2>2. anchor' = IF MayAnchorOnClose(p) THEN last[p] ELSE anchor
    <3>1. ASSUME faults' = [faults EXCEPT !["outages"] = @ + 1] PROVE FALSE
      <4>1. faults["outages"]' = 1
        BY <1>0, <1>1, <3>1, FaultNames DEF TypeOK
      <4>2. TypeOK'
        BY <1>0, TypeStep
      <4>3. faults["commits"]' \in Nat /\ faults["crashes"]' \in Nat
        BY <4>2, FaultNames DEF TypeOK
      <4> QED BY <4>1, <4>3 DEF Faulty
    <3> QED BY <1>8, <3>1 DEF Close
  <2>3. CASE MayAnchorOnClose(p)
    <3>1. last[p] = HeadOf(db)
      BY <2>3, ClosedIsHead
    <3> QED BY <2>1, <2>2, <2>3, <3>1
  <2>4. CASE ~MayAnchorOnClose(p)
    <3>1. CASE anchor = HeadOf(db)
      BY <2>1, <2>2, <2>4, <3>1
    <3>2. ASSUME NEW x \in OpenHandles, last[x] = HeadOf(db), x # p
          PROVE  Covered'
      <4>1. x \in OpenHandles' /\ last'[x] = HeadOf(db')
        BY <1>0, <2>1, <3>2 DEF TypeOK, OpenHandles
      <4> QED BY <4>1
    <3>3. CASE last[p] = HeadOf(db)
      <4>1. txn[p] = <<>>
        <5>1. LeftOpen(p) <= 0
          BY <1>1 DEF LeftOpenInv
        <5>2. InFlight(p) = 0
          BY <2>1 DEF InFlight
        <5>3. txn[p] \in Seq(Row)
          BY <1>0 DEF TypeOK
        <5> QED BY <5>1, <5>2, <5>3 DEF LeftOpen
      <4>2. View(p) = db
        BY <1>0, <4>1, IdleView
      <4>3. last[p] = Genesis
        BY <2>4, <3>3, <4>2 DEF MayAnchorOnClose
      <4>4. anchor = Genesis
        <5>1. CASE db = <<>>
          BY <1>0, <5>1 DEF AnchorCommitted, Hashes
        <5>2. CASE db # <<>>
          <6>1. HeadOf(db) \in Hashes(db) /\ db \in Seq(Row)
            BY <1>0, <5>2, HeadIsARow DEF TypeOK
          <6>2. Distinct(db)
            BY DbLinear DEF IInv
          <6>3. HeadOf(db) # Genesis
            <7>1. PICK i \in 1..Len(db) : db[i].hash = HeadOf(db)
              BY <6>1 DEF Hashes
            <7>2. db[i].hash \in 1..drawn
              BY <6>2 DEF Distinct
            <7> QED BY <7>1, <7>2 DEF Genesis
          <6> QED BY <3>3, <4>3, <6>3
        <5> QED BY <5>1, <5>2
      <4> QED BY <2>1, <2>2, <2>4, <3>3, <4>3, <4>4
    <3> QED BY <1>2, <3>1, <3>2, <3>3
  <2> QED BY <2>3, <2>4
<1>9. ASSUME NEW p \in Proc, Crash(p) PROVE FALSE
  <2>1. faults' = [faults EXCEPT !["crashes"] = @ + 1]
    BY <1>9 DEF Crash
  <2>2. faults["crashes"]' = 1
    BY <1>0, <1>1, <2>1, FaultNames DEF TypeOK
  <2>3. TypeOK'
    BY <1>0, TypeStep
  <2>4. faults["commits"]' \in Nat /\ faults["outages"]' \in Nat
    BY <2>3, FaultNames DEF TypeOK
  <2> QED BY <2>2, <2>4 DEF Faulty
<1>10. ASSUME NEW p \in Proc, VerifyRead(p) \/ VerifyJudge(p) PROVE Covered'
  <2>1. UNCHANGED <<db, anchor, pc, last>>
    BY <1>10 DEF VerifyRead, VerifyJudge, logVars, procVars
  <2> QED BY <1>3, <2>1 DEF OpenHandles
<1>11. CASE UNCHANGED vars
  <2>1. UNCHANGED <<db, anchor, pc, last>>
    BY <1>11 DEF vars, logVars, procVars
  <2> QED BY <1>3, <2>1 DEF OpenHandles
<1> QED BY <1>4, <1>5, <1>6, <1>7, <1>8, <1>9, <1>10, <1>11 DEF Next

\* What pays for the unanchored rows, at every moment of every run.
THEOREM TailInvariant == Spec => []TailInv
<1>1. Init => TailInv
  <2> SUFFICES ASSUME Init PROVE TailInv
    OBVIOUS
  <2>1. OpenHandles = {} /\ Credit = {} /\ Anchoring = {}
    BY DEF Init, OpenHandles, Credit, Anchoring
  <2>2. \A f \in Fault : faults[f] = 0
    BY DEF Init
  <2>3. faults["opens"] = 0 /\ faults["commits"] = 0 /\ faults["crashes"] = 0
        /\ faults["outages"] = 0
    BY <2>2, FaultNames
  <2>4. \A p \in Proc : LeftOpen(p) = 0 /\ pc[p] # "anchoring"
    BY DEF Init, LeftOpen, InFlight
  <2>5. HandlesInv
    BY <2>1, <2>3, FS_EmptySet DEF HandlesInv
  <2>6. LeftOpenInv
    BY <2>3, <2>4 DEF LeftOpenInv
  <2>7. CreditInv
    <3>1. db = <<>> /\ AnchorPos = 0
      BY DEF Init, AnchorPos
    <3>2. 0 * (AnchorEvery - 1) = 0
      BY AnchorEveryAssumption
    <3> QED BY <2>1, <2>3, <2>4, <3>1, <3>2, FS_EmptySet DEF CreditInv, Faulty
  <2>8. HeadInv
    BY DEF Init, HeadInv, HeadOf
  <2> QED BY <2>5, <2>6, <2>7, <2>8 DEF TailInv
<1>2. IInv /\ IInv' /\ TailInv /\ [Next]_vars => TailInv'
  <2> SUFFICES ASSUME IInv, IInv', TailInv, [Next]_vars PROVE TailInv'
    OBVIOUS
  <2>1. TypeOK /\ LockInv /\ TxnInv /\ HandlesInv /\ LeftOpenInv /\ CreditInv
        /\ HeadInv
    BY DEF IInv, TailInv
  <2>2. HandlesInv' /\ LeftOpenInv'
    BY <2>1, HandlesStep, LeftOpenStep
  <2>3. CreditInv' /\ HeadInv'
    BY <2>1, <2>2, CreditStep, HeadStep
  <2> QED BY <2>2, <2>3 DEF TailInv
<1> QED BY <1>1, <1>2, InductiveInvariant, PTL DEF Spec

\* The unanchored tail is bounded by the handles opened and the faults, and a
\* log that was closed without a fault is anchored at its head.
THEOREM TailIsBounded == Spec => []UnanchoredTail
<1>1. IInv /\ TailInv => UnanchoredTail
  <2> SUFFICES ASSUME IInv, TailInv PROVE UnanchoredTail
    OBVIOUS
  <2>1. Counted /\ AnchorCommitted
    BY CountedHolds DEF TailInv, IInv
  <2>2. Len(db) - AnchorPos <= Paid + Faulty + Cardinality(Anchoring)
    <3>1. CASE Proc = {}
      <4>1. db = <<>>
        BY <3>1 DEF TailInv, CreditInv
      <4>2. AnchorPos = 0
        BY <2>1, <4>1 DEF AnchorPos, AnchorCommitted, Hashes
      <4> QED BY <2>1, <4>1, <4>2 DEF Counted
    <3>2. ASSUME NEW p \in Proc
          PROVE  Len(db) - AnchorPos <= Paid + Faulty + Cardinality(Anchoring)
      <4>1. Unanchored(p) + Cardinality(Credit) <= Paid + Faulty + Cardinality(Anchoring)
        BY DEF TailInv, CreditInv, Unanchored, Paid
      <4>2. Len(db) - AnchorPos <= Unanchored(p) /\ Unanchored(p) \in Int
            /\ Len(db) - AnchorPos \in Int
        BY <2>1 DEF Counted, Unanchored
      <4>3. /\ Cardinality(Credit) \in Nat /\ Paid \in Nat /\ Faulty \in Nat
            /\ Cardinality(Anchoring) \in Nat
        BY <2>1 DEF Counted
      <4> QED BY <4>1, <4>2, <4>3
    <3> QED BY <3>1, <3>2
  <2>3. (\A p \in Proc : pc[p] = "closed") /\ Faulty = 0 => anchor = HeadOf(db)
    BY DEF TailInv, HeadInv, OpenHandles
  <2> QED BY <2>1, <2>2, <2>3 DEF UnanchoredTail, Paid
<1> QED BY <1>1, TailInvariant, InductiveInvariant, PTL
=============================================================================
