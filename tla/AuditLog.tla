----------------------------- MODULE AuditLog -----------------------------
(***************************************************************************)
(* The encrypted audit log (audit/log.py): several processes, each with    *)
(* its own AuditLog handle, append hash-chained rows to one SQLite         *)
(* database and keep the hash of the head in the OS keychain.              *)
(*                                                                         *)
(* An append holds the exclusive lock of audit/_oslock.py from the read of *)
(* the head to the anchor; each point at which the process can die, the    *)
(* database or the keychain refuse, or another process read, is a step.    *)
(* verify() takes no cross-process lock: it reads the rows, and then the   *)
(* anchor.                                                                 *)
(*                                                                         *)
(* A row is its two hashes: row_hash is a fresh number (SHA-256 over a     *)
(* content that includes the previous hash never repeats).                 *)
(***************************************************************************)
EXTENDS HashChain, FiniteSets

CONSTANTS Proc,               \* the processes (AuditLog handles)
          Nobody,             \* no process
          AnchorEvery,        \* anchor_every
          MaxRows,            \* bound: rows ever hashed
          MaxOpens,           \* bound: handles ever opened
          MaxCrashes,         \* bound: processes killed
          MaxOutages,         \* bound: keychain calls that fail
          MaxCommitFailures   \* bound: commits that raise

ASSUME ProcAssumption == Nobody \notin Proc
ASSUME AnchorEveryAssumption == AnchorEvery \in Nat \ {0}

VARIABLES db,       \* committed rows of audit_events, oldest first
          txn,      \* txn[p]: rows p has inserted and not committed
          anchor,   \* the keychain's head anchor; Genesis stands for none
          xlock,    \* who holds <db>.lock
          pc,       \* where the thread of p that holds p's _lock is
          prev,     \* prev[p]: the head that record() of p hashes over
          last,     \* last[p]: _last_written; Genesis stands for none
          since,    \* since[p]: _since_anchor
          vpc,      \* whether a verify() of p is between its two reads
          snap,     \* snap[p]: the rows that verify() read
          verdict,  \* verdict[p]: its result
          drawn,    \* hashes drawn so far
          faults    \* how often each fault happened, and handles were opened

logVars == <<db, txn, anchor>>
procVars == <<xlock, pc, prev, last, since>>
verifyVars == <<vpc, snap, verdict>>
vars == <<logVars, procVars, verifyVars, drawn, faults>>

\* What a SELECT on p's connection sees: its own open transaction included.
View(p) == db \o txn[p]

Fault == {"opens", "crashes", "outages", "commits"}

Init == /\ db = <<>>
        /\ txn = [p \in Proc |-> <<>>]
        /\ anchor = Genesis
        /\ xlock = Nobody
        /\ pc = [p \in Proc |-> "closed"]
        /\ prev = [p \in Proc |-> Genesis]
        /\ last = [p \in Proc |-> Genesis]
        /\ since = [p \in Proc |-> 0]
        /\ vpc = [p \in Proc |-> "idle"]
        /\ snap = [p \in Proc |-> <<>>]
        /\ verdict = [p \in Proc |-> "none"]
        /\ drawn = 0
        /\ faults = [f \in Fault |-> 0]

Release(p, state) ==
    /\ xlock' = Nobody
    /\ pc' = [pc EXCEPT ![p] = state]
    /\ prev' = [prev EXCEPT ![p] = Genesis]

\* The handle's fields go with it.
Forget(p) ==
    /\ last' = [last EXCEPT ![p] = Genesis]
    /\ since' = [since EXCEPT ![p] = 0]

\* AuditLog.__init__: nothing of this handle is written or counted yet.
Open(p) ==
    /\ pc[p] = "closed" /\ vpc[p] = "idle"
    /\ faults["opens"] < MaxOpens
    /\ pc' = [pc EXCEPT ![p] = "idle"]
    /\ Forget(p)
    /\ faults' = [faults EXCEPT !["opens"] = @ + 1]
    /\ UNCHANGED <<logVars, xlock, prev, verifyVars, drawn>>

\* Seeded fault: the thread lock alone.
LockFree_ThreadOnly == TRUE

LockFree == xlock = Nobody

\* `with self._lock, self._xlock`, entered by record() or by close().
Acquire(p) ==
    /\ pc[p] = "idle" /\ LockFree
    /\ xlock' = p
    /\ \E op \in {"record", "close"} : pc' = [pc EXCEPT ![p] = op]
    /\ UNCHANGED <<logVars, prev, last, since, verifyVars, drawn, faults>>

\* record(): read the head that the new row will name ...
ReadHead(p) ==
    /\ pc[p] = "record"
    /\ prev' = [prev EXCEPT ![p] = HeadOf(View(p))]
    /\ pc' = [pc EXCEPT ![p] = "hashed"]
    /\ UNCHANGED <<logVars, xlock, last, since, verifyVars, drawn, faults>>

\* Seeded fault: the anchor is stored before the commit.
Insert_AnchorsFirst(p) ==
    /\ pc[p] = "hashed"
    /\ \A q \in Proc \ {p} : txn[q] = <<>>
    /\ drawn < MaxRows
    /\ drawn' = drawn + 1
    /\ txn' = [txn EXCEPT ![p] =
                 Append(@, [prev |-> prev[p], hash |-> drawn + 1])]
    /\ anchor' = drawn + 1
    /\ pc' = [pc EXCEPT ![p] = "inserted"]
    /\ prev' = [prev EXCEPT ![p] = Genesis]
    /\ UNCHANGED <<db, xlock, last, since, verifyVars, faults>>

\* ... INSERT it: SQLite gives the write transaction to one connection ...
Insert(p) ==
    /\ pc[p] = "hashed"
    /\ \A q \in Proc \ {p} : txn[q] = <<>>
    /\ drawn < MaxRows
    /\ drawn' = drawn + 1
    /\ txn' = [txn EXCEPT ![p] =
                 Append(@, [prev |-> prev[p], hash |-> drawn + 1])]
    /\ pc' = [pc EXCEPT ![p] = "inserted"]
    /\ prev' = [prev EXCEPT ![p] = Genesis]
    /\ UNCHANGED <<db, anchor, xlock, last, since, verifyVars, faults>>

\* ... or "database is locked": record() raises and nothing is written.
InsertBusy(p) ==
    /\ pc[p] = "hashed"
    /\ \E q \in Proc \ {p} : txn[q] # <<>>
    /\ Release(p, "idle")
    /\ UNCHANGED <<logVars, last, since, verifyVars, drawn, faults>>

\* Seeded fault: one row late.
AnchorDue_Late(p) == since[p] + 1 > AnchorEvery

AnchorDue(p) == since[p] + 1 >= AnchorEvery

\* commit() makes every inserted row durable; only then is the row counted.
Commit(p) ==
    /\ pc[p] = "inserted"
    /\ db' = View(p)
    /\ txn' = [txn EXCEPT ![p] = <<>>]
    /\ last' = [last EXCEPT ![p] = HeadOf(View(p))]
    /\ since' = [since EXCEPT ![p] = @ + 1]
    /\ IF AnchorDue(p)
       THEN pc' = [pc EXCEPT ![p] = "anchoring"] /\ UNCHANGED <<xlock, prev>>
       ELSE Release(p, "idle")
    /\ UNCHANGED <<anchor, verifyVars, drawn, faults>>

\* commit() raises out of record(): SQLite keeps the transaction open (busy)
\* or has rolled it back (disk full).
CommitFails(p) ==
    /\ pc[p] = "inserted"
    /\ faults["commits"] < MaxCommitFailures
    /\ faults' = [faults EXCEPT !["commits"] = @ + 1]
    /\ \/ UNCHANGED txn
       \/ txn' = [txn EXCEPT ![p] = <<>>]
    /\ Release(p, "idle")
    /\ UNCHANGED <<db, anchor, last, since, verifyVars, drawn>>

\* store_head_anchor(rh) succeeds, or fails and leaves the counter running.
StoreAnchor(p) ==
    /\ pc[p] = "anchoring"
    /\ anchor' = last[p]
    /\ since' = [since EXCEPT ![p] = 0]
    /\ Release(p, "idle")
    /\ UNCHANGED <<db, txn, last, verifyVars, drawn, faults>>

AnchorFails(p) ==
    /\ pc[p] = "anchoring"
    /\ faults["outages"] < MaxOutages
    /\ faults' = [faults EXCEPT !["outages"] = @ + 1]
    /\ Release(p, "idle")
    /\ UNCHANGED <<logVars, last, since, verifyVars, drawn>>

\* Seeded faults: close() anchors whatever this handle wrote last, or only a
\* full batch.
MayAnchorOnClose_AnyRow(p) == last[p] # Genesis
MayAnchorOnClose_FullBatch(p) ==
    last[p] # Genesis /\ HeadOf(View(p)) = last[p] /\ since[p] >= AnchorEvery

\* close() anchors the row this handle wrote, if it is still the head.
MayAnchorOnClose(p) == last[p] # Genesis /\ HeadOf(View(p)) = last[p]

Close(p) ==
    /\ pc[p] = "close"
    /\ \/ /\ anchor' = IF MayAnchorOnClose(p) THEN last[p] ELSE anchor
          /\ UNCHANGED faults
       \/ /\ MayAnchorOnClose(p) /\ faults["outages"] < MaxOutages
          /\ faults' = [faults EXCEPT !["outages"] = @ + 1]
          /\ UNCHANGED anchor
    /\ txn' = [txn EXCEPT ![p] = <<>>]
    /\ Release(p, "closed")
    /\ Forget(p)
    /\ UNCHANGED <<db, verifyVars, drawn>>

\* The process dies: its transaction is rolled back, the OS drops its lock.
Crash(p) ==
    /\ pc[p] # "closed"
    /\ faults["crashes"] < MaxCrashes
    /\ faults' = [faults EXCEPT !["crashes"] = @ + 1]
    /\ pc' = [pc EXCEPT ![p] = "closed"]
    /\ xlock' = IF xlock = p THEN Nobody ELSE xlock
    /\ txn' = [txn EXCEPT ![p] = <<>>]
    /\ vpc' = [vpc EXCEPT ![p] = "idle"]
    /\ snap' = [snap EXCEPT ![p] = <<>>]
    /\ verdict' = [verdict EXCEPT ![p] = "none"]
    /\ prev' = [prev EXCEPT ![p] = Genesis]
    /\ Forget(p)
    /\ UNCHANGED <<db, anchor, drawn>>

\* verify(): the rows, under p's own _lock (no writer of p is inside it) ...
VerifyRead(p) ==
    /\ pc[p] = "idle" /\ vpc[p] = "idle"
    /\ vpc' = [vpc EXCEPT ![p] = "read"]
    /\ snap' = [snap EXCEPT ![p] = View(p)]
    /\ verdict' = [verdict EXCEPT ![p] = "none"]
    /\ UNCHANGED <<logVars, procVars, drawn, faults>>

\* Seeded fault: an anchor anywhere in the chain is good enough.
Verdict_AnyRow(rows, a) ==
    IF ~Linear(rows) THEN "broken"
    ELSE IF a = Genesis THEN "unanchored"
    ELSE IF a \in Hashes(rows) THEN "ok"
    ELSE "replaced"

\* ... and its result, from the rows and the anchor it loads afterwards.
Verdict(rows, a) ==
    IF ~Linear(rows) THEN "broken"
    ELSE IF a = Genesis THEN "unanchored"
    ELSE IF a = HeadOf(rows) THEN "ok"
    ELSE IF a \in Hashes(rows) THEN "lag"
    ELSE "replaced"

VerifyJudge(p) ==
    /\ vpc[p] = "read"
    /\ vpc' = [vpc EXCEPT ![p] = "idle"]
    /\ \/ /\ verdict' = [verdict EXCEPT ![p] = Verdict(snap[p], anchor)]
          /\ UNCHANGED faults
       \/ /\ faults["outages"] < MaxOutages      \* load_head_anchor: None
          /\ faults' = [faults EXCEPT !["outages"] = @ + 1]
          /\ verdict' = [verdict EXCEPT ![p] = Verdict(snap[p], Genesis)]
    /\ UNCHANGED <<logVars, procVars, snap, drawn>>

Next == \E p \in Proc :
            \/ Open(p) \/ Acquire(p)
            \/ ReadHead(p) \/ Insert(p) \/ InsertBusy(p)
            \/ Commit(p) \/ CommitFails(p)
            \/ StoreAnchor(p) \/ AnchorFails(p)
            \/ Close(p) \/ Crash(p)
            \/ VerifyRead(p) \/ VerifyJudge(p)

Spec == Init /\ [][Next]_vars

-----------------------------------------------------------------------------
TypeOK == /\ db \in Seq(Row)
          /\ txn \in [Proc -> Seq(Row)]
          /\ anchor \in Nat
          /\ xlock \in Proc \cup {Nobody}
          /\ pc \in [Proc -> {"closed", "idle", "record", "hashed", "inserted",
                              "anchoring", "close"}]
          /\ prev \in [Proc -> Nat]
          /\ last \in [Proc -> Nat]
          /\ since \in [Proc -> Nat]
          /\ vpc \in [Proc -> {"idle", "read"}]
          /\ snap \in [Proc -> Seq(Row)]
          /\ verdict \in [Proc -> {"none", "ok", "unanchored", "lag",
                                   "replaced", "broken"}]
          /\ drawn \in Nat
          /\ faults \in [Fault -> Nat]

\* How many committed rows the anchor covers.
AnchorPos == IF anchor = Genesis THEN 0
             ELSE CHOOSE i \in 1..Len(db) : db[i].hash = anchor

\* The chain stays linear whoever appends, also as seen from inside an open
\* transaction ("two processes can never link two rows to one head").
ChainLinear == \A p \in Proc : Linear(View(p))

\* The anchor names a row that is committed: no crash, failed commit or roll
\* back leaves the keychain pointing at a row the database does not hold.
\* (Part of UnanchoredTail, and proved by itself.)
AnchorCommitted == anchor # Genesis => anchor \in Hashes(db)

\* A verdict "ok, anchored" is about rows that stay: what that verify() read
\* is a prefix of the committed log from then on, even when it read rows of
\* its own handle's open transaction.
OkIsDurable ==
    \A p \in Proc : verdict[p] = "ok" =>
        /\ Len(snap[p]) <= Len(db)
        /\ SubSeq(db, 1, Len(snap[p])) = snap[p]

Anchoring == {p \in Proc : pc[p] = "anchoring"}
Faulty == faults["crashes"] + faults["outages"] + faults["commits"]

\* What anchor_every promises: the anchor names a committed row, and the rows
\* beyond it are at most anchor_every - 1 for every handle ever opened, one for each crash, keychain
\* failure or failed commit, and the one being anchored now.  "Bounded by the
\* next write or close()": with no fault, a log whose handles are all closed is
\* anchored at its head, whoever closed first.
UnanchoredTail ==
    /\ AnchorCommitted
    /\ Len(db) - AnchorPos <=
          faults["opens"] * (AnchorEvery - 1) + Faulty + Cardinality(Anchoring)
    /\ (\A p \in Proc : pc[p] = "closed") /\ Faulty = 0 => anchor = HeadOf(db)

\* The log implements what it promises: rows are only ever added at the end,
\* chained, and the anchor only moves forward over rows that are there.
Abstract == INSTANCE AppendOnlyLog WITH log <- db, mark <- AnchorPos
ImplementsAppendOnlyLog == Abstract!Spec

-----------------------------------------------------------------------------
(* The inductive invariant of AuditLogProofs: what the properties rest on.  *)

\* Only the process that holds <db>.lock is inside record() or close().
LockInv == \A p \in Proc :
    pc[p] \in {"record", "hashed", "inserted", "anchoring", "close"} <=> xlock = p

\* One connection at a time has uncommitted rows.
TxnInv == /\ \A p, q \in Proc : txn[p] # <<>> /\ txn[q] # <<>> => p = q
          /\ \A p \in Proc : pc[p] = "inserted" => txn[p] # <<>>

\* The head that record() read is still the head when it inserts.
ReadInv == \A p \in Proc : pc[p] = "hashed" => prev[p] = HeadOf(View(p))

\* No hash occurs twice.
Distinct(rows) ==
    \A i \in 1..Len(rows) :
        /\ rows[i].hash \in 1..drawn
        /\ \A j \in 1..Len(rows) : rows[j].hash = rows[i].hash => j = i

DistinctInv == \A p \in Proc : Distinct(View(p))

\* _last_written is a committed row, and the head while it is being anchored.
LastInv == \A p \in Proc :
    /\ last[p] # Genesis => last[p] \in Hashes(db)
    /\ pc[p] = "anchoring" => db # <<>> /\ last[p] = HeadOf(db)

IInv == /\ TypeOK
        /\ LockInv
        /\ TxnInv
        /\ ReadInv
        /\ DistinctInv
        /\ ChainLinear
        /\ LastInv
        /\ AnchorCommitted

\* Rows that carry one hash sit at one place, and behind them is one history.
Agree(s, t) ==
    \A i \in 1..Len(s), j \in 1..Len(t) :
        s[i].hash = t[j].hash => i = j /\ \A k \in 1..i : s[k] = t[k]

\* What verify() read agrees with every view of the log from then on; and
\* once it is judged "ok" it is a prefix of the committed rows.
SnapDrawn == \A p \in Proc : \A i \in 1..Len(snap[p]) : snap[p][i].hash <= drawn
SnapAgrees == \A p, q \in Proc : Agree(snap[p], View(q))
OkStays == \A p \in Proc : verdict[p] = "ok" =>
               /\ Len(snap[p]) <= Len(db)
               /\ \A k \in 1..Len(snap[p]) : db[k] = snap[p][k]

SnapInv == SnapDrawn /\ SnapAgrees /\ OkStays

\* The rows an open handle may still commit before its next anchor: those of
\* every handle together are at most anchor_every - 1 for each one opened.
OpenHandles == {p \in Proc : pc[p] # "closed"}
Credit == {x \in OpenHandles \X (1..(AnchorEvery - 1)) : since[x[1]] < x[2]}

HandlesInv == /\ IsFiniteSet(OpenHandles)
              /\ Cardinality(OpenHandles) <= faults["opens"]

\* Rows that a failed commit left in p's open transaction.
InFlight(p) == IF pc[p] = "inserted" THEN 1 ELSE 0
LeftOpen(p) == Len(txn[p]) - InFlight(p)

LeftOpenInv == /\ \A p \in Proc : LeftOpen(p) <= faults["commits"]
               /\ \A p, q \in Proc : pc[p] = "anchoring" => txn[q] = <<>>

\* Unanchored rows and the credit that is left never exceed what the handles
\* opened so far and the faults pay for.
CreditInv == /\ Proc = {} => db = <<>>
             /\ \A p \in Proc :
                   Len(db) + LeftOpen(p) - AnchorPos + Cardinality(Credit) <=
                       faults["opens"] * (AnchorEvery - 1) + Faulty
                       + Cardinality(Anchoring)

\* With no fault, whoever wrote the head is still open, or it is anchored.
HeadInv == Faulty = 0 =>
    anchor = HeadOf(db) \/ \E p \in OpenHandles : last[p] = HeadOf(db)

TailInv == HandlesInv /\ LeftOpenInv /\ CreditInv /\ HeadInv

=============================================================================
