----------------------------- MODULE HashChain -----------------------------
(***************************************************************************)
(* Rows chained by hash, as both audit logs of palimpsests keep them: each *)
(* names the hash of the one before it, and the first names a constant.    *)
(***************************************************************************)
EXTENDS Integers, Sequences

Genesis == 0      \* GENESIS: the fixed start of a chain, no row's hash

Row == [prev : Nat, hash : Nat]

HashBefore(rows, i) == IF i = 1 THEN Genesis ELSE rows[i - 1].hash

\* The hash the next row has to name.
HeadOf(rows) == IF rows = <<>> THEN Genesis ELSE rows[Len(rows)].hash

\* Every row names the hash of the row before it: no gap, no fork, no reorder.
Linear(rows) == \A i \in 1..Len(rows) : rows[i].prev = HashBefore(rows, i)

Hashes(rows) == {rows[i].hash : i \in 1..Len(rows)}
=============================================================================
