-------------------------------- MODULE Cbor --------------------------------
(***************************************************************************)
(* CBOR maps as the statements use them, and the decoders that read them:  *)
(* cbor2 (the product's), the one of run B1, and the one that runs B2 and  *)
(* B3 share.  A value begins with its kind; the digest of a value holds    *)
(* the value.  An encoded map keeps what its bytes show and a dictionary   *)
(* forgets: the form of its head, the order of its keys, and repeated ones.*)
(* Bound: keys are encoded in one byte.                                    *)
(***************************************************************************)
EXTENDS Integers, Sequences, SequencesExt, FiniteSets

Number(n) == <<"int", n>>
Text(s) == <<"text", s>>
Bytes(length, content) == <<"bytes", length, content>>
Absent == <<"absent">>

\* The head of the map says its length in as few bytes as can be, or in more
\* ("long"), or not at all ("indefinite"), or says that it is no map.
Map(entries) == [head |-> "short", entries |-> entries]
IsMap(e) == e.head # "no_map"

\* A key's place in the bytewise order of encoded keys: 0, 1, .., -1, -2, ..
Rank(key) == IF key >= 0 THEN key ELSE 31 - key

KeysOf(e) == [i \in DOMAIN e.entries |-> e.entries[i][1]]
KeySet(e) == {e.entries[i][1] : i \in DOMAIN e.entries}
Distinct(e) == Cardinality(KeySet(e)) = Len(e.entries)
Ascending(e) == \A i \in 2..Len(e.entries) : Rank(KeysOf(e)[i - 1]) < Rank(KeysOf(e)[i])

\* What a reader finds that takes the first entry with a key, and one that
\* lets the last win.
Entry(e, key, better(_, _)) ==
    LET at == {i \in DOMAIN e.entries : e.entries[i][1] = key}
    IN  IF at = {} THEN Absent
        ELSE e.entries[CHOOSE i \in at : \A j \in at : better(i, j)][2]
First(e, key) == Entry(e, key, LAMBDA i, j : i <= j)
Latest(e, key) == Entry(e, key, LAMBDA i, j : i >= j)

\* sort_keys_deterministic; B1's dumps and cbor2's canonical form do it too.
Sorted(entries) == SortSeq(entries, LAMBDA a, b : Rank(a[1]) < Rank(b[1]))

\* B1: definite lengths and no key twice; if so asked, short heads and keys in
\* order too.
LoadsB1(e, require_deterministic) ==
    /\ e.head # "indefinite" /\ Distinct(e)
    /\ require_deterministic => e.head # "long" /\ Ascending(e)

\* B2 and B3: definite lengths, and if strict short heads; any order, and a
\* key as often as it comes.
Loads(e, strict) == e.head # "indefinite" /\ (strict => e.head # "long")
=============================================================================
