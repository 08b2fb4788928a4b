---------------------------- MODULE VariantOrder ----------------------------
(***************************************************************************)
(* rust-stdlib/pocs/162: Ord for NVariantOp(Option<_>), under which all    *)
(* Some are equal, and a BTreeSet that tells keys apart by it.             *)
(***************************************************************************)
EXTENDS Integers, Sequences

None == "None"

\* Ord::cmp: Less, Equal or Greater.
Cmp(a, b) ==
    IF a = None /\ b # None THEN -1 ELSE IF a # None /\ b = None THEN 1 ELSE 0

\* BTreeSet::insert keeps the key that is there already.
Insert(set, x) == IF \E y \in set : Cmp(x, y) = 0 THEN set ELSE set \cup {x}
BTreeSet(keys) ==
    LET set[k \in 0 .. Len(keys)] == IF k = 0 THEN {} ELSE Insert(set[k - 1], keys[k])
    IN  set[Len(keys)]

-----------------------------------------------------------------------------
\* Whatever is inserted, the set has None and the first Some at most: Ord is an
\* order of two classes, consistent with Eq on None only.
FirstSomeKept(keys) ==
    BTreeSet(keys) = {x \in {None} : \E k \in DOMAIN keys : keys[k] = x}
                     \cup {keys[k] : k \in {k \in DOMAIN keys : /\ keys[k] # None
                                                              /\ \A j \in 1 .. k - 1 : keys[j] = None}}
=============================================================================
