------------------------------ MODULE Multimap ------------------------------
(***************************************************************************)
(* What an index promises: a set of pairs of a key and the location of a   *)
(* row, and calls that add a pair, take one away, move one or take away    *)
(* every pair of a key.                                                    *)
(***************************************************************************)
EXTENDS Integers

CONSTANTS
    Keys,       \* the values of the indexed column
    Locations,  \* where a row can be
    Tables,     \* the rows an indexed table can have, as sequences of pairs
    NoIndex     \* the content of an index that does not exist

VARIABLE content    \* the pairs

Init == content = NoIndex

-----------------------------------------------------------------------------
(* What one call does to the content `old'. *)

Inserted(old, k, l) == old \union {<<k, l>>}

PairDeleted(old, k, l) == old \ {<<k, l>>}

KeyDeleted(old, k) == {pair \in old : pair[1] # k}

Updated(old, k, l, m) == IF <<k, l>> \in old THEN (old \ {<<k, l>>}) \union {<<k, m>>} ELSE old

Call(old, new) ==
    IF old = NoIndex
    THEN \E rows \in Tables : new = {rows[i] : i \in DOMAIN rows}
    ELSE \/ new = NoIndex
         \/ \E k \in Keys : new = KeyDeleted(old, k)
         \/ \E k \in Keys, l \in Locations : new \in {Inserted(old, k, l), PairDeleted(old, k, l)}
         \/ \E k \in Keys, l, m \in Locations : new = Updated(old, k, l, m)

Next == \E old \in {content}, new \in {content'} : Call(old, new)

Spec == Init /\ [][Next]_content
=============================================================================
