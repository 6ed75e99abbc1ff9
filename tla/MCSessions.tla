----------------------------- MODULE MCSessions -----------------------------
(* One table of two columns a and b beside _txn_id, and rows that differ in a. *)
EXTENDS Sessions

Ints(name) == [name |-> name, type |-> "INT", size |-> 4]
MCColumns == << <<Ints(1), Ints(2), Ints(9)>> >>
MCMinInt == -8
MCSlots == {1} \X (1..2)
Raw(n) == <<"Integer", n>>
MCInsertedRows == {<<Raw(1), Raw(1)>>, <<Raw(2), Raw(1)>>, <<Raw(1), <<"String", 1>> >>}
MCComparisons == {<<1, ">=", Whole(2)>>, <<2, "<", Whole(2)>>}
MCUpdatedColumns ==
    {<<[pos |-> 1, type |-> "INT", raw |-> Raw(2)], [pos |-> 2, type |-> "INT", raw |-> Raw(1)]>>,
     <<[pos |-> 2, type |-> "INT", raw |-> Null]>>}

ASSUME MCClientsArePlain == PlainClients

(* No call reads the outcome of the one before it, nor a transaction that  *)
(* is over.                                                                *)
View == <<tables, damaged, nextTxnID, alive, [x \in activeTxns |-> <<snapshot[x], insertHistory[x]>>]>>
=============================================================================
