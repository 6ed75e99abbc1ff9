-------------------------------- MODULE Heap --------------------------------
(***************************************************************************)
(* What the transaction layer knows of a table: a function from record     *)
(* locations (the code's PageSlotID) to the record stored there, or NoRow. *)
(* TableFile.tla models how src/table and src/page implement it.           *)
(***************************************************************************)
EXTENDS Integers

CONSTANTS
    Slots,      \* the record locations, pairs <page, slot> in the code
    NoRow       \* the content of a location whose bitmap bit is clear

FreeSlots(heap) == {s \in Slots : heap[s] = NoRow}

(* Table::InsertRecord, seen from above: one free location takes the row.  *)
Put(heap, s, row) == [heap EXCEPT ![s] = row]

(***************************************************************************)
(* A loop of Table::DeleteRecord over the locations loc[i], i in P, from   *)
(* the largest i down.  RecordPage::DeleteRecord throws on a location that *)
(* holds no record, either from the start or because the loop has already  *)
(* deleted it, and the exception ends the loop: only the positions above   *)
(* the first such one take effect.                                         *)
(***************************************************************************)
Stuck(heap, loc, P) ==
    {i \in P : heap[loc[i]] = NoRow \/ \E j \in P : j > i /\ loc[j] = loc[i]}

Deleted(heap, loc, P) ==
    {loc[i] : i \in {k \in P : \A j \in Stuck(heap, loc, P) : j < k}}

DeleteBackward(heap, loc, P) ==
    [s \in Slots |-> IF s \in Deleted(heap, loc, P) THEN NoRow ELSE heap[s]]
=============================================================================
