--------------------------- MODULE MCTransactions ---------------------------
EXTENDS Transactions, TLC

CONSTANTS s1, s2, s3

ThreeSlots == {s1, s2, s3}
TwoSlots == {s1, s2}

(* The locations are interchangeable: no call orders them. *)
SlotSymmetry == Permutations(Slots)
=============================================================================
