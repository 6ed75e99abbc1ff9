------------------------------ MODULE MCBPTree ------------------------------
EXTENDS BPTree

(* One location: what the pairs of a key are does not matter to the nodes. *)
OneLocation == {0}
TenKeys == 1..10
TenPairs == TenKeys \X OneLocation
NoRows == {<< >>}

(* Two keys with many rows among others with one.  Of five keys, a loan    *)
(* between two leaves always moves the third.  Overflow pages fill, empty, *)
(* move between leaves and go with their key.                              *)
ThreeLocations == 0..2
FiveKeys == 1..5
ManyPairs == (FiveKeys \X {0}) \union {<<3, 1>>, <<3, 2>>, <<4, 1>>}
SomeTables == {<< >>, <<<<5, 0>>, <<3, 1>>, <<4, 1>>, <<3, 2>>, <<2, 0>>, <<3, 0>>, <<1, 0>>, <<4, 0>>>>}
=============================================================================
