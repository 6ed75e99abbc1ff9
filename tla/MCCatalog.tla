----------------------------- MODULE MCCatalog -----------------------------
EXTENDS Catalog

(* Table 3 has a name of more than 60 bytes that begins with that of 2. *)
ThreeTables == 1..3
CutTo2 == [t \in ThreeTables |-> IF t = 3 THEN 2 ELSE t]

(* The name of table 3 leaves no room in an index name for the space, and  *)
(* that of table 2 none for what the name of column 2 has more than that   *)
(* of column 1, with which it begins.                                      *)
CutIndexNames ==
    [a \in ThreeTables \X (0..2) |->
        IF a[1] = 3 THEN <<3, 9>> ELSE IF a = <<2, 2>> THEN <<2, 1>> ELSE a]

(* Column 1 is one that clients look up and no table has.  With _txn_id,  *)
(* whose name is before the others, columns are not declared in the order *)
(* of their names.                                                         *)
TwoColumns == 1..2
OneSchema == {<<2>>}

(* The catalog pages are read by Open only, and an object that has not     *)
(* been built yet differs in nothing from the one that will be.            *)
View == <<phase, page, lossless, IF Running THEN << >> ELSE stored,
          [t \in DOMAIN tableIDs |-> GetTable(t)],
          [a \in DOMAIN indexIDs |-> GetIndex(a)], tableIndexes>>

Pages == 1..3
NoPage == 0
=============================================================================
