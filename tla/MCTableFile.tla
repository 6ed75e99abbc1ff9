---------------------------- MODULE MCTableFile ----------------------------
EXTENDS TableFile, TLC

CONSTANTS t1, t2, r1, r2

TwoTables == {t1, t2}
OneRow == {r1}
TwoRows == {r1, r2}

(* Neither names nor rows are ordered by the record layer. *)
NameSymmetry == Permutations(Tables) \union Permutations(Rows)
=============================================================================
